---------------------- MODULE ConversationStoreProofs ----------------------
(***************************************************************************)
(* Proofs about ConversationStore, for any number of requests, users,      *)
(* sessions and concurrent edits.                                          *)
(*                                                                         *)
(* The argument: while a session's row exists, none of its turns is ever   *)
(* removed (rows leave only together with the session, and an id is never  *)
(* handed out again).  So what a request once read about its session -- the*)
(* turns of its context, the last number -- can only be exceeded later,    *)
(* and a save that finds its number free finds exactly the next one.       *)
(***************************************************************************)
EXTENDS ConversationStore, SequenceTheorems, TLAPS

\* The requests that have read the last number of their session and may still store a turn
Pending == {"running", "answered", "queried", "responded", "saving", "conflict", "renumbered"}

\* The requests whose queries row is committed and whose turn is not
Unsaved == {"queried", "responded", "saving", "conflict", "renumbered"}

\* The turn numbers of a session are an initial segment of the positive numbers.
Dense ==
  \A s \in Session :
    /\ \E n \in Nat : Numbers(s) = 1..n
    /\ \A t, u \in TurnsOf(s) : t.num = u.num => t = u

\* Who runs where: a request has a session from its resolution on, and it is its user's.
Owned ==
  \A r \in Request :
    /\ pc[r] \in Pending \cup {"resolved", "loaded", "stored"} => sess[r] \in issued
    /\ sess[r] # NoSession => sess[r] \in issued /\ owner[sess[r]] = asker[r]

\* What a request has read of a session that still exists still stands.
ReadsStand ==
  \A r \in Request :
    sess[r] \in present =>
      /\ pc[r] \in Pending \cup {"loaded"} => ctx[r] \subseteq TurnsOf(sess[r])
      /\ pc[r] \in Pending => /\ num[r] \in 1..(LastNumber(sess[r]) + 1)
                              /\ reported[r] \in 1..num[r]
                              /\ \A c \in ctx[r] : c.num < num[r]
      /\ pc[r] \in Unsaved => [sess |-> sess[r], req |-> r] \in queries

\* Where the rows come from
RowsHaveRequest == \A t \in turns : pc[t.req] = "stored" /\ sess[t.req] = t.sess

IInv ==
  /\ TypeOK
  /\ Dense
  /\ Owned
  /\ ReadsStand
  /\ RowsHaveRequest
  /\ NoOrphanRows
  /\ TurnHasQuery
  /\ HistoryStaysPrivate
  /\ StoredInOrder

-----------------------------------------------------------------------------
(* Type correctness *)

LEMMA InitType == Init => TypeOK
  BY RequestAssumption, SessionAssumption, BoundAssumption
  DEF Init, TypeOK, Title, PC, EditKind, Turn, Query

\* What last_turn_number returns is a natural number in every state of the right type in
\* which the numbers of the session are dense.
LEMMA MaxOfSegment ==
  ASSUME NEW n \in Nat
  PROVE  (IF 1..n = {} THEN 0 ELSE Max(1..n)) = n
<1>1. CASE n = 0
  BY <1>1
<1>2. CASE n # 0
  <2>1. n \in 1..n /\ \A y \in 1..n : n >= y
    BY <1>2
  <2>2. \A x \in 1..n : (\A y \in 1..n : x >= y) => x = n
    BY <2>1
  <2>3. Max(1..n) = n
    BY <2>1, <2>2 DEF Max
  <2> QED BY <2>1, <2>3
<1> QED BY <1>1, <1>2

LEMMA LastOfDense ==
  ASSUME NEW s \in Session, NEW n \in Nat, Numbers(s) = 1..n
  PROVE  LastNumber(s) = n
  BY MaxOfSegment DEF LastNumber

LEMMA LastIsNat ==
  ASSUME Dense, NEW s \in Session
  PROVE  LastNumber(s) \in Nat /\ Numbers(s) = 1..LastNumber(s)
  BY LastOfDense DEF Dense

-----------------------------------------------------------------------------
(* The inductive step, one lemma per kind of action *)

\* Where neither rows nor session ids change, what is read from them stays the same.
LEMMA SameStore ==
  ASSUME UNCHANGED store
  PROVE  /\ \A s : TurnsOf(s)' = TurnsOf(s) /\ Numbers(s)' = Numbers(s)
         /\ \A s : LastNumber(s)' = LastNumber(s)
         /\ Dense => Dense'
         /\ NoOrphanRows => NoOrphanRows'
         /\ TurnHasQuery => TurnHasQuery'
  BY DEF store, TurnsOf, Numbers, LastNumber, Dense, NoOrphanRows, TurnHasQuery

\* A request that only moves on, towards its turn being stored or given up
LEMMA MoveOn ==
  ASSUME IInv, TypeOK', NEW r \in Request, NEW p \in PC,
         pc' = [pc EXCEPT ![r] = p],
         pc[r] # "stored", p \notin {"stored", "resolved", "loaded"},
         p \in Pending => pc[r] \in Pending,
         p \in Unsaved => pc[r] \in Unsaved,
         UNCHANGED <<store, asker, sess, ctx, num, reported>>
  PROVE  IInv'
<1>1. /\ pc \in [Request -> PC] /\ pc' \in [Request -> PC]
      /\ pc'[r] = p /\ \A q \in Request : q # r => pc'[q] = pc[q]
  BY DEF IInv, TypeOK
<1>2. Dense' /\ NoOrphanRows' /\ TurnHasQuery'
  BY SameStore DEF IInv
<1>3. Owned'
  BY <1>1 DEF IInv, Owned, store
<1>4. ReadsStand'
  BY <1>1, SameStore DEF IInv, ReadsStand, store
<1>5. RowsHaveRequest'
  BY <1>1 DEF IInv, RowsHaveRequest, store
<1>6. HistoryStaysPrivate'
  BY DEF IInv, HistoryStaysPrivate, store
<1>7. StoredInOrder'
  BY DEF IInv, StoredInOrder, store
<1> QED BY <1>2, <1>3, <1>4, <1>5, <1>6, <1>7 DEF IInv

LEMMA MovesOn ==
  ASSUME IInv, NEW r \in Request,
         \/ RunAnswers(r) \/ RunEndsWithoutAnswer(r) \/ Respond(r) \/ Disconnect(r)
         \/ BeginSave(r) \/ RejectTurn(r) \/ SaveFails(r)
  PROVE  IInv'
<1>1. TypeOK
  BY DEF IInv
<1>2. CASE RunAnswers(r)
  <2>1. TypeOK' BY <1>1, <1>2 DEF RunAnswers, TypeOK, PC, store, edits
  <2> QED BY <1>2, <2>1, MoveOn DEF RunAnswers, PC, Pending, Unsaved
<1>3. CASE RunEndsWithoutAnswer(r)
  <2>1. TypeOK' BY <1>1, <1>3 DEF RunEndsWithoutAnswer, TypeOK, PC, store, edits
  <2> QED BY <1>3, <2>1, MoveOn DEF RunEndsWithoutAnswer, PC, Pending, Unsaved
<1>4. CASE Respond(r)
  <2>1. TypeOK' BY <1>1, <1>4 DEF Respond, TypeOK, PC, store, edits
  <2> QED BY <1>4, <2>1, MoveOn DEF Respond, PC, Pending, Unsaved
<1>5. CASE Disconnect(r)
  <2>1. TypeOK' BY <1>1, <1>5 DEF Disconnect, TypeOK, PC, store, edits
  <2> QED BY <1>5, <2>1, MoveOn DEF Disconnect, PC, Pending, Unsaved
<1>6. CASE BeginSave(r)
  <2>1. TypeOK'
    BY <1>1, <1>6 DEF BeginSave, TypeOK, PC, store, edits
  <2> QED BY <1>6, <2>1, MoveOn DEF BeginSave, PC, Pending, Unsaved
<1>7. CASE RejectTurn(r)
  <2>1. PICK p \in {"conflict", "lost"} : pc' = [pc EXCEPT ![r] = p]
    BY <1>7 DEF RejectTurn
  <2>2. TypeOK' BY <1>1, <1>7, <2>1 DEF RejectTurn, TypeOK, PC, store, edits
  <2> QED BY <1>7, <2>1, <2>2, MoveOn DEF RejectTurn, PC, Pending, Unsaved
<1>8. CASE SaveFails(r)
  <2>1. TypeOK' BY <1>1, <1>8, BoundAssumption DEF SaveFails, TypeOK, PC, store, edits
  <2> QED BY <1>8, <2>1, MoveOn DEF SaveFails, PC, Pending, Unsaved
<1> QED BY <1>2, <1>3, <1>4, <1>5, <1>6, <1>7, <1>8

\* The graph inputs: the session, then its recent turns, then the next number
LEMMA ResolveSessionStep ==
  ASSUME IInv, NEW r \in Request, NEW s \in Session, ResolveSession(r, s)
  PROVE  IInv'
<1>1. TypeOK'
  BY DEF IInv, ResolveSession, TypeOK, PC, store, edits
<1>2. Dense' /\ NoOrphanRows' /\ TurnHasQuery'
  BY SameStore DEF IInv, ResolveSession
<1>3. /\ pc[r] = "idle" /\ pc'[r] \in {"resolved", "ended"}
      /\ \A q \in Request : q # r => pc'[q] = pc[q] /\ sess'[q] = sess[q]
      /\ \/ sess'[r] = sess[r] /\ pc'[r] = "ended"
         \/ sess'[r] = s /\ s \in present /\ owner[s] = asker[r]
  BY DEF IInv, TypeOK, ResolveSession, Found
<1>4. Owned'
  <2>1. s \in present => s \in issued
    BY DEF IInv, TypeOK
  <2> QED BY <1>3, <2>1 DEF IInv, Owned, ResolveSession, store, Pending
<1>5. ReadsStand'
  BY <1>3, SameStore DEF IInv, ReadsStand, ResolveSession, store, Pending, Unsaved
<1>6. RowsHaveRequest'
  BY <1>3 DEF IInv, RowsHaveRequest, TypeOK, Turn, ResolveSession, store
<1>7. HistoryStaysPrivate' /\ StoredInOrder'
  BY DEF IInv, HistoryStaysPrivate, StoredInOrder, ResolveSession, store
<1> QED BY <1>1, <1>2, <1>4, <1>5, <1>6, <1>7 DEF IInv

LEMMA LoadContextStep ==
  ASSUME IInv, NEW r \in Request, LoadContext(r)
  PROVE  IInv'
<1>1. RecentTurns(sess[r]) \subseteq TurnsOf(sess[r]) /\ TurnsOf(sess[r]) \subseteq turns
  BY DEF RecentTurns, TurnsOf
<1>2. TypeOK'
  BY <1>1 DEF IInv, LoadContext, TypeOK, PC, store, edits
<1>3. Dense' /\ NoOrphanRows' /\ TurnHasQuery'
  BY SameStore DEF IInv, LoadContext
<1>4. /\ pc[r] = "resolved" /\ pc'[r] = "loaded" /\ ctx'[r] = RecentTurns(sess[r])
      /\ \A q \in Request : q # r => pc'[q] = pc[q] /\ ctx'[q] = ctx[q]
  BY DEF IInv, TypeOK, LoadContext
<1>5. Owned'
  BY <1>4 DEF IInv, Owned, LoadContext, store, Pending
<1>6. ReadsStand'
  BY <1>1, <1>4, SameStore DEF IInv, ReadsStand, LoadContext, store, Pending, Unsaved
<1>7. RowsHaveRequest'
  BY <1>4 DEF IInv, RowsHaveRequest, TypeOK, Turn, LoadContext, store
<1>8. HistoryStaysPrivate'
  <2>1. \A c \in RecentTurns(sess[r]) : c.sess = sess[r] /\ c \in turns
    BY <1>1 DEF TurnsOf
  <2>2. sess[r] \in issued /\ sess[r] # NoSession /\ owner[sess[r]] = asker[r]
    BY <1>4, SessionAssumption DEF IInv, Owned, TypeOK
  <2>3. \A c \in RecentTurns(sess[r]) : asker[c.req] = asker[r]
    BY <2>1, <2>2 DEF IInv, HistoryStaysPrivate
  <2> QED BY <1>4, <2>3 DEF IInv, HistoryStaysPrivate, LoadContext, store
<1>9. StoredInOrder'
  BY <1>4 DEF IInv, StoredInOrder, RowsHaveRequest, TypeOK, Turn, LoadContext, store
<1> QED BY <1>2, <1>3, <1>5, <1>6, <1>7, <1>8, <1>9 DEF IInv

\* Taking the number after the last one leaves every turn of the context behind.
LEMMA ContextBelowNext ==
  ASSUME IInv, NEW r \in Request, sess[r] \in present, ctx[r] \subseteq TurnsOf(sess[r])
  PROVE  \A c \in ctx[r] : c.num < LastNumber(sess[r]) + 1
<1>1. sess[r] \in Session
  BY DEF IInv, TypeOK
<1>2. \A c \in ctx[r] : c.num \in 1..LastNumber(sess[r])
  BY <1>1, LastIsNat DEF IInv, Numbers
<1> QED BY <1>1, <1>2, LastIsNat DEF IInv

LEMMA ChooseNumberStep ==
  ASSUME IInv, NEW r \in Request, ChooseNumber(r)
  PROVE  IInv'
<1>1. /\ pc[r] = "loaded" /\ pc'[r] = "running"
      /\ num'[r] = LastNumber(sess[r]) + 1 /\ reported'[r] = LastNumber(sess[r]) + 1
      /\ \A q \in Request : q # r =>
           pc'[q] = pc[q] /\ num'[q] = num[q] /\ reported'[q] = reported[q]
  BY DEF IInv, TypeOK, ChooseNumber
<1>2. sess[r] \in Session /\ LastNumber(sess[r]) \in Nat
  BY <1>1, LastIsNat DEF IInv, TypeOK, Owned
<1>3. TypeOK'
  BY <1>2 DEF IInv, ChooseNumber, TypeOK, PC, store, edits
<1>4. Dense' /\ NoOrphanRows' /\ TurnHasQuery'
  BY SameStore DEF IInv, ChooseNumber
<1>5. Owned'
  BY <1>1 DEF IInv, Owned, ChooseNumber, store, Pending
<1>6. ReadsStand'
  <2>1. sess[r] \in present => ctx[r] \subseteq TurnsOf(sess[r])
    BY <1>1 DEF IInv, ReadsStand
  <2>2. sess[r] \in present => \A c \in ctx[r] : c.num < num'[r]
    BY <1>1, <2>1, ContextBelowNext
  <2> QED
    BY <1>1, <1>2, <2>1, <2>2, SameStore
    DEF IInv, ReadsStand, ChooseNumber, store, Pending, Unsaved
<1>7. RowsHaveRequest'
  BY <1>1 DEF IInv, RowsHaveRequest, TypeOK, Turn, ChooseNumber, store
<1>8. HistoryStaysPrivate'
  BY DEF IInv, HistoryStaysPrivate, ChooseNumber, store
<1>9. StoredInOrder'
  BY <1>1 DEF IInv, StoredInOrder, RowsHaveRequest, TypeOK, Turn, ChooseNumber, store
<1> QED BY <1>3, <1>4, <1>5, <1>6, <1>7, <1>8, <1>9 DEF IInv

LEMMA LoadFailsStep ==
  ASSUME IInv, NEW r \in Request, LoadFails(r)
  PROVE  IInv'
<1>1. /\ pc[r] \in {"resolved", "loaded"} /\ pc'[r] = "running"
      /\ num'[r] = 1 /\ reported'[r] = 1 /\ ctx'[r] = {}
      /\ \A q \in Request : q # r =>
           /\ pc'[q] = pc[q] /\ num'[q] = num[q] /\ reported'[q] = reported[q]
           /\ ctx'[q] = ctx[q]
  BY DEF IInv, TypeOK, LoadFails
<1>2. sess[r] \in Session /\ LastNumber(sess[r]) \in Nat
  BY <1>1, LastIsNat DEF IInv, TypeOK, Owned
<1>3. TypeOK'
  BY BoundAssumption DEF IInv, LoadFails, TypeOK, PC, store, edits
<1>4. Dense' /\ NoOrphanRows' /\ TurnHasQuery'
  BY SameStore DEF IInv, LoadFails
<1>5. Owned'
  BY <1>1 DEF IInv, Owned, LoadFails, store, Pending
<1>6. ReadsStand'
  BY <1>1, <1>2, SameStore DEF IInv, ReadsStand, LoadFails, store, Pending, Unsaved
<1>7. RowsHaveRequest'
  BY <1>1 DEF IInv, RowsHaveRequest, TypeOK, Turn, LoadFails, store
<1>8. HistoryStaysPrivate'
  BY <1>1 DEF IInv, HistoryStaysPrivate, LoadFails, store
<1>9. StoredInOrder'
  BY <1>1 DEF IInv, StoredInOrder, RowsHaveRequest, TypeOK, Turn, LoadFails, store
<1> QED BY <1>3, <1>4, <1>5, <1>6, <1>7, <1>8, <1>9 DEF IInv

\* A new row of table sessions: under an id no request, query or turn knows
LEMMA AddSessionStep ==
  ASSUME IInv, TypeOK', NEW s \in Session, NEW u \in User, NEW t \in Title,
         AddSession(s, u, t),
         UNCHANGED <<asker, ctx, num, reported>>,
         \A q \in Request :
           \/ pc'[q] = pc[q] /\ sess'[q] = sess[q]
           \/ /\ pc[q] = "idle" /\ pc'[q] = "resolved"
              /\ sess'[q] = s /\ u = asker[q]
  PROVE  IInv'
<1>1. /\ UNCHANGED <<turns, queries>> /\ s \notin issued
      /\ present' = present \cup {s} /\ issued' = issued \cup {s} /\ owner'[s] = u
      /\ \A x \in issued : owner'[x] = owner[x]
      /\ \A x : TurnsOf(x)' = TurnsOf(x) /\ Numbers(x)' = Numbers(x)
      /\ \A x : LastNumber(x)' = LastNumber(x)
  BY DEF AddSession, IInv, TypeOK, TurnsOf, Numbers, LastNumber
<1>2. Dense' /\ NoOrphanRows' /\ TurnHasQuery'
  BY <1>1 DEF IInv, Dense, NoOrphanRows, TurnHasQuery
<1>3. Owned'
  BY <1>1 DEF IInv, Owned, Pending
<1>4. ReadsStand'
  <2>1. \A q \in Request : sess[q] # s \/ pc[q] \in {"idle", "ended", "lost"}
    BY <1>1 DEF IInv, Owned, TypeOK, PC, Pending
  <2> QED BY <1>1, <2>1 DEF IInv, ReadsStand, Pending, Unsaved
<1>5. RowsHaveRequest'
  BY <1>1 DEF IInv, RowsHaveRequest, TypeOK, Turn
<1>6. HistoryStaysPrivate'
  <2>1. \A x \in turns \cup queries : x.sess \in issued
    BY DEF IInv, NoOrphanRows, TypeOK
  <2> QED BY <1>1, <2>1 DEF IInv, HistoryStaysPrivate
<1>7. StoredInOrder'
  BY <1>1 DEF IInv, StoredInOrder
<1> QED BY <1>2, <1>3, <1>4, <1>5, <1>6, <1>7 DEF IInv

LEMMA NewSessionStep ==
  ASSUME IInv, NEW s \in Session,
         \/ \E r \in Request : ResolveNewSession(r, s)
         \/ \E u \in User : CreateSession(u, s)
  PROVE  IInv'
<1>1. CASE \E r \in Request : ResolveNewSession(r, s)
  <2>1. PICK r \in Request : ResolveNewSession(r, s)
    BY <1>1
  <2>2. asker[r] \in User /\ TitleOf(r) \in Title
    BY DEF IInv, TypeOK, TitleOf, Title
  <2>3. TypeOK'
    BY <2>1, <2>2 DEF IInv, ResolveNewSession, AddSession, TypeOK, PC, edits
  <2>4. \A q \in Request : \/ pc'[q] = pc[q] /\ sess'[q] = sess[q]
                           \/ /\ pc[q] = "idle" /\ pc'[q] = "resolved"
                              /\ sess'[q] = s /\ asker[r] = asker[q]
    BY <2>1 DEF IInv, TypeOK, ResolveNewSession
  <2> QED BY <2>1, <2>2, <2>3, <2>4, AddSessionStep DEF ResolveNewSession
<1>2. CASE \E u \in User : CreateSession(u, s)
  <2>1. PICK u \in User : CreateSession(u, s)
    BY <1>2
  <2>2. TypeOK'
    BY <2>1 DEF IInv, CreateSession, AddSession, TypeOK, PC, Title, requests, edits
  <2> QED BY <2>1, <2>2, AddSessionStep DEF CreateSession, requests, Title
<1> QED BY <1>1, <1>2

LEMMA SaveQueryStep ==
  ASSUME IInv, NEW r \in Request, SaveQuery(r)
  PROVE  IInv'
<1> DEFINE row == [sess |-> sess[r], req |-> r]
<1>1. pc[r] = "answered" /\ sess[r] \in issued /\ sess[r] \in Session /\ sess[r] # NoSession
  BY SessionAssumption DEF IInv, Owned, TypeOK, SaveQuery, Pending
<1>2. TypeOK'
  BY <1>1 DEF IInv, SaveQuery, TypeOK, PC, Query, edits
<1>3. CASE sess[r] \notin present
  BY <1>1, <1>2, <1>3, MoveOn DEF SaveQuery, PC, Pending, Unsaved, store
<1>4. CASE sess[r] \in present
  <2>1. /\ queries' = queries \cup {row} /\ UNCHANGED turns
        /\ pc'[r] = "queried" /\ \A q \in Request : q # r => pc'[q] = pc[q]
        /\ \A x : TurnsOf(x)' = TurnsOf(x) /\ Numbers(x)' = Numbers(x)
        /\ \A x : LastNumber(x)' = LastNumber(x)
    BY <1>4 DEF IInv, TypeOK, SaveQuery, TurnsOf, Numbers, LastNumber
  <2>2. Dense' /\ NoOrphanRows' /\ TurnHasQuery'
    BY <1>4, <2>1 DEF IInv, Dense, NoOrphanRows, TurnHasQuery, SaveQuery
  <2>3. Owned'
    BY <1>1, <2>1 DEF IInv, Owned, SaveQuery, Pending
  <2>4. ReadsStand'
    BY <1>1, <2>1 DEF IInv, ReadsStand, SaveQuery, Pending, Unsaved
  <2>5. RowsHaveRequest'
    BY <1>1, <2>1 DEF IInv, RowsHaveRequest, TypeOK, Turn, SaveQuery
  <2>6. HistoryStaysPrivate'
    <3>1. owner[row.sess] = asker[row.req]
      BY <1>1 DEF IInv, Owned
    <3> QED BY <2>1, <3>1 DEF IInv, HistoryStaysPrivate, SaveQuery
  <2>7. StoredInOrder'
    BY <2>1 DEF IInv, StoredInOrder, SaveQuery
  <2> QED BY <1>2, <2>2, <2>3, <2>4, <2>5, <2>6, <2>7 DEF IInv
<1> QED BY <1>3, <1>4

LEMMA NextNumberStep ==
  ASSUME IInv, NEW r \in Request, NextNumber(r)
  PROVE  IInv'
<1>1. /\ pc[r] = "conflict" /\ pc'[r] = "renumbered" /\ num'[r] = LastNumber(sess[r]) + 1
      /\ \A q \in Request : q # r => pc'[q] = pc[q] /\ num'[q] = num[q]
  BY DEF IInv, TypeOK, NextNumber
<1>2. sess[r] \in Session /\ LastNumber(sess[r]) \in Nat
  BY <1>1, LastIsNat DEF IInv, TypeOK, Owned, Pending
<1>3. TypeOK'
  BY <1>2 DEF IInv, NextNumber, TypeOK, PC, store, edits
<1>4. Dense' /\ NoOrphanRows' /\ TurnHasQuery'
  BY SameStore DEF IInv, NextNumber
<1>5. Owned'
  BY <1>1 DEF IInv, Owned, NextNumber, store, Pending
<1>6. ReadsStand'
  <2>1. ASSUME sess[r] \in present
        PROVE  /\ ctx[r] \subseteq TurnsOf(sess[r])
               /\ \A c \in ctx[r] : c.num < num'[r]
               /\ reported[r] \in 1..num'[r]
               /\ [sess |-> sess[r], req |-> r] \in queries
    <3>1. /\ ctx[r] \subseteq TurnsOf(sess[r])
          /\ num[r] \in 1..(LastNumber(sess[r]) + 1) /\ reported[r] \in 1..num[r]
          /\ [sess |-> sess[r], req |-> r] \in queries
      BY <1>1, <2>1 DEF IInv, ReadsStand, Pending, Unsaved
    <3>2. reported[r] \in 1..num'[r]
      BY <1>1, <1>2, <3>1
    <3> QED BY <1>1, <2>1, <3>1, <3>2, ContextBelowNext
  <2>2. num'[r] \in 1..(LastNumber(sess[r]) + 1)
    BY <1>1, <1>2
  <2> QED
    BY <1>1, <2>1, <2>2, SameStore DEF IInv, ReadsStand, NextNumber, store, Pending, Unsaved
<1>7. RowsHaveRequest'
  BY <1>1 DEF IInv, RowsHaveRequest, TypeOK, Turn, NextNumber, store
<1>8. HistoryStaysPrivate' /\ StoredInOrder'
  BY DEF IInv, HistoryStaysPrivate, StoredInOrder, NextNumber, store
<1> QED BY <1>3, <1>4, <1>5, <1>6, <1>7, <1>8 DEF IInv

\* What CommitTurn does to the numbering, whatever other requests did since the number was read
LEMMA CommitTurnAppends ==
  ASSUME IInv, NEW r \in Request, CommitTurn(r)
  PROVE  \E s \in Session, n \in Nat \ {0} :
           /\ s = sess[r] /\ n = num[r] /\ s \in present
           /\ Numbers(s) = 1..(n - 1) /\ LastNumber(s) = n - 1
           /\ TurnsOf(s)' = TurnsOf(s) \cup {[sess |-> s, num |-> n, req |-> r]}
           /\ Numbers(s)' = 1..n /\ LastNumber(s)' = n
           /\ \A x \in Session : x # s => TurnsOf(x)' = TurnsOf(x)
<1>1. PICK s \in Session, n \in Nat : s = sess[r] /\ n = num[r] /\ s \in present
  BY DEF IInv, TypeOK, CommitTurn, Insertable
<1> DEFINE row == [sess |-> s, num |-> n, req |-> r]
<1>2. pc[r] = "saving" /\ ~Taken(s, n) /\ turns' = turns \cup {row}
  BY <1>1 DEF CommitTurn, Insertable
<1>3. LastNumber(s) \in Nat /\ Numbers(s) = 1..LastNumber(s)
  BY LastIsNat DEF IInv
<1>4. n \in 1..(LastNumber(s) + 1)
  BY <1>1, <1>2 DEF IInv, ReadsStand, Pending
<1>5. n = LastNumber(s) + 1
  BY <1>2, <1>3, <1>4 DEF Taken
<1>6. /\ TurnsOf(s)' = TurnsOf(s) \cup {row}
      /\ \A x \in Session : x # s => TurnsOf(x)' = TurnsOf(x)
  BY <1>2 DEF TurnsOf
<1>7. Numbers(s)' = 1..n
  <2>1. Numbers(s)' = {t.num : t \in TurnsOf(s) \cup {row}}
    BY <1>6 DEF Numbers
  <2>2. row.num = n
    OBVIOUS
  <2>3. {t.num : t \in TurnsOf(s) \cup {row}} = {t.num : t \in TurnsOf(s)} \cup {n}
    BY <2>2
  <2>4. Numbers(s)' = Numbers(s) \cup {n}
    BY <2>1, <2>3 DEF Numbers
  <2> QED BY <1>3, <1>5, <2>4
<1>8. LastNumber(s)' = n
  <2>1. \A m \in Nat : (IF 1..m = {} THEN 0 ELSE Max(1..m)) = m
    BY MaxOfSegment
  <2>2. LastNumber(s)' = IF Numbers(s)' = {} THEN 0 ELSE Max(Numbers(s)')
    BY DEF LastNumber
  <2>3. LastNumber(s)' = IF 1..n = {} THEN 0 ELSE Max(1..n)
    BY <1>7, <2>2
  <2> QED BY <2>1, <2>3
<1>9. n \in Nat \ {0} /\ LastNumber(s) = n - 1 /\ Numbers(s) = 1..(n - 1)
  BY <1>3, <1>5
<1> QED BY <1>1, <1>6, <1>7, <1>8, <1>9

\* The one step that adds a turn: its number is the one after the last.
LEMMA CommitTurnStep ==
  ASSUME IInv, NEW r \in Request, CommitTurn(r)
  PROVE  IInv'
<1>1. PICK s \in Session, n \in Nat \ {0} :
           /\ s = sess[r] /\ n = num[r] /\ s \in present
           /\ Numbers(s) = 1..(n - 1) /\ LastNumber(s) = n - 1
           /\ TurnsOf(s)' = TurnsOf(s) \cup {[sess |-> s, num |-> n, req |-> r]}
           /\ Numbers(s)' = 1..n /\ LastNumber(s)' = n
           /\ \A x \in Session : x # s => TurnsOf(x)' = TurnsOf(x)
  BY CommitTurnAppends
<1> DEFINE row == [sess |-> s, num |-> n, req |-> r]
<1>2. /\ pc[r] = "saving" /\ ~Taken(s, n)
      /\ pc'[r] = "stored" /\ \A q \in Request : q # r => pc'[q] = pc[q]
      /\ turns' = turns \cup {row}
      /\ UNCHANGED <<present, issued, owner, queries, asker, sess, ctx, num, reported>>
  BY <1>1 DEF IInv, TypeOK, CommitTurn, Insertable
<1>3. s # NoSession
  BY SessionAssumption
<1>4. /\ ctx[r] \subseteq TurnsOf(s)
      /\ reported[r] \in 1..n /\ \A c \in ctx[r] : c.num < n
      /\ [sess |-> s, req |-> r] \in queries
  BY <1>1, <1>2 DEF IInv, ReadsStand, Pending, Unsaved
<1>5. \A x \in Session : x # s => Numbers(x)' = Numbers(x) /\ LastNumber(x)' = LastNumber(x)
  BY <1>1 DEF Numbers, LastNumber
<1>6. TypeOK'
  <2>1. row \in Turn
    BY DEF Turn
  <2>2. TitleOf(r) \in Title
    BY DEF TitleOf, Title
  <2> QED BY <1>1, <1>2, <2>1, <2>2 DEF IInv, CommitTurn, TypeOK, PC, edits
<1>7. Dense'
  <2>1. \A t \in TurnsOf(s) : t.num # n
    BY <1>2 DEF Taken, Numbers
  <2>2. \A t, u \in TurnsOf(s)' : t.num = u.num => t = u
    BY <1>1, <2>1 DEF IInv, Dense
  <2>3. ASSUME NEW x \in Session
        PROVE  /\ \E m \in Nat : Numbers(x)' = 1..m
               /\ \A t, u \in TurnsOf(x)' : t.num = u.num => t = u
    BY <1>1, <1>5, <2>2 DEF IInv, Dense
  <2> QED BY <2>3 DEF Dense
<1>8. NoOrphanRows' /\ TurnHasQuery'
  BY <1>1, <1>2, <1>4 DEF IInv, NoOrphanRows, TurnHasQuery
<1>9. Owned'
  BY <1>2 DEF IInv, Owned, Pending
<1>10. ReadsStand'
  <2>1. \A x \in Session : TurnsOf(x) \subseteq TurnsOf(x)'
    BY <1>1
  <2>2. \A x \in Session : /\ LastNumber(x) \in Nat /\ LastNumber(x)' \in Nat
                           /\ LastNumber(x) <= LastNumber(x)'
    <3>1. \A x \in Session : LastNumber(x) \in Nat
      BY LastIsNat DEF IInv
    <3> QED BY <1>1, <1>5, <3>1
  <2>3. ASSUME NEW q \in Request, NEW x \in Session, x = sess[q],
               x \in present, pc[q] \in Pending
        PROVE  num[q] \in 1..(LastNumber(x)' + 1)
    <3>1. num[q] \in 1..(LastNumber(x) + 1)
      BY <2>3 DEF IInv, ReadsStand
    <3> QED BY <2>2, <3>1
  <2>4. ASSUME NEW q \in Request, NEW x \in Session, x = sess[q], x \in present
        PROVE  /\ pc'[q] \in Pending \cup {"loaded"} => ctx[q] \subseteq TurnsOf(x)'
               /\ pc'[q] \in Pending => /\ num[q] \in 1..(LastNumber(x)' + 1)
                                        /\ reported[q] \in 1..num[q]
                                        /\ \A c \in ctx[q] : c.num < num[q]
               /\ pc'[q] \in Unsaved => [sess |-> x, req |-> q] \in queries
    <3>1. pc'[q] \in Pending \cup {"loaded"} => pc[q] = pc'[q]
      BY <1>2 DEF Pending
    <3> QED BY <2>1, <2>3, <2>4, <3>1 DEF IInv, ReadsStand, Pending, Unsaved
  <2>5. \A q \in Request : sess[q] \in present => sess[q] \in Session
    BY DEF IInv, TypeOK
  <2>6. \A q \in Request : sess'[q] = sess[q] /\ num'[q] = num[q] /\ ctx'[q] = ctx[q]
                          /\ reported'[q] = reported[q]
    BY <1>2
  <2>7. present' = present /\ queries' = queries
    BY <1>2
  <2> QED BY <2>4, <2>5, <2>6, <2>7 DEF ReadsStand, LastNumber, Numbers, TurnsOf
<1>11. RowsHaveRequest'
  BY <1>1, <1>2 DEF IInv, RowsHaveRequest, TypeOK, Turn
<1>12. HistoryStaysPrivate'
  <2>1. owner[row.sess] = asker[row.req]
    BY <1>1, <1>3 DEF IInv, Owned
  <2> QED BY <1>2, <2>1 DEF IInv, HistoryStaysPrivate
<1>13. StoredInOrder'
  <2>1. reported[r] <= n
    BY <1>4
  <2> QED BY <1>2, <1>4, <2>1 DEF IInv, StoredInOrder
<1> QED BY <1>6, <1>7, <1>8, <1>9, <1>10, <1>11, <1>12, <1>13 DEF IInv

\* A step that touches neither ids, owners nor rows, and no request
LEMMA RowsStay ==
  ASSUME IInv, TypeOK', UNCHANGED <<present, issued, owner, queries, turns, requests>>
  PROVE  IInv'
<1>1. \A x : TurnsOf(x)' = TurnsOf(x) /\ Numbers(x)' = Numbers(x)
  BY DEF TurnsOf, Numbers
<1>2. \A x : LastNumber(x)' = LastNumber(x)
  BY <1>1 DEF LastNumber
<1>3. Dense' /\ NoOrphanRows' /\ TurnHasQuery'
  BY <1>1 DEF IInv, Dense, NoOrphanRows, TurnHasQuery
<1>4. Owned' /\ ReadsStand'
  BY <1>1, <1>2 DEF IInv, Owned, ReadsStand, requests
<1>5. RowsHaveRequest' /\ HistoryStaysPrivate' /\ StoredInOrder'
  BY DEF IInv, RowsHaveRequest, HistoryStaysPrivate, StoredInOrder, requests
<1> QED BY <1>3, <1>4, <1>5 DEF IInv

\* Sessions leave, with all their rows
LEMMA SessionsLeave ==
  ASSUME IInv, TypeOK', NEW gone \in SUBSET Session,
         present' = present \ gone,
         turns' = {t \in turns : t.sess \notin gone},
         queries' = {x \in queries : x.sess \notin gone},
         UNCHANGED <<issued, owner, requests>>
  PROVE  IInv'
<1>1. \A x \in Session : x \in gone => TurnsOf(x)' = {} /\ Numbers(x)' = {}
  BY DEF TurnsOf, Numbers
<1>2. \A x \in Session : x \notin gone => TurnsOf(x)' = TurnsOf(x)
  BY DEF TurnsOf
<1>3. \A x \in Session : x \notin gone => Numbers(x)' = Numbers(x) /\ LastNumber(x)' = LastNumber(x)
  BY <1>2 DEF Numbers, LastNumber
<1>4. Dense'
  <2>1. {} = 1..0
    OBVIOUS
  <2>2. ASSUME NEW x \in Session
        PROVE  /\ \E n \in Nat : Numbers(x)' = 1..n
               /\ \A t, u \in TurnsOf(x)' : t.num = u.num => t = u
    <3>1. CASE x \in gone
      BY <1>1, <2>1, <3>1
    <3>2. CASE x \notin gone
      BY <1>2, <1>3, <3>2 DEF IInv, Dense
    <3> QED BY <3>1, <3>2
  <2> QED BY <2>2 DEF Dense
<1>5. NoOrphanRows' /\ TurnHasQuery'
  BY DEF IInv, NoOrphanRows, TurnHasQuery
<1>6. Owned'
  BY DEF IInv, Owned, requests
<1>7. ReadsStand'
  <2>1. ASSUME NEW q \in Request, NEW x \in Session, x = sess[q], x \in present', x \notin gone
        PROVE  /\ pc[q] \in Pending \cup {"loaded"} => ctx[q] \subseteq TurnsOf(x)'
               /\ pc[q] \in Pending => /\ num[q] \in 1..(LastNumber(x)' + 1)
                                       /\ reported[q] \in 1..num[q]
                                       /\ \A c \in ctx[q] : c.num < num[q]
               /\ pc[q] \in Unsaved => [sess |-> x, req |-> q] \in queries'
    BY <1>2, <1>3, <2>1 DEF IInv, ReadsStand
  <2>2. \A q \in Request : sess[q] \in present' => sess[q] \in Session /\ sess[q] \notin gone
    BY DEF IInv, TypeOK
  <2>3. pc' = pc /\ sess' = sess /\ ctx' = ctx /\ num' = num /\ reported' = reported
    BY DEF requests
  <2>4. ASSUME NEW q \in Request, sess[q] \in present'
        PROVE  /\ pc[q] \in Pending \cup {"loaded"} => ctx[q] \subseteq TurnsOf(sess[q])'
               /\ pc[q] \in Pending => /\ num[q] \in 1..(LastNumber(sess[q])' + 1)
                                       /\ reported[q] \in 1..num[q]
                                       /\ \A c \in ctx[q] : c.num < num[q]
               /\ pc[q] \in Unsaved => [sess |-> sess[q], req |-> q] \in queries'
    <3>1. PICK x \in Session : x = sess[q] /\ x \notin gone
      BY <2>2, <2>4
    <3>2. TurnsOf(sess[q])' = TurnsOf(x)'
      BY <2>3, <3>1 DEF TurnsOf
    <3>3. Numbers(sess[q])' = Numbers(x)'
      BY <3>2 DEF Numbers
    <3>4. LastNumber(sess[q])' = LastNumber(x)'
      BY <3>3 DEF LastNumber
    <3> QED BY <2>1, <2>4, <3>1, <3>2, <3>4
  <2> QED BY <2>3, <2>4 DEF ReadsStand
<1>8. RowsHaveRequest' /\ HistoryStaysPrivate' /\ StoredInOrder'
  BY DEF IInv, RowsHaveRequest, HistoryStaysPrivate, StoredInOrder, requests
<1> QED BY <1>4, <1>5, <1>6, <1>7, <1>8 DEF IInv

\* The session routes and the admin's clear
LEMMA EditStep ==
  ASSUME IInv, NEW e \in Edit, EditSession(e)
  PROVE  IInv'
<1>1. ASSUME NEW kind \in EditKind, NEW s \in Session \cup {NoSession},
             NEW seen \in SUBSET Query, Begin(e, kind, s, seen)
      PROVE  IInv'
  <2>1. TypeOK'
    BY <1>1 DEF IInv, Begin, TypeOK, store, requests
  <2> QED BY <1>1, <2>1, RowsStay DEF Begin, store
<1>2. ASSUME NEW u \in User, NEW s \in Session,
             BeginRename(e, u, s) \/ BeginSoftDelete(e, u, s) \/ BeginHardDelete(e, u, s)
      PROVE  IInv'
  <2>1. QueriesOf(s) \in SUBSET Query
    BY DEF IInv, TypeOK, QueriesOf
  <2> QED
    BY <1>1, <1>2, <2>1 DEF BeginRename, BeginSoftDelete, BeginHardDelete, EditKind
<1>3. CASE BeginClear(e)
  <2>1. queries \in SUBSET Query
    BY DEF IInv, TypeOK
  <2> QED BY <1>1, <1>3, <2>1 DEF BeginClear, EditKind
<1>4. CASE CommitRename(e)
  <2>1. TypeOK'
    <3>1. title' \in [Session -> Title]
      BY <1>4 DEF IInv, TypeOK, CommitRename, Title
    <3> QED BY <1>4, <3>1 DEF IInv, TypeOK, CommitRename, Finish, requests, EditKind
  <2> QED BY <1>4, <2>1, RowsStay DEF CommitRename, Finish
<1>5. CASE CommitSoftDelete(e)
  <2>1. TypeOK'
    <3>1. active' \in [Session -> BOOLEAN]
      BY <1>5 DEF IInv, TypeOK, CommitSoftDelete
    <3> QED BY <1>5, <3>1 DEF IInv, TypeOK, CommitSoftDelete, Finish, requests, EditKind
  <2> QED BY <1>5, <2>1, RowsStay DEF CommitSoftDelete, Finish
<1>6. CASE CommitHardDelete(e)
  <2>1. TypeOK'
    BY <1>6 DEF IInv, TypeOK, CommitHardDelete, Finish, requests, EditKind
  <2>2. CASE UNCHANGED <<present, queries, turns>>
    BY <1>6, <2>1, <2>2, RowsStay DEF CommitHardDelete, Finish
  <2>3. CASE /\ present' = present \ {editSess[e]}
             /\ queries' = queries \ QueriesOf(editSess[e])
             /\ turns' = turns \ TurnsOf(editSess[e])
    <3>1. PICK gone \in SUBSET Session : gone = {editSess[e]} \cap Session
      OBVIOUS
    <3>2. present' = present \ gone
      BY <2>3, <3>1 DEF IInv, TypeOK
    <3>3. turns' = {t \in turns : t.sess \notin gone}
      BY <2>3, <3>1 DEF IInv, TypeOK, Turn, TurnsOf
    <3>4. queries' = {x \in queries : x.sess \notin gone}
      BY <2>3, <3>1 DEF IInv, TypeOK, Query, QueriesOf
    <3> QED BY <1>6, <2>1, <3>2, <3>3, <3>4, SessionsLeave DEF CommitHardDelete, Finish
  <2> QED BY <1>6, <2>2, <2>3 DEF CommitHardDelete
<1>7. CASE CommitClear(e)
  <2>1. TypeOK'
    BY <1>7 DEF IInv, TypeOK, CommitClear, Finish, requests, EditKind
  <2>2. CASE UNCHANGED <<present, queries, turns>>
    BY <1>7, <2>1, <2>2, RowsStay DEF CommitClear, Finish
  <2>3. CASE present' = {} /\ queries' = {} /\ turns' = {}
    <3>1. /\ present' = present \ Session
          /\ turns' = {t \in turns : t.sess \notin Session}
          /\ queries' = {x \in queries : x.sess \notin Session}
      BY <2>3 DEF IInv, TypeOK, Turn, Query
    <3> QED BY <1>7, <2>1, <3>1, SessionsLeave DEF CommitClear, Finish
  <2> QED BY <1>7, <2>2, <2>3 DEF CommitClear
<1> QED BY <1>2, <1>3, <1>4, <1>5, <1>6, <1>7 DEF EditSession

\* The restart: requests under way end, the database stays
LEMMA CrashStep ==
  ASSUME IInv, Crash
  PROVE  IInv'
<1>1. TypeOK'
  BY DEF IInv, Crash, TypeOK, PC, Settled, store, EditKind
<1>2. \A q \in Request : \/ pc'[q] = pc[q]
                         \/ pc'[q] = "ended" /\ pc[q] # "stored"
  BY DEF Crash, Settled
<1>3. Dense' /\ NoOrphanRows' /\ TurnHasQuery'
  BY SameStore DEF IInv, Crash
<1>4. Owned'
  BY <1>2 DEF IInv, Owned, Crash, store, Pending
<1>5. ReadsStand'
  BY <1>2, SameStore DEF IInv, ReadsStand, Crash, store, Pending, Unsaved
<1>6. RowsHaveRequest'
  BY <1>2 DEF IInv, RowsHaveRequest, TypeOK, Turn, Crash, store
<1>7. HistoryStaysPrivate' /\ StoredInOrder'
  BY DEF IInv, HistoryStaysPrivate, StoredInOrder, Crash, store
<1> QED BY <1>1, <1>3, <1>4, <1>5, <1>6, <1>7 DEF IInv

-----------------------------------------------------------------------------
(* The invariant *)

LEMMA InitInvariant == Init => IInv
<1> SUFFICES ASSUME Init PROVE IInv
  OBVIOUS
<1>1. TypeOK
  BY InitType
<1>2. turns = {} /\ queries = {} /\ present = {}
      /\ \A r \in Request : pc[r] = "idle" /\ sess[r] = NoSession /\ ctx[r] = {}
  BY DEF Init
<1>3. Dense
  <2>1. {} = 1..0
    OBVIOUS
  <2> QED BY <1>2, <2>1 DEF Dense, TurnsOf, Numbers
<1>4. Owned /\ ReadsStand
  BY <1>2 DEF Owned, ReadsStand, Pending
<1>5. RowsHaveRequest /\ NoOrphanRows /\ TurnHasQuery /\ HistoryStaysPrivate /\ StoredInOrder
  BY <1>2 DEF RowsHaveRequest, NoOrphanRows, TurnHasQuery, HistoryStaysPrivate, StoredInOrder
<1> QED BY <1>1, <1>3, <1>4, <1>5 DEF IInv

LEMMA NextInvariant == IInv /\ [Next]_vars => IInv'
<1> SUFFICES ASSUME IInv, [Next]_vars PROVE IInv'
  OBVIOUS
<1>1. ASSUME NEW r \in Request, Prepare(r) PROVE IInv'
  BY <1>1, ResolveSessionStep, NewSessionStep, LoadContextStep, ChooseNumberStep, LoadFailsStep
  DEF Prepare
<1>2. ASSUME NEW r \in Request, Conclude(r) PROVE IInv'
  BY <1>2, MovesOn, SaveQueryStep DEF Conclude
<1>3. ASSUME NEW r \in Request, SaveConversationTurn(r) PROVE IInv'
  BY <1>3, MovesOn, CommitTurnStep, NextNumberStep DEF SaveConversationTurn
<1>4. CASE \E u \in User, s \in Session : CreateSession(u, s)
  BY <1>4, NewSessionStep
<1>5. CASE UNCHANGED vars
  <2>1. TypeOK'
    BY <1>5 DEF IInv, TypeOK, vars, store, requests, edits
  <2> QED BY <1>5, <2>1, RowsStay DEF vars, store
<1> QED BY <1>1, <1>2, <1>3, <1>4, <1>5, EditStep, CrashStep DEF Next

\* The inductive invariant holds in every state: requests, edits and crashes in any order.
THEOREM Invariance == Spec => []IInv
  BY InitInvariant, NextInvariant, PTL DEF Spec

\* Every variable keeps its type; in particular every row of table sessions has an id that the
\* sequence handed out, and a save makes at most two attempts (save_turn's loop).
THEOREM TypeCorrect == Spec => []TypeOK
<1>1. IInv => TypeOK
  BY DEF IInv
<1> QED BY <1>1, Invariance, PTL

\* The turns of a session are numbered 1..n without a hole and without a number used twice,
\* for any number of requests that race for a number (save_turn).
THEOREM DenseNumbering == Spec => []DenseTurnNumbers
<1>1. IInv => DenseTurnNumbers
  BY LastIsNat DEF IInv, Dense, DenseTurnNumbers
<1> QED BY <1>1, Invariance, PTL

\* A stored turn comes after every turn it was written from, and not before the place its
\* response reported (load_conversation, save_turn).
THEOREM TurnsStoredInOrder == Spec => []StoredInOrder
<1>1. IInv => StoredInOrder
  BY DEF IInv
<1> QED BY <1>1, Invariance, PTL

\* A stored turn has the query the chat is reloaded from (_persist before the background save).
THEOREM TurnsHaveQueries == Spec => []TurnHasQuery
<1>1. IInv => TurnHasQuery
  BY DEF IInv
<1> QED BY <1>1, Invariance, PTL

\* No row outlives its session, whatever delete_session_ and clear_all_data raced with.
THEOREM NoOrphans == Spec => []NoOrphanRows
<1>1. IInv => NoOrphanRows
  BY DEF IInv
<1> QED BY <1>1, Invariance, PTL

\* Nobody is shown, or answered into, a session of somebody else, although the ownership
\* is checked once, before the run (_resolve_session).
THEOREM HistoryIsPrivate == Spec => []HistoryStaysPrivate
<1>1. IInv => HistoryStaysPrivate
  BY DEF IInv
<1> QED BY <1>1, Invariance, PTL

-----------------------------------------------------------------------------
(* What a step may not do *)

\* The actions that write turns are CommitTurn, which adds one, and the deletions.
LEMMA TurnsWrites ==
  ASSUME IInv, [Next]_vars
  PROVE  \/ turns' = turns
         \/ \E r \in Request : CommitTurn(r)
         \/ \E e \in Edit : CommitHardDelete(e) \/ CommitClear(e)
<1>1. ASSUME NEW r \in Request, Prepare(r) PROVE turns' = turns
  BY <1>1 DEF Prepare, ResolveSession, ResolveNewSession, AddSession, LoadContext,
              ChooseNumber, LoadFails, store
<1>2. ASSUME NEW r \in Request, Conclude(r) PROVE turns' = turns
  BY <1>2 DEF Conclude, RunAnswers, RunEndsWithoutAnswer, SaveQuery, Respond, Disconnect, store
<1>3. ASSUME NEW r \in Request, SaveConversationTurn(r)
      PROVE  turns' = turns \/ CommitTurn(r)
  BY <1>3 DEF SaveConversationTurn, BeginSave, RejectTurn, NextNumber, SaveFails, store
<1>4. ASSUME NEW u \in User, NEW s \in Session, CreateSession(u, s) PROVE turns' = turns
  BY <1>4 DEF CreateSession, AddSession
<1>5. ASSUME NEW e \in Edit, EditSession(e)
      PROVE  turns' = turns \/ CommitHardDelete(e) \/ CommitClear(e)
  BY <1>5 DEF EditSession, BeginRename, BeginSoftDelete, BeginHardDelete, BeginClear, Begin,
              CommitRename, CommitSoftDelete, store
<1>6. CASE Crash
  BY <1>6 DEF Crash, store
<1>7. CASE UNCHANGED vars
  BY <1>7 DEF vars, store
<1> QED BY <1>1, <1>2, <1>3, <1>4, <1>5, <1>6, <1>7 DEF Next

\* A turn leaves only with its session.
LEMMA TurnsKept ==
  ASSUME IInv, [Next]_vars
  PROVE  \A t \in turns : t \in turns' \/ t.sess \notin present'
<1> DEFINE Kept == \A t \in turns : t \in turns' \/ t.sess \notin present'
<1>1. CASE turns' = turns
  BY <1>1
<1>2. ASSUME NEW r \in Request, CommitTurn(r) PROVE Kept
  BY <1>2 DEF CommitTurn
<1>3. ASSUME NEW e \in Edit, CommitHardDelete(e) PROVE Kept
  BY <1>3 DEF CommitHardDelete, TurnsOf
<1>4. ASSUME NEW e \in Edit, CommitClear(e) PROVE Kept
  BY <1>4 DEF CommitClear
<1> QED BY <1>1, <1>2, <1>3, <1>4, TurnsWrites

\* A turn is never rewritten and never dropped while its session exists: the store is
\* append-only but for whole sessions.
THEOREM TurnsAreKept == Spec => TurnsOnlyLeaveWithSession
<1> DEFINE Kept == \A t \in turns : t \in turns' \/ t.sess \notin present'
<1>1. IInv /\ [Next]_vars => [Kept]_vars
  BY TurnsKept
<1> QED BY <1>1, Invariance, PTL DEF Spec, TurnsOnlyLeaveWithSession


\* The title a save writes comes with turn 1: CommitTurn is the only step that gives an
\* existing session the title of a question, and it does so only with the first turn.
THEOREM AutoTitleOnce == Spec => AutoTitleComesWithFirstTurn
<1> DEFINE Titled == \A s \in Session :
                       (s \in present /\ title[s] # "question" /\ title'[s] = "question") =>
                         Numbers(s) = {} /\ Numbers(s)' = {1}
<1>1. ASSUME IInv, [Next]_vars
      PROVE  Titled
  <2>1. ASSUME title' = title PROVE Titled
    BY <2>1
  <2>2. ASSUME NEW s \in Session, NEW u \in User, NEW t \in Title, AddSession(s, u, t)
        PROVE  Titled
    BY <1>1, <2>2 DEF IInv, TypeOK, AddSession
  <2>3. ASSUME NEW r \in Request, Prepare(r) PROVE Titled
    <3>1. asker[r] \in User /\ TitleOf(r) \in Title
      BY <1>1 DEF IInv, TypeOK, TitleOf, Title
    <3> QED
      BY <2>1, <2>2, <2>3, <3>1 DEF Prepare, ResolveSession, ResolveNewSession,
           LoadContext, ChooseNumber, LoadFails, store
  <2>4. ASSUME NEW u \in User, NEW s \in Session, CreateSession(u, s) PROVE Titled
    BY <2>2, <2>4 DEF CreateSession, Title
  <2>5. ASSUME NEW r \in Request, Conclude(r) PROVE Titled
    BY <2>1, <2>5 DEF Conclude, RunAnswers, RunEndsWithoutAnswer, SaveQuery, Respond,
                      Disconnect, store
  <2>6. ASSUME NEW r \in Request, CommitTurn(r) PROVE Titled
    <3>1. PICK s \in Session, n \in Nat \ {0} :
               s = sess[r] /\ n = num[r] /\ Numbers(s) = 1..(n - 1) /\ Numbers(s)' = 1..n
      BY <1>1, <2>6, CommitTurnAppends
    <3>2. title' = [title EXCEPT ![s] =
                     IF n = 1 /\ titleSeen[r] = "default" THEN TitleOf(r) ELSE @]
      BY <2>6, <3>1 DEF CommitTurn
    <3>3. \A x \in Session : title'[x] # title[x] => x = s /\ n = 1
      BY <1>1, <3>2 DEF IInv, TypeOK
    <3>4. n = 1 => Numbers(s) = {} /\ Numbers(s)' = {1}
      BY <3>1
    <3> QED BY <3>3, <3>4
  <2>7. ASSUME NEW r \in Request, SaveConversationTurn(r) PROVE Titled
    BY <2>1, <2>6, <2>7 DEF SaveConversationTurn, BeginSave, RejectTurn, NextNumber,
                            SaveFails, store
  <2>8. ASSUME NEW e \in Edit, CommitRename(e) PROVE Titled
    <3>1. \A x \in Session : title'[x] = title[x] \/ title'[x] \in {"custom", "default"}
      BY <1>1, <2>8 DEF IInv, TypeOK, CommitRename
    <3> QED BY <3>1
  <2>9. ASSUME NEW e \in Edit, EditSession(e) PROVE Titled
    BY <2>1, <2>8, <2>9 DEF EditSession, BeginRename, BeginSoftDelete, BeginHardDelete,
         BeginClear, Begin, CommitSoftDelete, CommitHardDelete, CommitClear, store
  <2>10. CASE Crash
    BY <2>1, <2>10 DEF Crash, store
  <2>11. CASE UNCHANGED vars
    BY <2>1, <2>11 DEF vars, store
  <2> QED BY <1>1, <2>3, <2>4, <2>5, <2>7, <2>9, <2>10, <2>11 DEF Next
<1>2. IInv /\ [Next]_vars => [Titled]_vars
  BY <1>1
<1> QED BY <1>2, Invariance, PTL DEF Spec, AutoTitleComesWithFirstTurn

-----------------------------------------------------------------------------
(* A turn is given up only to two other requests *)

\* A request stores one turn.
OneTurn == \A t, u \in turns : t.req = u.req => t = u

\* The requests whose save has not begun
Early == {"idle", "resolved", "loaded", "running", "answered", "queried", "responded"}

\* The number request r was told, and a first attempt asks for, went to another turn.
FirstLost(r) == \E t \in TurnsOf(sess[r]) : t.num = reported[r] /\ t.num < num[r]

\* What request r knows of its session when its save goes wrong: the row it missed stays away; a
\* first attempt asks for the number the response reported, and loses it to a turn that is there;
\* a second one asks for a number above that turn.
Retries(r) ==
  /\ pc[r] \in Early \cup {"conflict"} => attempt[r] = 1
  /\ attempt[r] = 1 => num[r] = reported[r]
  /\ pc[r] = "renumbered" => attempt[r] = 2
  /\ pc[r] = "lost" => sess[r] \in issued /\ sess[r] \in Session
  /\ pc[r] = "saving" /\ titleSeen[r] = "missing" => sess[r] \notin present
  /\ pc[r] = "conflict" /\ sess[r] \in present => Taken(sess[r], num[r])
  /\ pc[r] \in {"renumbered", "saving"} /\ attempt[r] = 2 /\ sess[r] \in present => FirstLost(r)
  /\ pc[r] = "lost" /\ sess[r] \in present => FirstLost(r) /\ Taken(sess[r], num[r])

AtMostTwo == \A p, q, r \in Request : p = q \/ q = r \/ p = r

\* Sessions come with new ids.
LEMMA IdsAreNew ==
  ASSUME IInv, [Next]_vars
  PROVE  issued \subseteq issued' /\ \A s \in issued : s \in present' => s \in present
<1>1. ASSUME NEW s \in Session, NEW u \in User, NEW t \in Title, AddSession(s, u, t)
      PROVE  issued \subseteq issued' /\ \A x \in issued : x \in present' => x \in present
  BY <1>1 DEF AddSession
<1>2. ASSUME NEW r \in Request, Prepare(r)
      PROVE  issued \subseteq issued' /\ \A x \in issued : x \in present' => x \in present
  <2>1. asker[r] \in User /\ TitleOf(r) \in Title
    BY DEF IInv, TypeOK, TitleOf, Title
  <2> QED
    BY <1>1, <1>2, <2>1 DEF Prepare, ResolveSession, ResolveNewSession, LoadContext, ChooseNumber,
                           LoadFails, store
<1>3. ASSUME NEW r \in Request, Conclude(r) \/ SaveConversationTurn(r)
      PROVE  issued' = issued /\ present' = present
  BY <1>3 DEF Conclude, RunAnswers, RunEndsWithoutAnswer, SaveQuery, Respond, Disconnect,
             SaveConversationTurn, BeginSave, CommitTurn, RejectTurn, NextNumber, SaveFails, store
<1>4. ASSUME NEW u \in User, NEW s \in Session, CreateSession(u, s)
      PROVE  issued \subseteq issued' /\ \A x \in issued : x \in present' => x \in present
  BY <1>1, <1>4 DEF CreateSession, Title
<1>5. ASSUME NEW e \in Edit, EditSession(e)
      PROVE  issued' = issued /\ present' \subseteq present
  BY <1>5 DEF EditSession, BeginRename, BeginSoftDelete, BeginHardDelete, BeginClear, Begin,
             CommitRename, CommitSoftDelete, CommitHardDelete, CommitClear, store
<1>6. CASE Crash \/ UNCHANGED vars
  BY <1>6 DEF Crash, vars, store
<1> QED
  BY <1>2, <1>3, <1>4, <1>5, <1>6 DEF Next

\* Outside its save a request touches nothing that Retries speaks of.
LEMMA OwnSave ==
  ASSUME IInv, [Next]_vars, NEW r \in Request
  PROVE  \/ BeginSave(r) \/ RejectTurn(r) \/ NextNumber(r)
         \/ /\ pc'[r] \in {"stored", "ended"} \/ (pc[r] \in Early \ {"responded"} /\ pc'[r] \in Early)
            /\ attempt'[r] = attempt[r]
            /\ (num'[r] = num[r] /\ reported'[r] = reported[r]) \/ num'[r] = reported'[r]
         \/ /\ pc'[r] = pc[r] /\ sess'[r] = sess[r] /\ num'[r] = num[r]
            /\ titleSeen'[r] = titleSeen[r] /\ attempt'[r] = attempt[r]
            /\ reported'[r] = reported[r]
<1> DEFINE Still == /\ pc'[r] = pc[r] /\ sess'[r] = sess[r] /\ num'[r] = num[r]
                    /\ titleSeen'[r] = titleSeen[r] /\ attempt'[r] = attempt[r]
                    /\ reported'[r] = reported[r]
           Elsewhere ==
             /\ pc'[r] \in {"stored", "ended"} \/ (pc[r] \in Early \ {"responded"} /\ pc'[r] \in Early)
             /\ attempt'[r] = attempt[r]
             /\ (num'[r] = num[r] /\ reported'[r] = reported[r]) \/ num'[r] = reported'[r]
<1>0. /\ pc \in [Request -> PC] /\ sess \in [Request -> Session \cup {NoSession}]
      /\ num \in [Request -> Nat] /\ titleSeen \in [Request -> Title \cup {"missing"}]
      /\ attempt \in [Request -> {1, 2}] /\ reported \in [Request -> Nat]
  BY DEF IInv, TypeOK
<1>1. ASSUME NEW q \in Request, Prepare(q) PROVE Still \/ Elsewhere
  <2>1. CASE q = r
    BY <1>0, <1>1, <2>1 DEF Prepare, ResolveSession, ResolveNewSession, LoadContext, ChooseNumber, LoadFails, Early
  <2>2. CASE q # r
    BY <1>0, <1>1, <2>2 DEF Prepare, ResolveSession, ResolveNewSession, LoadContext, ChooseNumber, LoadFails, Early
  <2> QED BY <2>1, <2>2
<1>2. ASSUME NEW q \in Request, Conclude(q) PROVE Still \/ Elsewhere
  <2>1. CASE q = r
    BY <1>0, <1>2, <2>1 DEF Conclude, RunAnswers, RunEndsWithoutAnswer, SaveQuery, Respond, Disconnect, Early
  <2>2. CASE q # r
    BY <1>0, <1>2, <2>2 DEF Conclude, RunAnswers, RunEndsWithoutAnswer, SaveQuery, Respond, Disconnect, Early
  <2> QED BY <2>1, <2>2
<1>3. ASSUME NEW q \in Request, SaveConversationTurn(q)
      PROVE  Still \/ Elsewhere \/ BeginSave(r) \/ RejectTurn(r) \/ NextNumber(r)
  <2>1. CASE q = r
    BY <1>0, <1>3, <2>1 DEF SaveConversationTurn, CommitTurn, SaveFails
  <2>2. CASE q # r
    BY <1>0, <1>3, <2>2 DEF SaveConversationTurn, BeginSave, CommitTurn, RejectTurn, NextNumber, SaveFails
  <2> QED BY <2>1, <2>2
<1>4. CASE \E u \in User, s \in Session : CreateSession(u, s)
  BY <1>4 DEF CreateSession, requests
<1>5. ASSUME NEW e \in Edit, EditSession(e) PROVE Still
  BY <1>5 DEF EditSession, BeginRename, BeginSoftDelete, BeginHardDelete, BeginClear, Begin,
             CommitRename, CommitSoftDelete, CommitHardDelete, CommitClear, Finish, requests
<1>6. CASE Crash
  <2>1. pc'[r] = pc[r] \/ pc'[r] = "ended"
    BY <1>6 DEF Crash
  <2> QED BY <1>6, <2>1 DEF Crash
<1>7. CASE UNCHANGED vars
  BY <1>7 DEF vars, requests
<1> QED BY <1>1, <1>2, <1>3, <1>4, <1>5, <1>6, <1>7 DEF Next

\* A request whose turn is not stored has none.
LEMMA OneTurnStep ==
  ASSUME IInv, OneTurn, [Next]_vars
  PROVE  OneTurn'
<1>1. CASE turns' = turns
  BY <1>1 DEF OneTurn
<1>2. ASSUME NEW r \in Request, CommitTurn(r) PROVE OneTurn'
  <2>1. \A t \in turns : t.req # r
    BY <1>2 DEF IInv, RowsHaveRequest, CommitTurn
  <2> QED BY <1>2, <2>1 DEF CommitTurn, OneTurn
<1>3. ASSUME NEW e \in Edit, CommitHardDelete(e) \/ CommitClear(e) PROVE OneTurn'
  BY <1>3 DEF OneTurn, CommitHardDelete, CommitClear, TurnsOf
<1> QED BY <1>1, <1>2, <1>3, TurnsWrites

\* A step of its save keeps what a request knows, and so do the steps of all others.
LEMMA RetriesStep ==
  ASSUME IInv, [Next]_vars, NEW r \in Request, Retries(r)
  PROVE  Retries(r)'
<1>0. /\ pc \in [Request -> PC] /\ sess \in [Request -> Session \cup {NoSession}]
      /\ num \in [Request -> Nat] /\ titleSeen \in [Request -> Title \cup {"missing"}]
      /\ attempt \in [Request -> {1, 2}] /\ present \subseteq issued /\ title \in [Session -> Title]
      /\ reported \in [Request -> Nat]
  BY DEF IInv, TypeOK
<1>1. pc[r] \in {"responded", "saving", "conflict", "renumbered"} => sess[r] \in issued /\ sess[r] \in Session
  BY <1>0 DEF IInv, Owned, Pending, TypeOK
<1>2. CASE BeginSave(r)
  <2>1. /\ pc[r] \in {"responded", "renumbered"} /\ pc'[r] = "saving" /\ sess' = sess /\ num' = num
        /\ attempt' = attempt /\ reported' = reported
        /\ present' = present /\ turns' = turns /\ issued' = issued
        /\ titleSeen'[r] = IF sess[r] \in present THEN title[sess[r]] ELSE "missing"
    BY <1>0, <1>2 DEF BeginSave, store
  <2>2. titleSeen'[r] = "missing" => sess[r] \notin present
    BY <1>0, <1>1, <2>1 DEF Title
  <2>3. CASE pc[r] = "renumbered"
    BY <2>1, <2>2, <2>3 DEF Retries, FirstLost, TurnsOf, Early
  <2>4. CASE pc[r] = "responded"
    <3>1. attempt[r] = 1
      BY <2>4 DEF Retries, Early
    <3> QED BY <2>1, <2>2, <3>1 DEF Retries, Early
  <2> QED BY <2>1, <2>3, <2>4
<1>3. CASE RejectTurn(r)
  <2>1. /\ pc[r] = "saving" /\ ~Insertable(r) /\ sess' = sess /\ num' = num /\ attempt' = attempt
        /\ titleSeen' = titleSeen /\ reported' = reported
        /\ present' = present /\ turns' = turns /\ issued' = issued
        /\ pc'[r] = IF attempt[r] = 1 /\ (titleSeen[r] = "missing" \/ sess[r] \in present)
                    THEN "conflict" ELSE "lost"
    BY <1>0, <1>3 DEF RejectTurn, store
  <2>2. sess[r] \in present => Taken(sess[r], num[r])
    BY <2>1 DEF Retries, Insertable
  <2>3. CASE attempt[r] = 1 /\ (titleSeen[r] = "missing" \/ sess[r] \in present)
    BY <2>1, <2>2, <2>3 DEF Retries, Taken, Numbers, TurnsOf, Early
  <2>4. CASE ~(attempt[r] = 1 /\ (titleSeen[r] = "missing" \/ sess[r] \in present))
    <3>1. sess[r] \in present => FirstLost(r)
      BY <1>0, <2>1, <2>4 DEF Retries
    <3> QED BY <1>1, <2>1, <2>2, <2>4, <3>1 DEF Retries, FirstLost, Taken, Numbers, TurnsOf, Early
  <2> QED BY <2>3, <2>4
<1>4. CASE NextNumber(r)
  <2>1. /\ pc[r] = "conflict" /\ pc'[r] = "renumbered" /\ num'[r] = LastNumber(sess[r]) + 1
        /\ attempt'[r] = 2 /\ reported' = reported
        /\ sess' = sess /\ present' = present /\ turns' = turns
    BY <1>0, <1>4 DEF NextNumber, store
  <2>2. ASSUME sess[r] \in present PROVE FirstLost(r)'
    <3>1. num[r] = reported[r] /\ Taken(sess[r], num[r])
      BY <2>1, <2>2 DEF Retries
    <3>2. PICK t \in TurnsOf(sess[r]) : t.num = reported[r]
      BY <3>1 DEF Taken, Numbers
    <3>3. t.num \in Numbers(sess[r])
      BY <3>2 DEF Numbers
    <3>4. LastNumber(sess[r]) \in Nat /\ Numbers(sess[r]) = 1..LastNumber(sess[r])
      BY <1>1, <2>1, LastIsNat DEF IInv
    <3>5. t.num < num'[r]
      BY <2>1, <3>3, <3>4
    <3> QED BY <2>1, <3>2, <3>5 DEF FirstLost, TurnsOf
  <2> QED BY <2>1, <2>2 DEF Retries, Early
<1>5. CASE /\ pc'[r] \in {"stored", "ended"} \/ (pc[r] \in Early \ {"responded"} /\ pc'[r] \in Early)
           /\ attempt'[r] = attempt[r]
           /\ (num'[r] = num[r] /\ reported'[r] = reported[r]) \/ num'[r] = reported'[r]
  BY <1>5 DEF Retries, Early
<1>6. CASE /\ pc'[r] = pc[r] /\ sess'[r] = sess[r] /\ num'[r] = num[r]
           /\ titleSeen'[r] = titleSeen[r] /\ attempt'[r] = attempt[r]
           /\ reported'[r] = reported[r]
  <2>1. pc[r] \in {"saving", "conflict", "renumbered", "lost"} => sess[r] \in issued /\ sess[r] \in Session
    BY <1>1 DEF Retries
  <2>2. ASSUME NEW s \in issued
        PROVE  s \in issued' /\ (s \in present' => s \in present)
    BY IdsAreNew
  <2>3. ASSUME NEW s \in present'
        PROVE  \A t \in turns : t.sess = s => t \in turns'
    BY TurnsKept
  <2>4. pc'[r] = "lost" => sess'[r] \in issued' /\ sess'[r] \in Session
    BY <1>6, <2>1, <2>2
  <2>5. pc'[r] = "saving" /\ titleSeen'[r] = "missing" => sess'[r] \notin present'
    BY <1>6, <2>1, <2>2 DEF Retries
  <2>6. sess'[r] \in present' /\ Taken(sess[r], num[r]) => Taken(sess[r], num[r])'
    BY <1>6, <2>3 DEF Taken, Numbers, TurnsOf
  <2>7. sess'[r] \in present' /\ FirstLost(r) => FirstLost(r)'
    BY <1>6, <2>3 DEF FirstLost, TurnsOf
  <2>8. pc[r] \in {"saving", "conflict", "renumbered", "lost"} /\ sess'[r] \in present'
        => sess[r] \in present
    BY <1>6, <2>1, <2>2
  <2> QED BY <1>6, <2>4, <2>5, <2>6, <2>7, <2>8 DEF Retries
<1>7. \/ BeginSave(r) \/ RejectTurn(r) \/ NextNumber(r)
      \/ /\ pc'[r] \in {"stored", "ended"} \/ (pc[r] \in Early \ {"responded"} /\ pc'[r] \in Early)
         /\ attempt'[r] = attempt[r]
         /\ (num'[r] = num[r] /\ reported'[r] = reported[r]) \/ num'[r] = reported'[r]
      \/ /\ pc'[r] = pc[r] /\ sess'[r] = sess[r] /\ num'[r] = num[r]
         /\ titleSeen'[r] = titleSeen[r] /\ attempt'[r] = attempt[r]
         /\ reported'[r] = reported[r]
  BY OwnSave
<1> QED BY <1>2, <1>3, <1>4, <1>5, <1>6, <1>7

\* What every save knows is invariant.
LEMMA SavesKnow == Spec => [](IInv /\ OneTurn /\ \A r \in Request : Retries(r))
<1> DEFINE RInv == OneTurn /\ \A r \in Request : Retries(r)
<1>1. Init => RInv
  BY DEF Init, OneTurn, Retries, Early
<1>2. RInv /\ IInv /\ [Next]_vars => RInv'
  BY OneTurnStep, RetriesStep
<1> HIDE DEF RInv
<1>3. Spec => [](IInv /\ RInv)
  BY <1>1, <1>2, Invariance, PTL DEF Spec
<1> QED BY <1>3 DEF RInv

\* The turns that have the two numbers are of two requests, and the first number is the smaller.
LEMMA TwoOthers ==
  ASSUME IInv, OneTurn, NEW r \in Request, Retries(r), pc[r] = "lost", sess[r] \in present
  PROVE  \E t, u \in TurnsOf(sess[r]) :
           /\ t.req # u.req
           /\ t.num = reported[r] /\ u.num = num[r] /\ t.num < u.num
           /\ r \notin {t.req, u.req} /\ {t.req, u.req} \subseteq Request
<1>1. PICK t \in TurnsOf(sess[r]) : t.num = reported[r] /\ t.num < num[r]
  BY DEF Retries, FirstLost
<1>2. PICK u \in TurnsOf(sess[r]) : u.num = num[r]
  BY DEF Retries, Taken, Numbers
<1>3. t \in turns /\ u \in turns /\ t.num \in Nat /\ t.req \in Request /\ u.req \in Request
  BY <1>1, <1>2 DEF TurnsOf, IInv, TypeOK, Turn
<1>4. t.req # u.req
  BY <1>1, <1>2, <1>3 DEF OneTurn
<1>5. r \notin {t.req, u.req}
  BY <1>3 DEF IInv, RowsHaveRequest
<1> QED BY <1>1, <1>2, <1>3, <1>4, <1>5

\* A turn whose response was sent is given up in a session that is still there only when two other
\* requests have the two numbers it asked for, whatever else races, fails or is edited (save_turn).
THEOREM LostOnlyToTwoOthers == Spec => []LostToTwoOthers
<1>1. (IInv /\ OneTurn /\ \A r \in Request : Retries(r)) => LostToTwoOthers
  BY TwoOthers DEF LostToTwoOthers
<1> QED BY <1>1, SavesKnow, PTL

\* A turn whose response was sent is given up only if its session is gone - as long as there are
\* no more than two requests.  With three the single retry of save_turn is not enough.
THEOREM OneRetryIsEnoughForTwo == AtMostTwo => (Spec => []LostOnlyWithSession)
<1> SUFFICES ASSUME AtMostTwo
             PROVE  Spec => []LostOnlyWithSession
  OBVIOUS
<1>1. (IInv /\ OneTurn /\ \A r \in Request : Retries(r)) => LostOnlyWithSession
  BY TwoOthers DEF LostOnlyWithSession, AtMostTwo
<1> QED BY <1>1, SavesKnow, PTL

-----------------------------------------------------------------------------
(* A save is finite *)

\* The steps a save has left at most
StepsLeft(r) ==
  CASE pc[r] = "responded"  -> 6
    [] pc[r] = "saving"     -> IF attempt[r] = 1 THEN 5 ELSE 2
    [] pc[r] = "conflict"   -> 4
    [] pc[r] = "renumbered" -> 3
    [] OTHER                -> 0

\* A step either leaves a pending save where it is or brings it nearer to its end, however many
\* other requests take the numbers it wants: the retry of save_turn cannot go round.
SaveAdvances ==
  [][\A r \in Request : pc[r] \in {"responded", "saving", "conflict", "renumbered"} =>
       \/ pc'[r] = pc[r] /\ attempt'[r] = attempt[r]
       \/ StepsLeft(r)' < StepsLeft(r)]_vars

\* After its response a request takes at most six more steps, each of its own (save_turn).
THEOREM SavesAreFinite == Spec => SaveAdvances
<1>1. ASSUME IInv, \A r \in Request : Retries(r), [Next]_vars, NEW r \in Request,
             pc[r] \in {"responded", "saving", "conflict", "renumbered"}
      PROVE  \/ pc'[r] = pc[r] /\ attempt'[r] = attempt[r]
             \/ StepsLeft(r)' < StepsLeft(r)
  <2>0. pc \in [Request -> PC] /\ attempt \in [Request -> {1, 2}]
    BY <1>1 DEF IInv, TypeOK
  <2>1. CASE BeginSave(r)
    <3>1. pc'[r] = "saving" /\ attempt' = attempt /\ pc[r] \in {"responded", "renumbered"}
      BY <2>0, <2>1 DEF BeginSave
    <3>2. pc[r] = "responded" => attempt[r] = 1
      BY <1>1 DEF Retries, Early
    <3>3. pc[r] = "renumbered" => attempt[r] = 2
      BY <1>1 DEF Retries
    <3> QED BY <3>1, <3>2, <3>3 DEF StepsLeft
  <2>2. CASE RejectTurn(r)
    BY <2>0, <2>2 DEF RejectTurn, StepsLeft
  <2>3. CASE NextNumber(r)
    BY <2>0, <2>3 DEF NextNumber, StepsLeft
  <2>4. CASE pc'[r] \in {"stored", "ended"}
    BY <1>1, <2>0, <2>4 DEF StepsLeft
  <2>5. CASE pc[r] \in Early \ {"responded"}
    BY <1>1, <2>5 DEF Early
  <2> QED BY <1>1, <2>1, <2>2, <2>3, <2>4, <2>5, OwnSave
<1>2. (IInv /\ OneTurn /\ \A r \in Request : Retries(r)) /\ [Next]_vars =>
        \A r \in Request : pc[r] \in {"responded", "saving", "conflict", "renumbered"} =>
          \/ pc'[r] = pc[r] /\ attempt'[r] = attempt[r]
          \/ StepsLeft(r)' < StepsLeft(r)
  BY <1>1
<1> QED BY <1>2, SavesKnow, PTL DEF Spec, SaveAdvances

-----------------------------------------------------------------------------
(* ConversationStore implements TurnLog *)

\* The log of a session, as the refinement reads it off the rows
Entry(s, n) == (CHOOSE t \in TurnsOf(s) : t.num = n).req
LogOf(s)    == [n \in 1..LastNumber(s) |-> Entry(s, n)]
Stored      == {r \in Request : pc[r] = "stored"}

LEMMA LogIsSeq ==
  ASSUME IInv, NEW s \in Session
  PROVE  LogOf(s) \in Seq(Request) /\ Len(LogOf(s)) = LastNumber(s)
<1>1. LastNumber(s) \in Nat /\ Numbers(s) = 1..LastNumber(s)
  BY LastIsNat DEF IInv
<1>2. \A n \in 1..LastNumber(s) : Entry(s, n) \in Request
  <2>1. ASSUME NEW n \in 1..LastNumber(s) PROVE Entry(s, n) \in Request
    <3>1. \E t \in TurnsOf(s) : t.num = n
      BY <1>1 DEF Numbers
    <3>2. (CHOOSE t \in TurnsOf(s) : t.num = n) \in turns
      BY <3>1 DEF TurnsOf
    <3> QED BY <3>2 DEF IInv, TypeOK, Turn, Entry
  <2> QED BY <2>1
<1> QED BY <1>1, <1>2 DEF LogOf

LEMMA InitLog == Init => Log!Init
<1> SUFFICES ASSUME Init PROVE Log!Init
  OBVIOUS
<1>1. \A s \in Session : TurnsOf(s) = {} /\ Numbers(s) = {} /\ LastNumber(s) = 0
  BY DEF Init, TurnsOf, Numbers, LastNumber
<1>2. \A s \in Session : LogOf(s) = <<>>
  BY <1>1 DEF LogOf
<1>3. Stored = {}
  BY DEF Init, Stored
<1> QED BY <1>2, <1>3 DEF Log!Init, LogOf, Entry, Stored

\* Only CommitTurn makes a request stored, and nothing unmakes it.
LEMMA StoredWrites ==
  ASSUME IInv, [Next]_vars
  PROVE  Stored' = Stored \/ \E r \in Request : CommitTurn(r)
<1>1. SUFFICES ASSUME ~\E r \in Request : CommitTurn(r)
               PROVE  \A q \in Request : pc'[q] = "stored" <=> pc[q] = "stored"
  BY DEF Stored
<1>2. pc \in [Request -> PC]
  BY DEF IInv, TypeOK
<1> DEFINE Same == \A q \in Request : pc'[q] = "stored" <=> pc[q] = "stored"
<1>3. ASSUME NEW r \in Request, Prepare(r) PROVE Same
  BY <1>2, <1>3 DEF Prepare, ResolveSession, ResolveNewSession, LoadContext, ChooseNumber, LoadFails
<1>4. ASSUME NEW r \in Request, Conclude(r) PROVE Same
  BY <1>2, <1>4 DEF Conclude, RunAnswers, RunEndsWithoutAnswer, SaveQuery, Respond, Disconnect
<1>5. ASSUME NEW r \in Request, SaveConversationTurn(r) PROVE Same
  <2>1. CASE RejectTurn(r)
    <3>1. PICK p \in {"conflict", "lost"} : pc' = [pc EXCEPT ![r] = p]
      BY <2>1 DEF RejectTurn
    <3> QED BY <1>2, <2>1, <3>1 DEF RejectTurn
  <2> QED BY <1>1, <1>2, <1>5, <2>1 DEF SaveConversationTurn, BeginSave, NextNumber, SaveFails
<1>6. CASE \E u \in User, s \in Session : CreateSession(u, s)
  BY <1>6 DEF CreateSession, requests
<1>7. ASSUME NEW e \in Edit, EditSession(e) PROVE Same
  BY <1>7 DEF EditSession, BeginRename, BeginSoftDelete, BeginHardDelete, BeginClear, Begin,
              CommitRename, CommitSoftDelete, CommitHardDelete, CommitClear, Finish, requests
<1>8. CASE Crash
  BY <1>8 DEF Crash, Settled
<1>9. CASE UNCHANGED vars
  BY <1>9 DEF vars, requests
<1> QED BY <1>3, <1>4, <1>5, <1>6, <1>7, <1>8, <1>9 DEF Next

\* The log of a session whose turns are the same is the same.
LEMMA SameLog ==
  ASSUME NEW s \in Session, TurnsOf(s)' = TurnsOf(s)
  PROVE  LogOf(s)' = LogOf(s)
<1>1. Numbers(s)' = Numbers(s)
  BY DEF Numbers
<1>2. LastNumber(s)' = LastNumber(s)
  BY <1>1 DEF LastNumber
<1>3. \A n : Entry(s, n)' = Entry(s, n)
  BY DEF Entry
<1> QED BY <1>2, <1>3 DEF LogOf

\* Append, as a function
LEMMA AppendDef ==
  ASSUME NEW S, NEW f \in Seq(S), NEW x \in S, NEW n \in Nat, Len(f) = n - 1
  PROVE  Append(f, x) = [m \in 1..n |-> IF m = n THEN x ELSE f[m]]
<1> DEFINE a == Append(f, x)
<1>1. /\ a \in Seq(S) /\ Len(a) = n /\ a[n] = x
      /\ \A m \in 1..(n - 1) : a[m] = f[m]
  BY AppendProperties
<1> HIDE DEF a
<1>2. a = [m \in 1..n |-> a[m]]
  <2>1. a \in [1..n -> S]
    BY <1>1, LenProperties
  <2> QED BY <2>1
<1>3. \A m \in 1..n : m = n \/ m \in 1..(n - 1)
  OBVIOUS
<1>4. \A m \in 1..n : a[m] = IF m = n THEN x ELSE f[m]
  BY <1>1, <1>3
<1>5. a = [m \in 1..n |-> IF m = n THEN x ELSE f[m]]
  BY <1>2, <1>4
<1> QED BY <1>5 DEF a

\* CommitTurn is Store: the new entry is the last one and the others are as they were.
LEMMA CommitTurnStores ==
  ASSUME IInv, IInv', NEW r \in Request, CommitTurn(r)
  PROVE  Log!Next
<1>1. PICK s \in Session, n \in Nat \ {0} :
           /\ s = sess[r] /\ n = num[r]
           /\ Numbers(s) = 1..(n - 1) /\ LastNumber(s) = n - 1
           /\ TurnsOf(s)' = TurnsOf(s) \cup {[sess |-> s, num |-> n, req |-> r]}
           /\ Numbers(s)' = 1..n /\ LastNumber(s)' = n
           /\ \A x \in Session : x # s => TurnsOf(x)' = TurnsOf(x)
  BY CommitTurnAppends
<1> DEFINE row == [sess |-> s, num |-> n, req |-> r]
<1>2. \A t, u \in TurnsOf(s)' : t.num = u.num => t = u
  BY DEF IInv, Dense
<1>3. \A m \in 1..(n - 1) : Entry(s, m)' = Entry(s, m)
  <2>1. ASSUME NEW m \in 1..(n - 1) PROVE Entry(s, m)' = Entry(s, m)
    <3>1. PICK t \in TurnsOf(s) : t.num = m
      BY <1>1 DEF Numbers
    <3>2. \A u \in TurnsOf(s)' : u.num = m <=> u = t
      BY <1>1, <1>2, <3>1
    <3>3. (CHOOSE u \in TurnsOf(s) : u.num = m) = t
      BY <1>1, <3>1, <3>2
    <3>4. (CHOOSE u \in TurnsOf(s)' : u.num = m) = t
      BY <1>1, <3>1, <3>2
    <3> QED BY <3>3, <3>4 DEF Entry
  <2> QED BY <2>1
<1>4. Entry(s, n)' = r
  <2>1. row \in TurnsOf(s)' /\ row.num = n /\ row.req = r
    BY <1>1
  <2>2. \A u \in TurnsOf(s)' : u.num = n <=> u = row
    BY <1>2, <2>1
  <2>3. (CHOOSE u \in TurnsOf(s)' : u.num = n) = row
    BY <2>1, <2>2
  <2> QED BY <2>1, <2>3 DEF Entry
<1>5. LogOf(s)' = Append(LogOf(s), r)
  <2>1. LogOf(s) \in Seq(Request) /\ Len(LogOf(s)) = n - 1
    BY <1>1, LogIsSeq
  <2>2. LogOf(s)' = [m \in 1..n |-> Entry(s, m)']
    BY <1>1 DEF LogOf
  <2>3. Append(LogOf(s), r) = [m \in 1..n |-> IF m = n THEN r ELSE LogOf(s)[m]]
    BY <2>1, AppendDef
  <2>4. \A m \in 1..(n - 1) : LogOf(s)[m] = Entry(s, m)
    BY <1>1 DEF LogOf
  <2>5. \A m \in 1..n : m = n \/ m \in 1..(n - 1)
    OBVIOUS
  <2>6. \A m \in 1..n : Entry(s, m)' = IF m = n THEN r ELSE LogOf(s)[m]
    BY <1>3, <1>4, <2>4, <2>5
  <2> QED BY <2>2, <2>3, <2>6
<1>6. \A x \in Session : x # s => LogOf(x)' = LogOf(x)
  BY <1>1, SameLog
<1>7. r \notin Stored /\ Stored' = Stored \cup {r}
  BY DEF IInv, TypeOK, CommitTurn, Stored
<1>8. [x \in Session |-> LogOf(x)]' =
        [[x \in Session |-> LogOf(x)] EXCEPT ![s] = Append(@, r)]
  BY <1>5, <1>6
<1>9. Log!Store(r, s)
  BY <1>7, <1>8 DEF Log!Store, LogOf, Entry, Stored
<1> QED BY <1>9 DEF Log!Next
\* The deletions are Forget: what they remove of a session is all of it.
LEMMA DeleteForgets ==
  ASSUME IInv, NEW gone \in SUBSET Session, UNCHANGED pc,
         turns' = {t \in turns : t.sess \notin gone}
  PROVE  Log!Next
<1>1. ASSUME NEW x \in Session, x \in gone PROVE LogOf(x)' = <<>>
  <2>1. TurnsOf(x)' = {}
    BY <1>1 DEF TurnsOf
  <2>2. Numbers(x)' = {}
    BY <2>1 DEF Numbers
  <2>3. LastNumber(x)' = 0
    BY <2>2 DEF LastNumber
  <2> QED BY <2>3 DEF LogOf
<1>2. ASSUME NEW x \in Session, x \notin gone PROVE LogOf(x)' = LogOf(x)
  <2>1. TurnsOf(x)' = TurnsOf(x)
    BY <1>2 DEF TurnsOf
  <2> QED BY <2>1, SameLog
<1>3. \A x \in Session : LogOf(x)' = IF x \in gone THEN <<>> ELSE LogOf(x)
  BY <1>1, <1>2
<1>4. [x \in Session |-> LogOf(x)]' =
        [x \in Session |-> IF x \in gone THEN <<>> ELSE [y \in Session |-> LogOf(y)][x]]
  BY <1>3
<1>5. Stored' = Stored
  BY DEF Stored
<1>6. Log!Forget(gone)
  BY <1>4, <1>5 DEF Log!Forget, LogOf, Entry, Stored
<1> QED BY <1>6 DEF Log!Next

LEMMA NextLog ==
  ASSUME IInv, IInv', [Next]_vars
  PROVE  [Log!Next]_(Log!vars)
<1>1. ASSUME NEW r \in Request, CommitTurn(r) PROVE Log!Next
  BY <1>1, CommitTurnStores
<1>2. ASSUME NEW e \in Edit, CommitHardDelete(e), turns' # turns PROVE Log!Next
  <2>1. PICK gone \in SUBSET Session : gone = {editSess[e]} \cap Session
    OBVIOUS
  <2>2. turns' = {t \in turns : t.sess \notin gone}
    BY <1>2, <2>1 DEF IInv, TypeOK, Turn, CommitHardDelete, TurnsOf
  <2> QED BY <1>2, <2>2, DeleteForgets DEF CommitHardDelete, Finish, requests
<1>3. ASSUME NEW e \in Edit, CommitClear(e), turns' # turns PROVE Log!Next
  <2>1. turns' = {t \in turns : t.sess \notin Session}
    BY <1>3 DEF IInv, TypeOK, Turn, CommitClear
  <2> QED BY <1>3, <2>1, DeleteForgets DEF CommitClear, Finish, requests
<1>4. CASE turns' = turns /\ Stored' = Stored
  <2>1. \A s \in Session : TurnsOf(s)' = TurnsOf(s)
    BY <1>4 DEF TurnsOf
  <2>2. \A s \in Session : LogOf(s)' = LogOf(s)
    BY <2>1, SameLog
  <2>3. [s \in Session |-> LogOf(s)]' = [s \in Session |-> LogOf(s)]
    BY <2>2
  <2> QED BY <1>4, <2>3 DEF Log!vars, LogOf, Entry, Stored
<1> QED BY <1>1, <1>2, <1>3, <1>4, TurnsWrites, StoredWrites

\* The conversation rows of a session are an append-only log: every step of the code is an
\* append by a request that was not stored before, the end of whole sessions, or nothing.
THEOREM StoreImplementsTurnLog == Spec => StoreIsTurnLog
<1>1. IInv /\ IInv' /\ [Next]_vars => [Log!Next]_(Log!vars)
  BY NextLog
<1> QED BY <1>1, InitLog, Invariance, PTL DEF Spec, StoreIsTurnLog, Log!Spec
=============================================================================
