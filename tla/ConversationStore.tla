------------------------- MODULE ConversationStore -------------------------
(***************************************************************************)
(* Research requests, chat sessions and the conversation turns they leave  *)
(* behind: main.py's routes over db/crud.py and db/conversations.py, with  *)
(* the turn saved after the response by a background task                  *)
(* (research_service.save_conversation_turn).                              *)
(*                                                                         *)
(* The database gives READ COMMITTED: one action is one statement that     *)
(* reads, or one commit, so that the commits of other requests fall        *)
(* between the reads of a request and the writes that rely on them.  A     *)
(* commit's statements take effect together: an UPDATE of the session row  *)
(* locks it, and a failed commit is rolled back as a whole.                *)
(*                                                                         *)
(* Left out: the time columns (they only order the listings), the          *)
(* citations of a turn (rows of the turn's own transaction) and the text   *)
(* of questions and answers.                                               *)
(***************************************************************************)
EXTENDS Naturals, FiniteSets, FiniteSetsExt

CONSTANTS
  Request,       \* the POSTs to /api/research and /api/research/stream, each made once
  User,
  Blank,         \* the requests whose question is blank
  Session,       \* the session ids the database can hand out
  NoSession,     \* the absence of a session id
  Edit,          \* the concurrent calls that rename, delete or clear
  HistoryLimit,  \* CONVERSATION_HISTORY_LIMIT: how many turns a request is shown
  MaxFaults      \* bound on the database errors that are nobody's race

ASSUME RequestAssumption ==
  /\ User # {}
  /\ Blank \subseteq Request
ASSUME SessionAssumption == NoSession \notin Session
ASSUME BoundAssumption == HistoryLimit \in Nat \ {0} /\ MaxFaults \in Nat

VARIABLES
  \* the database
  present,       \* the ids of the rows of table sessions
  issued,        \* the ids the sequence has handed out; it never hands one out again
  owner,         \* owner[s]: sessions.user_id
  active,        \* active[s]: sessions.is_active
  title,         \* title[s]: sessions.title
  queries,       \* rows of table queries, [sess, req]
  turns,         \* rows of table research_conversations, [sess, num, req]
  \* the requests, one record field of main.research each
  asker,         \* the user whose token it carries; chosen once, at the start
  pc,            \* how far request r has come
  sess,          \* the session it runs in
  ctx,           \* the turns it was shown as conversation context
  num,           \* the turn number it is about to store
  reported,      \* the turn number its response carries
  titleSeen,     \* the session title its save has read ("missing": no such row)
  attempt,       \* the attempt of its save, 1 or 2
  \* the edits
  edit,          \* what edit e is doing
  editSess,      \* the session it looked up
  editSeen,      \* the query rows it is about to delete
  faults

store    == <<present, issued, owner, active, title, queries, turns>>
requests == <<asker, pc, sess, ctx, num, reported, titleSeen, attempt>>
edits    == <<edit, editSess, editSeen>>
vars     == <<store, requests, edits, faults>>

Title == {"default",   \* one of DEFAULT_TITLES
          "question",  \* made from a question
          "custom"}    \* whatever else a PATCH puts there, a null included
Turn  == [sess: Session, num: Nat, req: Request]
Query == [sess: Session, req: Request]

PC == {"idle",       \* not made yet
       "resolved",   \* the session is known
       "loaded",     \* the context is loaded
       "running",    \* the graph runs
       "answered",   \* the graph gave an answer to save
       "queried",    \* the queries row is committed
       "responded",  \* the response was sent; the turn is not saved yet
       "saving",     \* the save has read the session row
       "conflict",   \* the first attempt broke a constraint and was rolled back
       "renumbered", \* the next free number was read
       "stored",     \* the turn is in the database
       "lost",       \* both attempts failed: logged, and nobody is told
       "ended"}      \* refused, failed, nothing to save, or died with the process

EditKind == {"none", "rename", "softDelete", "hardDelete", "clear"}

TypeOK ==
  /\ present \subseteq issued /\ issued \subseteq Session
  /\ owner \in [Session -> User]
  /\ active \in [Session -> BOOLEAN]
  /\ title \in [Session -> Title]
  /\ queries \subseteq Query
  /\ turns \subseteq Turn
  /\ asker \in [Request -> User]
  /\ pc \in [Request -> PC]
  /\ sess \in [Request -> Session \cup {NoSession}]
  /\ ctx \in [Request -> SUBSET Turn]
  /\ num \in [Request -> Nat]
  /\ reported \in [Request -> Nat]
  /\ titleSeen \in [Request -> Title \cup {"missing"}]
  /\ attempt \in [Request -> {1, 2}]
  /\ edit \in [Edit -> EditKind]
  /\ editSess \in [Edit -> Session \cup {NoSession}]
  /\ editSeen \in [Edit -> SUBSET Query]
  /\ faults \in 0..MaxFaults

-----------------------------------------------------------------------------
(* db/conversations.py and db/crud.py: what the statements read *)

TurnsOf(s)   == {t \in turns : t.sess = s}
Numbers(s)   == {t.num : t \in TurnsOf(s)}
QueriesOf(s) == {q \in queries : q.sess = s}

\* last_turn_number: max(turn_number), or 0 in a session without turns
LastNumber(s) == IF Numbers(s) = {} THEN 0 ELSE Max(Numbers(s))

\* load_recent_turns: the last HistoryLimit turns
RecentTurns(s) ==
  {t \in TurnsOf(s) : Cardinality({u \in TurnsOf(s) : u.num > t.num}) < HistoryLimit}

\* Variant: the row by its id alone
FoundById(s, u) == s \in present /\ active[s]

\* get_user_session: the row, if it is the user's and was not soft-deleted
Found(s, u) == s \in present /\ owner[s] = u /\ active[s]

\* make_session_title: a blank question leaves the title the UI gives a new session
TitleOf(r) == IF r \in Blank THEN "default" ELSE "question"

\* UNIQUE (session_id, turn_number)
Taken(s, n) == n \in Numbers(s)

\* Variant: the id is not drawn from the sequence
AddSessionUnissued(s, u, t) ==
  /\ s \notin present
  /\ present' = present \cup {s}
  /\ owner' = [owner EXCEPT ![s] = u]
  /\ active' = [active EXCEPT ![s] = TRUE]
  /\ title' = [title EXCEPT ![s] = t]
  /\ UNCHANGED <<issued, queries, turns>>

\* INSERT INTO sessions
AddSession(s, u, t) ==
  /\ s \notin issued
  /\ issued' = issued \cup {s}
  /\ present' = present \cup {s}
  /\ owner' = [owner EXCEPT ![s] = u]
  /\ active' = [active EXCEPT ![s] = TRUE]
  /\ title' = [title EXCEPT ![s] = t]
  /\ UNCHANGED <<queries, turns>>

Init ==
  /\ present = {} /\ issued = {} /\ queries = {} /\ turns = {}
  /\ owner = [s \in Session |-> CHOOSE u \in User : TRUE]
  /\ active = [s \in Session |-> TRUE]
  /\ title = [s \in Session |-> "default"]
  /\ asker \in [Request -> User]
  /\ pc = [r \in Request |-> "idle"]
  /\ sess = [r \in Request |-> NoSession]
  /\ ctx = [r \in Request |-> {}]
  /\ num = [r \in Request |-> 0]
  /\ reported = [r \in Request |-> 0]
  /\ titleSeen = [r \in Request |-> "missing"]
  /\ attempt = [r \in Request |-> 1]
  /\ edit = [e \in Edit |-> "none"]
  /\ editSess = [e \in Edit |-> NoSession]
  /\ editSeen = [e \in Edit |-> {}]
  /\ faults = 0

-----------------------------------------------------------------------------
(* main._resolve_session and main._prepare_run *)

\* A request that names a session gets it, or is refused with a 404.
ResolveSession(r, s) ==
  /\ pc[r] = "idle"
  /\ IF Found(s, asker[r])
       THEN /\ pc' = [pc EXCEPT ![r] = "resolved"]
            /\ sess' = [sess EXCEPT ![r] = s]
       ELSE /\ pc' = [pc EXCEPT ![r] = "ended"]
            /\ UNCHANGED sess
  /\ UNCHANGED <<store, asker, ctx, num, reported, titleSeen, attempt, edits, faults>>

\* A request that names none gets a new session, titled from its question.
ResolveNewSession(r, s) ==
  /\ pc[r] = "idle"
  /\ AddSession(s, asker[r], TitleOf(r))
  /\ pc' = [pc EXCEPT ![r] = "resolved"]
  /\ sess' = [sess EXCEPT ![r] = s]
  /\ UNCHANGED <<asker, ctx, num, reported, titleSeen, attempt, edits, faults>>

\* load_conversation reads the recent turns ...
LoadContext(r) ==
  /\ pc[r] = "resolved"
  /\ ctx' = [ctx EXCEPT ![r] = RecentTurns(sess[r])]
  /\ pc' = [pc EXCEPT ![r] = "loaded"]
  /\ UNCHANGED <<store, asker, sess, num, reported, titleSeen, attempt, edits, faults>>

\* ... and then, in a statement of its own, the last number.
ChooseNumber(r) ==
  /\ pc[r] = "loaded"
  /\ num' = [num EXCEPT ![r] = LastNumber(sess[r]) + 1]
  /\ reported' = [reported EXCEPT ![r] = LastNumber(sess[r]) + 1]
  /\ pc' = [pc EXCEPT ![r] = "running"]
  /\ UNCHANGED <<store, asker, sess, ctx, titleSeen, attempt, edits, faults>>

\* If either read fails the request runs without history, as turn 1.
LoadFails(r) ==
  /\ pc[r] \in {"resolved", "loaded"}
  /\ faults < MaxFaults
  /\ faults' = faults + 1
  /\ ctx' = [ctx EXCEPT ![r] = {}]
  /\ num' = [num EXCEPT ![r] = 1]
  /\ reported' = [reported EXCEPT ![r] = 1]
  /\ pc' = [pc EXCEPT ![r] = "running"]
  /\ UNCHANGED <<store, asker, sess, titleSeen, attempt, edits>>

-----------------------------------------------------------------------------
(* The run's end, main._persist and the response *)

RunAnswers(r) ==
  /\ pc[r] = "running"
  /\ pc' = [pc EXCEPT ![r] = "answered"]
  /\ UNCHANGED <<store, asker, sess, ctx, num, reported, titleSeen, attempt, edits, faults>>

\* A run that raises, hits the API limit or (streaming) has an empty answer saves nothing.
RunEndsWithoutAnswer(r) ==
  /\ pc[r] = "running"
  /\ pc' = [pc EXCEPT ![r] = "ended"]
  /\ UNCHANGED <<store, asker, sess, ctx, num, reported, titleSeen, attempt, edits, faults>>

\* Variant: the row is added but never committed
SaveQueryUncommitted(r) ==
  /\ pc[r] = "answered"
  /\ pc' = [pc EXCEPT ![r] = "queried"]
  /\ UNCHANGED <<store, asker, sess, ctx, num, reported, titleSeen, attempt, edits, faults>>

\* crud.save_query: its foreign key fails, and with it the request, if the session is gone.
SaveQuery(r) ==
  /\ pc[r] = "answered"
  /\ IF sess[r] \in present
       THEN /\ queries' = queries \cup {[sess |-> sess[r], req |-> r]}
            /\ pc' = [pc EXCEPT ![r] = "queried"]
       ELSE /\ pc' = [pc EXCEPT ![r] = "ended"]
            /\ UNCHANGED queries
  /\ UNCHANGED <<present, issued, owner, active, title, turns, asker, sess, ctx, num, reported,
                 titleSeen, attempt, edits, faults>>

Respond(r) ==
  /\ pc[r] = "queried"
  /\ pc' = [pc EXCEPT ![r] = "responded"]
  /\ UNCHANGED <<store, asker, sess, ctx, num, reported, titleSeen, attempt, edits, faults>>

-----------------------------------------------------------------------------
(* conversations.save_turn, run by the background task *)

\* db.get(ChatSession, session_id): the title this attempt will judge by
BeginSave(r) ==
  /\ pc[r] \in {"responded", "renumbered"}
  /\ titleSeen' = [titleSeen EXCEPT ![r] =
                    IF sess[r] \in present THEN title[sess[r]] ELSE "missing"]
  /\ pc' = [pc EXCEPT ![r] = "saving"]
  /\ UNCHANGED <<store, asker, sess, ctx, num, reported, attempt, edits, faults>>

\* Variant: no unique constraint on (session_id, turn_number)
InsertableAnyNumber(r) == sess[r] \in present /\ titleSeen[r] # "missing"

\* The flush and commit insert the row ...
Insertable(r) == sess[r] \in present /\ titleSeen[r] # "missing" /\ ~Taken(sess[r], num[r])

\* Variant: the turn is merged over the one that has the number
CommitTurnOver(r) ==
  /\ pc[r] = "saving"
  /\ sess[r] \in present /\ titleSeen[r] # "missing"
  /\ turns' = {t \in turns : t.sess # sess[r] \/ t.num # num[r]}
               \cup {[sess |-> sess[r], num |-> num[r], req |-> r]}
  /\ title' = [title EXCEPT ![sess[r]] =
                IF num[r] = 1 /\ titleSeen[r] = "default" THEN TitleOf(r) ELSE @]
  /\ pc' = [pc EXCEPT ![r] = "stored"]
  /\ UNCHANGED <<present, issued, owner, active, queries, asker, sess, ctx, num, reported,
                 titleSeen, attempt, edits, faults>>

CommitTurn(r) ==
  /\ pc[r] = "saving"
  /\ Insertable(r)
  /\ turns' = turns \cup {[sess |-> sess[r], num |-> num[r], req |-> r]}
  /\ title' = [title EXCEPT ![sess[r]] =
                IF num[r] = 1 /\ titleSeen[r] = "default" THEN TitleOf(r) ELSE @]
  /\ pc' = [pc EXCEPT ![r] = "stored"]
  /\ UNCHANGED <<present, issued, owner, active, queries, asker, sess, ctx, num, reported,
                 titleSeen, attempt, edits, faults>>

\* Variant: the title is written before the turn, in a transaction of its own
RejectTurnTitled(r) ==
  /\ pc[r] = "saving"
  /\ ~Insertable(r)
  /\ pc' = [pc EXCEPT ![r] =
             IF attempt[r] = 1 /\ (titleSeen[r] = "missing" \/ sess[r] \in present)
               THEN "conflict" ELSE "lost"]
  /\ title' = [title EXCEPT ![sess[r]] =
                IF num[r] = 1 /\ titleSeen[r] = "default" THEN TitleOf(r) ELSE @]
  /\ UNCHANGED <<present, issued, owner, active, queries, turns, asker, sess, ctx, num,
                 reported, titleSeen, attempt, edits, faults>>

\* Variant: no second attempt
RejectTurnForGood(r) ==
  /\ pc[r] = "saving"
  /\ ~Insertable(r)
  /\ pc' = [pc EXCEPT ![r] = "lost"]
  /\ UNCHANGED <<store, asker, sess, ctx, num, reported, titleSeen, attempt, edits, faults>>

\* ... or break a constraint: UNIQUE when the number is taken, the foreign key when the
\* session row was already missing (IntegrityError, retried once).  A row that vanished
\* after it was read makes the UPDATE match nothing (StaleDataError, not retried).
RejectTurn(r) ==
  /\ pc[r] = "saving"
  /\ ~Insertable(r)
  /\ pc' = [pc EXCEPT ![r] =
             IF attempt[r] = 1 /\ (titleSeen[r] = "missing" \/ sess[r] \in present)
               THEN "conflict" ELSE "lost"]
  /\ UNCHANGED <<store, asker, sess, ctx, num, reported, titleSeen, attempt, edits, faults>>

\* Variant: one number too far
NextNumberSkipping(r) ==
  /\ pc[r] = "conflict"
  /\ num' = [num EXCEPT ![r] = LastNumber(sess[r]) + 2]
  /\ attempt' = [attempt EXCEPT ![r] = 2]
  /\ pc' = [pc EXCEPT ![r] = "renumbered"]
  /\ UNCHANGED <<store, asker, sess, ctx, reported, titleSeen, edits, faults>>

\* Variant: tried again with the number it has, without counting
NextNumberUnchanged(r) ==
  /\ pc[r] = "conflict"
  /\ pc' = [pc EXCEPT ![r] = "renumbered"]
  /\ UNCHANGED <<store, asker, sess, ctx, num, reported, titleSeen, attempt, edits, faults>>

\* "the next free number is used, once"
NextNumber(r) ==
  /\ pc[r] = "conflict"
  /\ num' = [num EXCEPT ![r] = LastNumber(sess[r]) + 1]
  /\ attempt' = [attempt EXCEPT ![r] = 2]
  /\ pc' = [pc EXCEPT ![r] = "renumbered"]
  /\ UNCHANGED <<store, asker, sess, ctx, reported, titleSeen, edits, faults>>

\* save_conversation_turn swallows every other failure.
SaveFails(r) ==
  /\ pc[r] \in {"responded", "saving", "conflict", "renumbered"}
  /\ faults < MaxFaults
  /\ faults' = faults + 1
  /\ pc' = [pc EXCEPT ![r] = "ended"]
  /\ UNCHANGED <<store, asker, sess, ctx, num, reported, titleSeen, attempt, edits>>

\* The client leaves before the response is complete: the stream's generator is cancelled.
Disconnect(r) ==
  /\ pc[r] \in {"running", "answered", "queried"}
  /\ pc' = [pc EXCEPT ![r] = "ended"]
  /\ UNCHANGED <<store, asker, sess, ctx, num, reported, titleSeen, attempt, edits, faults>>

-----------------------------------------------------------------------------
(* The session routes and the admin's clear_all_data.  Each looks up first *)
(* and writes in a later statement.                                        *)

\* POST /api/sessions
CreateSession(u, s) ==
  /\ AddSession(s, u, "default")
  /\ UNCHANGED <<requests, edits, faults>>

Begin(e, kind, s, seen) ==
  /\ edit[e] = "none"
  /\ edit' = [edit EXCEPT ![e] = kind]
  /\ editSess' = [editSess EXCEPT ![e] = s]
  /\ editSeen' = [editSeen EXCEPT ![e] = seen]
  /\ UNCHANGED <<store, requests, faults>>

Finish(e) ==
  /\ edit' = [edit EXCEPT ![e] = "none"]
  /\ editSess' = [editSess EXCEPT ![e] = NoSession]
  /\ editSeen' = [editSeen EXCEPT ![e] = {}]
  /\ UNCHANGED <<requests, faults>>

\* PATCH /api/sessions/{id}
BeginRename(e, u, s) == Found(s, u) /\ Begin(e, "rename", s, {})

\* To a title of the user's, to null, which the migrated column takes and save_turn does not
\* count as a default title, or to a default one.  A body without a title keeps the one there
\* is, and the UPDATE of a row that vanished matches nothing and rolls back.
CommitRename(e) ==
  /\ edit[e] = "rename"
  /\ \/ /\ editSess[e] \in present
        /\ \E t \in {"custom", "default"} : title' = [title EXCEPT ![editSess[e]] = t]
     \/ UNCHANGED title
  /\ Finish(e)
  /\ UNCHANGED <<present, issued, owner, active, queries, turns>>

\* DELETE /sessions/{id}
BeginSoftDelete(e, u, s) == Found(s, u) /\ Begin(e, "softDelete", s, {})

CommitSoftDelete(e) ==
  /\ edit[e] = "softDelete"
  /\ active' = [active EXCEPT ![editSess[e]] = IF editSess[e] \in present THEN FALSE ELSE @]
  /\ Finish(e)
  /\ UNCHANGED <<present, issued, owner, title, queries, turns>>

\* DELETE /api/sessions/{id}: any row of the user's, with the children the ORM loads
BeginHardDelete(e, u, s) ==
  /\ s \in present /\ owner[s] = u
  /\ Begin(e, "hardDelete", s, QueriesOf(s))

\* Variant: no foreign keys, as SQLite without its pragma
CommitHardDeleteUnchecked(e) ==
  /\ edit[e] = "hardDelete"
  /\ present' = present \ {editSess[e]}
  /\ queries' = queries \ editSeen[e]
  /\ turns' = turns \ TurnsOf(editSess[e])
  /\ Finish(e)
  /\ UNCHANGED <<issued, owner, active, title>>

\* Its foreign key has no ON DELETE: a query saved since the lookup makes it fail.  A turn
\* saved since goes with the session (ON DELETE CASCADE).
CommitHardDelete(e) ==
  /\ edit[e] = "hardDelete"
  /\ IF QueriesOf(editSess[e]) \subseteq editSeen[e]
       THEN /\ present' = present \ {editSess[e]}
            /\ queries' = queries \ QueriesOf(editSess[e])
            /\ turns' = turns \ TurnsOf(editSess[e])
       ELSE UNCHANGED <<present, queries, turns>>
  /\ Finish(e)
  /\ UNCHANGED <<issued, owner, active, title>>

\* DELETE /admin/clear-all-data: turns, then queries ...
BeginClear(e) == Begin(e, "clear", NoSession, queries)

\* Variant: the sessions stay
CommitClearRows(e) ==
  /\ edit[e] = "clear"
  /\ queries' = {} /\ turns' = {}
  /\ Finish(e)
  /\ UNCHANGED <<present, issued, owner, active, title>>

\* ... then sessions, which fails as a whole if a query was saved in between
CommitClear(e) ==
  /\ edit[e] = "clear"
  /\ IF queries \subseteq editSeen[e]
       THEN present' = {} /\ queries' = {} /\ turns' = {}
       ELSE UNCHANGED <<present, queries, turns>>
  /\ Finish(e)
  /\ UNCHANGED <<issued, owner, active, title>>

-----------------------------------------------------------------------------
(* The process dies and starts again: the database stays, the requests and *)
(* their pending background saves do not.                                  *)

Settled == {"stored", "lost", "ended"}

Crash ==
  /\ pc' = [r \in Request |-> IF pc[r] \in Settled \cup {"idle"} THEN pc[r] ELSE "ended"]
  /\ edit' = [e \in Edit |-> "none"]
  /\ editSess' = [e \in Edit |-> NoSession]
  /\ editSeen' = [e \in Edit |-> {}]
  /\ UNCHANGED <<store, asker, sess, ctx, num, reported, titleSeen, attempt, faults>>

-----------------------------------------------------------------------------
Prepare(r) ==
  \/ \E s \in Session : ResolveSession(r, s) \/ ResolveNewSession(r, s)
  \/ LoadContext(r) \/ ChooseNumber(r) \/ LoadFails(r)

Conclude(r) ==
  RunAnswers(r) \/ RunEndsWithoutAnswer(r) \/ SaveQuery(r) \/ Respond(r) \/ Disconnect(r)

SaveConversationTurn(r) ==
  BeginSave(r) \/ CommitTurn(r) \/ RejectTurn(r) \/ NextNumber(r) \/ SaveFails(r)

EditSession(e) ==
  \/ \E u \in User, s \in Session :
        BeginRename(e, u, s) \/ BeginSoftDelete(e, u, s) \/ BeginHardDelete(e, u, s)
  \/ CommitRename(e) \/ CommitSoftDelete(e) \/ CommitHardDelete(e)
  \/ BeginClear(e) \/ CommitClear(e)

Next ==
  \/ \E r \in Request : Prepare(r) \/ Conclude(r) \/ SaveConversationTurn(r)
  \/ \E u \in User, s \in Session : CreateSession(u, s)
  \/ \E e \in Edit : EditSession(e)
  \/ Crash

Spec == Init /\ [][Next]_vars

\* A response that was sent has a background task of the worker's behind it, which runs to
\* its end unless the process dies.  Users owe nobody a next request.
FairSpec == Spec /\ \A r \in Request : WF_vars(SaveConversationTurn(r))

-----------------------------------------------------------------------------
(* Properties *)

\* The turn numbers of a session are 1..n: no hole and no number twice, whatever requests
\* raced for a number (save_turn's retry), failed or died.  last_turn_number and
\* count_turns, which the listings show, therefore agree.
DenseTurnNumbers ==
  \A s \in Session :
    /\ Numbers(s) = 1..LastNumber(s)
    /\ \A t, u \in TurnsOf(s) : t.num = u.num => t = u

\* A stored turn has a higher number than every turn its answer was written from
\* (load_conversation's context), and none lower than the number its response reported,
\* although both were read long before and the save may have renumbered it.
StoredInOrder ==
  \A t \in turns :
    /\ reported[t.req] <= t.num
    /\ \A c \in ctx[t.req] : c.num < t.num

\* A request is shown, and leaves its rows in, sessions of the user who made it only:
\* the ownership check of get_user_session is made once, at the start, and the writes that
\* come after the run ("these functions trust the session_id they are given") rely on it.
HistoryStaysPrivate ==
  /\ \A r \in Request : \A c \in ctx[r] : asker[c.req] = asker[r]
  /\ \A x \in turns \cup queries : owner[x.sess] = asker[x.req]

\* No query and no turn outlives its session, also when it was saved while the session was
\* being deleted or all data cleared.
NoOrphanRows == \A x \in turns \cup queries : x.sess \in present

\* A stored turn has its queries row: the chat reloads from queries, the follow-ups from
\* the turns, and what a follow-up builds on is never missing from the reloaded chat.
TurnHasQuery == \A t \in turns : [sess |-> t.sess, req |-> t.req] \in queries

\* A step never rewrites or drops a turn, except together with its session.
TurnsOnlyLeaveWithSession ==
  [][\A t \in turns : t \in turns' \/ t.sess \notin present']_vars

\* The title a save writes comes with the first turn of the session: an attempt that was
\* rolled back leaves none behind, and a later turn never retitles the chat.
AutoTitleComesWithFirstTurn ==
  [][\A s \in Session :
       (s \in present /\ title[s] # "question" /\ title'[s] = "question") =>
         Numbers(s) = {} /\ Numbers(s)' = {1}]_vars

\* The turns as an append-only log per session: ConversationStore implements TurnLog.
Log == INSTANCE TurnLog WITH
  log <- [s \in Session |-> [n \in 1..LastNumber(s) |->
            (CHOOSE t \in TurnsOf(s) : t.num = n).req]],
  logged <- {r \in Request : pc[r] = "stored"}

StoreIsTurnLog == Log!Spec

\* Once the response is out, the save comes to an end: stored, or given up.  The retry
\* cannot go round forever, however many other requests take the number it wants.
SaveSettles == \A r \in Request : pc[r] = "responded" ~> pc[r] \in Settled

\* In a session that is still there, a turn is given up only after the numbers of both attempts
\* went to other requests: the one its response reported, and then the next free one
\* (save_turn's two attempts).
LostToTwoOthers ==
  \A r \in Request : pc[r] = "lost" /\ sess[r] \in present =>
    \E t, u \in TurnsOf(sess[r]) :
      /\ t.req # u.req
      /\ t.num = reported[r] /\ u.num = num[r] /\ t.num < u.num

\* A turn whose response was sent is given up only if its session is gone.
LostOnlyWithSession == \A r \in Request : pc[r] = "lost" => sess[r] \notin present

\* "inactive sessions are treated as not found": no route acts on a soft-deleted session.
\* DELETE /api/sessions/{id} does.
InactiveIsNotFound ==
  [][\A e \in Edit : edit[e] = "none" /\ edit'[e] = "hardDelete" => active[editSess'[e]]]_vars
=============================================================================
