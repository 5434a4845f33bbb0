------------------------------- MODULE Admission -------------------------------
(***************************************************************************)
(* Acceptance of questions and retention of conversations: sessions,       *)
(* conversations and submit of shop/store.py, expire_conversations of      *)
(* shop/retention.py.                                                      *)
(*                                                                         *)
(* Where WorkQueue takes one transaction for one action, an action here is *)
(* one statement: a transaction of isolation level READ COMMITTED sees,    *)
(* statement by statement, what others have committed in between, and only *)
(* its locks keep them out.  What becomes of a question after acceptance   *)
(* (WorkQueue) is reduced to being claimed, set aside and ended.           *)
(***************************************************************************)
EXTENDS Integers, FiniteSets

CONSTANTS
  Sessions,       \* token hashes of the anonymous sessions
  Conversations,  \* identifiers of conversations
  Submissions,    \* submission identifiers that browsers generate
  Texts,          \* contents of questions
  Bodies,         \* the submissions that browsers may send
  Handlers,       \* request threads of all API replicas
  PendingLimit,   \* PENDING_QUESTION_LIMIT
  RateLimit,      \* SESSION_QUESTION_RATE_LIMIT
  RateWindow,     \* the minute over which the rate is counted
  RetentionAge,   \* CONVERSATION_RETENTION_DAYS
  RetentionBatch, \* batch_size
  NoSession,      \* the session_hash of a conversation that does not exist
  MaxTime         \* bound of the model: the clock stops here

ASSUME ConstantsAssumption ==
  /\ PendingLimit \in Nat
  /\ RateLimit \in Nat
  /\ RateWindow \in Nat
  /\ RetentionAge \in Nat
  /\ RetentionBatch \in Nat \ {0}
  /\ MaxTime \in Nat
  /\ NoSession \notin Sessions
  /\ Bodies \subseteq
       [conversation : Conversations, submission : Submissions, text : Texts]

NoTime == 0

\* UNIQUE (conversation_id, submission_id) lets the pair stand for a row.
Keys == Conversations \X Submissions

ConversationOf(k) == k[1]

VARIABLES
  now,           \* clock_timestamp()
  sessions,      \* the sessions table
  conversation,  \* the conversations table
  question,      \* the questions table, and the work table with it
  handler,       \* each request thread, with the submit transaction it runs
  sweep          \* the transaction of expire_conversations

vars == <<now, sessions, conversation, question, handler, sweep>>

-------------------------------------------------------------------------------
(* Rows and transactions *)

NoConversation == [session |-> NoSession, created |-> NoTime, expired |-> FALSE]

Pending == {"waiting", "processing"}
NoQuestion == [status |-> "absent"]

QuestionRows ==
  {NoQuestion} \cup [status : Pending \cup {"terminal"}, accepted : Nat, text : Texts]

ConversationRows ==
  [session : Sessions \cup {NoSession}, created : Nat, expired : BOOLEAN]

\* A request: the cookie's session, with the path's conversation and the body.
Requests ==
  [session : Sessions, conversation : Conversations, submission : Submissions,
   text : Texts]

Request(s, body) ==
  [session |-> s, conversation |-> body.conversation,
   submission |-> body.submission, text |-> body.text]

\* Where a submit transaction stands, named for the statement that is next.
\* "accepted" has committed and the response is on its way.
Inside == {"authorizing", "deduplicating", "ordering", "counting", "rating", "inserting"}
Steps == Inside \cup {"accepted"}

IdleHandler == [step |-> "idle"]

HandlerStates == {IdleHandler} \cup [step : Steps, request : Requests]

NoSweep == [step |-> "idle", found |-> {}, locked |-> {}]

Sweeps ==
  [step : {"idle", "locking"}, found : SUBSET Conversations,
   locked : SUBSET Conversations]

Init ==
  /\ now = 1
  /\ sessions = {}
  /\ conversation = [c \in Conversations |-> NoConversation]
  /\ question = [k \in Keys |-> NoQuestion]
  /\ handler = [h \in Handlers |-> IdleHandler]
  /\ sweep = NoSweep

-------------------------------------------------------------------------------
(* ensure_session and create_conversation, one INSERT each *)

EnsureSession(s) ==
  /\ s \notin sessions
  /\ sessions' = sessions \cup {s}
  /\ UNCHANGED <<now, conversation, question, handler, sweep>>

CreateConversation(c, s) ==
  /\ conversation[c] = NoConversation
  /\ s \in sessions
  /\ conversation' = [conversation EXCEPT
       ![c] = [session |-> s, created |-> now, expired |-> FALSE]]
  /\ UNCHANGED <<now, sessions, question, handler, sweep>>

-------------------------------------------------------------------------------
(* submit *)

Moves(h, step) ==
  /\ handler' = [handler EXCEPT ![h] = [step |-> step, request |-> handler[h].request]]
  /\ UNCHANGED <<now, sessions, conversation, question, sweep>>

\* An error response: the transaction ends without a change.
Refuses(h) ==
  /\ handler' = [handler EXCEPT ![h] = IdleHandler]
  /\ UNCHANGED <<now, sessions, conversation, question, sweep>>

\* Variant of AdvisoryLockFree: replicas do not wait for one another.
AdvisoryLockIgnored == TRUE

\* pg_advisory_xact_lock is held to the end of the transaction.
AdvisoryLockFree == \A h \in Handlers : handler[h].step \notin Inside

\* A request begins when it gets the lock: one that waits for it has read
\* nothing.  Any cookie may come with any conversation.
Submit(h, request) ==
  /\ handler[h] = IdleHandler
  /\ AdvisoryLockFree
  /\ handler' = [handler EXCEPT ![h] = [step |-> "authorizing", request |-> request]]
  /\ UNCHANGED <<now, sessions, conversation, question, sweep>>

\* The conversation row is locked by a submission that has read it.
Held(c) ==
  \E h \in Handlers :
    /\ handler[h].step \in Inside \ {"authorizing"}
    /\ handler[h].request.conversation = c

\* SELECT ... FOR UPDATE: waits while another holds the row, then reads it.
\* expired_at is not looked at.
Authorize(h) ==
  LET c == handler[h].request.conversation
  IN  /\ handler[h].step = "authorizing"
      /\ c \notin sweep.locked /\ ~Held(c)
      /\ IF conversation[c].session = handler[h].request.session
         THEN Moves(h, "deduplicating")
         ELSE Refuses(h)

KeyOf(request) == <<request.conversation, request.submission>>

\* Variant of Duplicate: only pending questions are looked up.
DuplicatePending(request) == question[KeyOf(request)].status \in Pending

Duplicate(request) == question[KeyOf(request)].status # "absent"

\* Variant of SameContent: the identifier alone decides.
AnyContent(request) == TRUE

SameContent(request) == question[KeyOf(request)].text = request.text

\* The same submission again returns the question it was accepted as, before
\* any limit is looked at; another text under the same identifier conflicts.
Deduplicate(h) ==
  LET request == handler[h].request
  IN  /\ handler[h].step = "deduplicating"
      /\ IF ~Duplicate(request) THEN Moves(h, "ordering")
         ELSE IF SameContent(request) THEN Moves(h, "accepted")
         ELSE Refuses(h)

PendingKeys == {k \in Keys : question[k].status \in Pending}

\* Variant of Busy: a question that a worker has claimed is overlooked.
BusyWaiting(c) == \E k \in Keys : ConversationOf(k) = c /\ question[k].status = "waiting"

Busy(c) == \E k \in PendingKeys : ConversationOf(k) = c

\* One pending question per conversation.
CheckOrder(h) ==
  /\ handler[h].step = "ordering"
  /\ IF Busy(handler[h].request.conversation) THEN Refuses(h) ELSE Moves(h, "counting")

CountPending(h) ==
  /\ handler[h].step = "counting"
  /\ IF Cardinality(PendingKeys) >= PendingLimit THEN Refuses(h) ELSE Moves(h, "rating")

\* The questions of the session that were accepted within the window.
Recent(s) ==
  {k \in Keys : /\ question[k].status # "absent"
                /\ conversation[ConversationOf(k)].session = s
                /\ question[k].accepted > now - RateWindow}

\* Variant of TooMany: one more than the limit.
OneTooMany(s) == Cardinality(Recent(s)) > RateLimit

TooMany(s) == Cardinality(Recent(s)) >= RateLimit

CheckRate(h) ==
  /\ handler[h].step = "rating"
  /\ IF TooMany(handler[h].request.session) THEN Refuses(h) ELSE Moves(h, "inserting")

\* The two INSERTs and the commit, which makes them visible and frees the
\* locks.  (A row with the same key would break the unique constraint:
\* KeyIsFree says that none is met.)
Insert(h) ==
  LET request == handler[h].request
  IN  /\ handler[h].step = "inserting"
      /\ question[KeyOf(request)].status = "absent"
      /\ question' = [question EXCEPT ![KeyOf(request)] =
           [status |-> "waiting", accepted |-> now, text |-> request.text]]
      /\ handler' = [handler EXCEPT ![h].step = "accepted"]
      /\ UNCHANGED <<now, sessions, conversation, sweep>>

\* The 202 response arrives, or it is lost and the browser will retry.
Respond(h) ==
  /\ handler[h].step = "accepted"
  /\ Refuses(h)

\* The API process dies before the commit: the transaction rolls back.
HandlerCrash(h) ==
  /\ handler[h].step \in Inside
  /\ Refuses(h)

-------------------------------------------------------------------------------
(* What the queue does with an accepted question *)

Claim(k) ==
  /\ question[k].status = "waiting"
  /\ question' = [question EXCEPT ![k].status = "processing"]
  /\ UNCHANGED <<now, sessions, conversation, handler, sweep>>

\* A transient failure or a refused admission.
SetAside(k) ==
  /\ question[k].status = "processing"
  /\ question' = [question EXCEPT ![k].status = "waiting"]
  /\ UNCHANGED <<now, sessions, conversation, handler, sweep>>

\* finish, cancel, expire, or a claim that finds a budget spent.
End(k) ==
  /\ question[k].status \in Pending
  /\ question' = [question EXCEPT ![k].status = "terminal"]
  /\ UNCHANGED <<now, sessions, conversation, handler, sweep>>

-------------------------------------------------------------------------------
(* expire_conversations *)

Old(c) == conversation[c].created < now - RetentionAge

Expirable ==
  {c \in Conversations :
     /\ conversation[c] # NoConversation
     /\ Old(c)
     /\ ~conversation[c].expired
     /\ ~Busy(c)}

\* The SELECT evaluates its conditions in one snapshot, for every row, before
\* it locks the first one.
SweepFinds ==
  /\ sweep = NoSweep
  /\ Expirable # {}
  /\ sweep' = [step |-> "locking", found |-> Expirable, locked |-> {}]
  /\ UNCHANGED <<now, sessions, conversation, question, handler>>

\* FOR UPDATE SKIP LOCKED, oldest first.  A row that was locked and released
\* since the snapshot was not changed by it, so the conditions are not
\* evaluated again.
SweepLocks(c) ==
  /\ sweep.step = "locking"
  /\ c \in sweep.found
  /\ \A d \in sweep.found : conversation[c].created <= conversation[d].created
  /\ Cardinality(sweep.locked) < RetentionBatch
  /\ sweep' = [sweep EXCEPT !.found = @ \ {c},
                            !.locked = IF Held(c) THEN @ ELSE @ \cup {c}]
  /\ UNCHANGED <<now, sessions, conversation, question, handler>>

\* The questions of the locked conversations are deleted, with their work and
\* attempts, and the conversations are marked: all visible at the commit.
SweepCommits ==
  /\ sweep.step = "locking"
  /\ sweep.found = {} \/ Cardinality(sweep.locked) = RetentionBatch
  /\ question' = [k \in Keys |->
       IF ConversationOf(k) \in sweep.locked THEN NoQuestion ELSE question[k]]
  /\ conversation' = [c \in Conversations |->
       [conversation[c] EXCEPT !.expired = @ \/ c \in sweep.locked]]
  /\ sweep' = NoSweep
  /\ UNCHANGED <<now, sessions, handler>>

SweepCrash ==
  /\ sweep.step = "locking"
  /\ sweep' = NoSweep
  /\ UNCHANGED <<now, sessions, conversation, question, handler>>

-------------------------------------------------------------------------------

Tick ==
  /\ now < MaxTime
  /\ now' = now + 1
  /\ UNCHANGED <<sessions, conversation, question, handler, sweep>>

SubmitStep(h) ==
  \/ \E s \in Sessions, body \in Bodies : Submit(h, Request(s, body))
  \/ Authorize(h) \/ Deduplicate(h) \/ CheckOrder(h)
  \/ CountPending(h) \/ CheckRate(h) \/ Insert(h) \/ Respond(h) \/ HandlerCrash(h)

Next ==
  \/ \E s \in Sessions : EnsureSession(s)
  \/ \E c \in Conversations, s \in Sessions : CreateConversation(c, s)
  \/ \E h \in Handlers : SubmitStep(h)
  \/ \E k \in Keys : Claim(k) \/ SetAside(k) \/ End(k)
  \/ SweepFinds \/ (\E c \in Conversations : SweepLocks(c)) \/ SweepCommits \/ SweepCrash
  \/ Tick

Spec == Init /\ [][Next]_vars

-------------------------------------------------------------------------------
(* Properties *)

\* Every table and transaction holds what its columns and steps allow.
TypeOK ==
  /\ now \in Nat \ {0}
  /\ sessions \subseteq Sessions
  /\ conversation \in [Conversations -> ConversationRows]
  /\ question \in [Keys -> QuestionRows]
  /\ handler \in [Handlers -> HandlerStates]
  /\ sweep \in Sweeps

\* A conversation has at most one pending question, whatever replicas its
\* submissions reach at the same time.
OnePending ==
  \A j, k \in PendingKeys : ConversationOf(j) = ConversationOf(k) => j = k

\* The limit on pending questions holds over all replicas.
PendingBudget == Cardinality(PendingKeys) <= PendingLimit

\* No session has more questions accepted within the window than the rate
\* limit allows, over all its conversations and all replicas.
RateBudget == \A s \in Sessions : Cardinality(Recent(s)) <= RateLimit

\* A submission that reaches its INSERT meets no row with its identifier, so
\* two deliveries of one submission never both insert.
KeyIsFree ==
  \A h \in Handlers :
    handler[h].step = "inserting" => question[KeyOf(handler[h].request)].status = "absent"

\* A question is acknowledged only when it is saved with the submitted text,
\* and from then until its conversation expires it stays saved.
AcceptedIsSaved ==
  \A h \in Handlers :
    LET request == handler[h].request IN
      handler[h].step = "accepted" =>
        \/ conversation[request.conversation].expired
        \/ /\ question[KeyOf(request)].status # "absent"
           /\ question[KeyOf(request)].text = request.text

\* What the documents say of retention and the code does not keep: pending
\* work is spared, and an expired conversation has no questions.
RetentionSparesPending ==
  [][\A k \in Keys : question[k].status \in Pending => question'[k].status # "absent"]_vars

ExpiredIsEmpty ==
  \A k \in Keys : conversation[ConversationOf(k)].expired => question[k].status = "absent"
===============================================================================
