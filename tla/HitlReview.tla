----------------------------- MODULE HitlReview -----------------------------
(***************************************************************************)
(* The human review of orders: customer turns that pause an order for a    *)
(* human, the message gateway that queues what the customer writes while a *)
(* pause is open, administrators who decide over REST or over Telegram     *)
(* buttons, the resumed graph run that carries the decision out, and the   *)
(* timeout scheduler that hands a forgotten pause to support.              *)
(*                                                                         *)
(* Every action is one database commit (READ COMMITTED) or one read whose  *)
(* result is used after other transactions may have committed.  What a     *)
(* transaction has written and not committed lives in req[r].              *)
(***************************************************************************)
EXTENDS Naturals, FiniteSets

CONSTANTS
  Session,     \* chat sessions; a session is one LangGraph thread
  Reviewer,    \* review requests that may be in flight at once
  Key,         \* X-Idempotency-Key values REST clients choose
  Msg,         \* customer messages
  SessionOf,   \* the session a message is written in
  MaxPauses,   \* bound: pauses ever opened in a session
  DraftCap,    \* DRAFT_ORDER_CAP_PER_CUSTOMER; a customer has one session here
  Envs         \* the environments to consider, each a subset of Features

Features ==
  { "telegram",   \* decisions also arrive from Telegram buttons
    "edit",       \* administrators send request_edit
    "fail",       \* a resumed run may raise, or its process may die
    "overlap",    \* a customer turn may overlap another run of its thread
    "timeout",    \* pauses may reach the escalation age
    "risk" }      \* the tier of an order may change while it waits

ASSUME SessionOfAssumption == SessionOf \in [Msg -> Session]
ASSUME MaxPausesAssumption == MaxPauses \in Nat
ASSUME DraftCapAssumption == DraftCap \in Nat \ {0}
ASSUME EnvsAssumption == Envs \subseteq SUBSET Features

Index == 1..MaxPauses
Pause == Session \X Index
None == 0                       \* no draft named, no pause bound

Act == {"approve", "reject", "request_edit"}
DecisionKey == Key \cup (Session \X Index \X Act)

PauseStatus == {"none", "paused", "resuming", "approved", "rejected",
                "escalated", "cancelled"}
DraftStatus == {"none", "pending", "confirmed", "cancelled", "superseded"}

\* api/routes/hitl.py:113 and api/webhooks/hitl_callbacks.py:46 ("abandoned"
\* is written by the command-line tool only).
Terminal == {"approved", "rejected", "escalated"}
\* Mutant: the gateway lets a customer through while a human reviews.
BlockingStatusesButPaused == {"resuming", "escalated"}
\* api/dependencies.py:102
BlockingStatuses == {"paused", "resuming", "escalated"}
\* core/agent/nodes/hitl_guard.py:324, core/agent/nodes/cancellation.py:91
Open == {"paused", "resuming"}

VARIABLES
  env,       \* the one of Envs this behaviour happens in
  status,    \* HITLMetadata.status of each pause, "none" before its insert
  made,      \* number of pauses each session has opened; the last is latest
  draft,     \* status of the orders row each pause created
  version,   \* InterruptedSession.version
  rowLock,   \* the request whose open transaction holds that row, or {}
  done,      \* the committed ReviewAction rows
  cp,        \* the newest checkpoint of each session's thread
  direct,    \* sessions with a confirmed orders row that was never a draft
  support,   \* sessions with a SupportQueue row
  msg,       \* where each customer message is
  req        \* the review requests

dbVars == <<env, status, made, draft, direct, version, rowLock, done, support>>
vars == <<env, status, made, draft, direct, version, rowLock, done, cp, support, msg,
          req>>

Decision == [session : Session, idx : Index, act : Act,
             key : DecisionKey, ver : Nat]

\* at: no pending task / an interrupt waits for its resume value / a resumed
\* run has pending tasks / a customer turn has pending tasks.  path, target:
\* what the pending tasks of a resumed run will do and the hitl_pause_id they
\* carry.  held: the draft named by order_info.draft_order_id.
Checkpoint == [at : {"idle", "interrupted", "midrun", "turn"},
               path : {"order", "support"},
               target : 0..MaxPauses, held : 0..MaxPauses]

\* A request in flight: the payload, and what its uncommitted transaction and
\* its resumed run know.  fresh, guarded: inside the resumed guard, before its
\* checkpoint; joined: in a run whose decision is not committed yet.
Request == [pc : {"gate", "readver", "acquire", "locked", "fresh", "guarded",
                  "joined", "running", "finishing"},
            chan : {"rest", "telegram"},
            session : Session, idx : Index,
            act : Act, key : DecisionKey, ver : Nat,
            path : {"order", "support"},
            target : 0..MaxPauses, held : 0..MaxPauses]
NoRequest == [pc |-> "idle"]

MsgState == {"unsent", "enqueue", "queued", "processed",
             "turn", "inserting", "answered"}
-----------------------------------------------------------------------------
(* What the code's queries return.                                          *)

PausesIn(s, S) == {i \in Index : status[<<s, i>>] \in S}
Latest(I) == IF I = {} THEN None ELSE CHOOSE i \in I : \A j \in I : j <= i

\* The gateway's query: is there a pause that keeps the agent out?
Blocked(s) == PausesIn(s, BlockingStatuses) # {}

\* Mutant: the session's oldest draft, whatever its status.
HeldDraftOldest(s) ==
  LET D == {i \in Index : draft[<<s, i>>] # "none"}
  IN IF cp[s].held # None \/ D = {} THEN cp[s].held
     ELSE CHOOSE i \in D : \A j \in D : i <= j

\* The draft order_execution and the reject branch use: the one the
\* checkpointed order_info names, or else the newest pending one.
HeldDraft(s) ==
  IF cp[s].held # None THEN cp[s].held
  ELSE Latest({i \in Index : draft[<<s, i>>] = "pending"})

QueuedIn(s) == {m \in Msg : SessionOf[m] = s /\ msg[m] = "queued"}

KeyUsed(k) == \E d \in done : d.key = k

At(r, pc, s) == req[r].pc = pc /\ req[r].session = s
Resumed == {"fresh", "guarded", "joined", "running", "finishing"}
Running(s) == \E r \in Reviewer, pc \in Resumed : At(r, pc, s)
InTurn(s) == \E m \in Msg : /\ SessionOf[m] = s
                            /\ msg[m] \in {"turn", "inserting"}

Idle == [at |-> "idle", path |-> "order", target |-> None, held |-> None]
Interrupted(h) == [Idle EXCEPT !.at = "interrupted", !.held = h]
Turn == [Idle EXCEPT !.at = "turn"]

Unlocked(s) == rowLock[s] = {}
Unlock(s) == rowLock' = [rowLock EXCEPT ![s] = {}]

Goto(r, pc) == req' = [req EXCEPT ![r].pc = pc]
Leave(r) == req' = [req EXCEPT ![r] = NoRequest]

\* The pauses of session s whose status is in S move to status t.
Restatus(s, S, t) ==
  [p \in Pause |-> IF p[1] = s /\ status[p] \in S THEN t ELSE status[p]]
-----------------------------------------------------------------------------
Init ==
  /\ env \in Envs
  /\ status = [p \in Pause |-> "none"]
  /\ made = [s \in Session |-> 0]
  /\ draft = [p \in Pause |-> "none"]
  /\ version = [s \in Session |-> 0]
  /\ rowLock = [s \in Session |-> {}]
  /\ done = {}
  /\ cp = [s \in Session |-> Idle]
  /\ direct = {}
  /\ support = {}
  /\ msg = [m \in Msg |-> "unsent"]
  /\ req = [r \in Reviewer |-> NoRequest]
-----------------------------------------------------------------------------
(* Customer messages: the gateway, and the turn of a message it lets in.    *)

\* check_paused_session reads the newest blocking pause; the message is then
\* queued in a later transaction, or a turn starts on a new checkpoint.
Gateway(m) ==
  LET s == SessionOf[m] IN
  /\ msg[m] = "unsent"
  /\ IF Blocked(s)
     THEN msg' = [msg EXCEPT ![m] = "enqueue"] /\ UNCHANGED cp
     ELSE /\ "overlap" \in env \/ ~(Running(s) \/ InTurn(s))
          /\ msg' = [msg EXCEPT ![m] = "turn"]
          /\ cp' = [cp EXCEPT ![s] = Turn]
  /\ UNCHANGED <<dbVars, req>>

Enqueue(m) ==
  /\ msg[m] = "enqueue"
  /\ msg' = [msg EXCEPT ![m] = "queued"]
  /\ UNCHANGED <<dbVars, cp, req>>

\* The turn ends with a reply and no pause ...
TurnEnds(m) ==
  /\ msg[m] = "turn"
  /\ msg' = [msg EXCEPT ![m] = "answered"]
  /\ cp' = [cp EXCEPT ![SessionOf[m]] = Idle]
  /\ UNCHANGED <<env, made, version, rowLock, done, req>>

\* ... an answer, a hand-over to support, or an order of the lowest tier.
TurnAnswer(m) ==
  /\ TurnEnds(m)
  /\ UNCHANGED <<status, draft, direct, support>>
TurnSupport(m) ==
  /\ TurnEnds(m)
  /\ support' = support \cup {SessionOf[m]}
  /\ UNCHANGED <<status, draft, direct>>
TurnOrder(m) ==
  /\ TurnEnds(m)
  /\ direct' = direct \cup {SessionOf[m]}
  /\ UNCHANGED <<status, draft, support>>

\* cancellation_node, when no order of the session is confirmed: what is open
\* is cancelled.
Cancel(s) ==
  /\ s \notin direct /\ \A i \in Index : draft[<<s, i>>] # "confirmed"
  /\ draft' = [p \in Pause |-> IF p[1] = s /\ draft[p] = "pending"
                                THEN "cancelled" ELSE draft[p]]
  /\ status' = Restatus(s, Open, "cancelled")
TurnCancel(m) ==
  /\ TurnEnds(m)
  /\ Cancel(SessionOf[m])
  /\ UNCHANGED <<direct, support>>

\* The turn reaches hitl_guard_node and must pause: _persist_pause looks for an
\* open pause, and reuses the one it finds.
TurnLookup(m) ==
  LET s == SessionOf[m] IN
  /\ msg[m] = "turn"
  /\ IF PausesIn(s, Open) # {}
     THEN /\ msg' = [msg EXCEPT ![m] = "answered"]
          /\ cp' = [cp EXCEPT ![s] = Interrupted(None)]
     ELSE msg' = [msg EXCEPT ![m] = "inserting"] /\ UNCHANGED cp
  /\ UNCHANGED <<dbVars, req>>

\* The rows of a fresh pause of s: the pause, the draft d it creates, and the
\* upsert of InterruptedSession, which leaves the version as it is.
OpenPause(s, drafts, d) ==
  LET i == made[s] + 1 IN
  /\ i <= MaxPauses
  /\ made' = [made EXCEPT ![s] = i]
  /\ status' = [status EXCEPT ![<<s, i>>] = "paused"]
  /\ draft' = [drafts EXCEPT ![<<s, i>>] = d]
\* The upsert's effect on the version row.
UpsertVersion(s, v) == v

\* What create_draft has read as the active drafts of s: of those that are no
\* longer pending when it flips the oldest, a run U of the session that has not
\* ended yet has confirmed one meanwhile.
ReadActive(s, h, U) ==
  LET Since == {i \in Index : /\ draft[<<s, i>>] = "confirmed"
                              /\ \E u \in U : At(u, "finishing", s) /\ req[u].held = i}
  IN {({i \in Index : draft[<<s, i>>] = "pending"} \cup C) \ {h} : C \in SUBSET Since}
Overflow(A) == {i \in A : Cardinality({j \in A : j < i}) + DraftCap <= Cardinality(A)}

\* create_draft flips the draft it replaces if it is active, and the oldest
\* beyond the cap by their ids.
Superseding(s, h, A) ==
  [p \in Pause |-> IF /\ p[1] = s
                      /\ p[2] \in Overflow(A) \/ (p[2] = h /\ draft[p] = "pending")
                   THEN "superseded" ELSE draft[p]]

\* A pause of s, on a draft that replaces h.
OpenDrafted(s, h, U) ==
  \E A \in ReadActive(s, h, U) : OpenPause(s, Superseding(s, h, A), "pending")

\* ... and otherwise inserts a pause of its own, commits and interrupts.
TurnInsert(m) ==
  LET s == SessionOf[m] IN
  /\ msg[m] = "inserting"
  /\ Unlocked(s)              \* the upsert waits for the row's lock holder
  /\ OpenDrafted(s, None, Reviewer)
  /\ version' = [version EXCEPT ![s] = UpsertVersion(s, @)]
  /\ msg' = [msg EXCEPT ![m] = "answered"]
  /\ cp' = [cp EXCEPT ![s] = Interrupted(None)]
  /\ UNCHANGED <<env, rowLock, done, support, req, direct>>
-----------------------------------------------------------------------------
(* A review request, up to the transaction that holds the version row.      *)

NewRequest(pc, chan, s, i, a, k, v) ==
  [pc |-> pc, chan |-> chan, session |-> s, idx |-> i, act |-> a, key |-> k,
   ver |-> v, path |-> "order", target |-> None, held |-> None]

\* A REST client sends a pause and a version it has read at some time; a retry
\* sends the same payload again.
SubmitRest(r, s, i, a, k, v) ==
  /\ req[r].pc = "idle"
  /\ i <= made[s] /\ v <= version[s]
  /\ a = "request_edit" => "edit" \in env
  /\ req' = [req EXCEPT ![r] = NewRequest("gate", "rest", s, i, a, k, v)]
  /\ UNCHANGED <<dbVars, cp, msg>>

\* A button of any card still in the administrators' chat; the key is made of
\* the pause and the action.
TapButton(r, s, i, a) ==
  /\ "telegram" \in env
  /\ req[r].pc = "idle"
  /\ i <= made[s] /\ a # "request_edit"
  /\ req' = [req EXCEPT ![r] =
                NewRequest("gate", "telegram", s, i, a, <<s, i, a>>, 0)]
  /\ UNCHANGED <<dbVars, cp, msg>>

\* Mutant: no look at the status of the pause.
GateKeyOnly(r) ==
  LET q == req[r] IN
  /\ q.pc = "gate"
  /\ IF q.chan = "rest" /\ KeyUsed(q.key)
     THEN Leave(r)
     ELSE Goto(r, IF q.chan = "rest" THEN "acquire" ELSE "readver")
  /\ UNCHANGED <<dbVars, cp, msg>>

\* The terminal-status gate, after the key look-up of the REST route.
Gate(r) ==
  LET q == req[r] IN
  /\ q.pc = "gate"
  /\ IF \/ q.chan = "rest" /\ KeyUsed(q.key)
        \/ status[<<q.session, q.idx>>] \in Terminal
     THEN Leave(r)
     ELSE Goto(r, IF q.chan = "rest" THEN "acquire" ELSE "readver")
  /\ UNCHANGED <<dbVars, cp, msg>>

\* _expected_version: the version of now, not the one the card was sent at.
ReadVersion(r) ==
  /\ req[r].pc = "readver"
  /\ req' = [req EXCEPT ![r].pc = "acquire", ![r].ver = version[req[r].session]]
  /\ UNCHANGED <<dbVars, cp, msg>>

\* process_*: the key look-up, then UPDATE ... WHERE version = expected.
Replayed(r) == req[r].pc = "acquire" /\ KeyUsed(req[r].key)
Conflict(r) == /\ req[r].pc = "acquire" /\ ~KeyUsed(req[r].key)
               /\ version[req[r].session] # req[r].ver

\* An idempotent hit, a 409, or a failed state_edits validation.
TurnedAway(r) ==
  /\ \/ Replayed(r)
     \/ Conflict(r)
  /\ Leave(r)
  /\ UNCHANGED <<dbVars, cp, msg>>

\* Mutant: UPDATE without the version in its WHERE.
TakeLockAnyVersion(r) ==
  LET s == req[r].session IN
  /\ req[r].pc = "acquire" /\ ~KeyUsed(req[r].key)
  /\ Unlocked(s)
  /\ rowLock' = [rowLock EXCEPT ![s] = {r}]
  /\ Goto(r, "locked")
  /\ UNCHANGED <<env, status, made, draft, version, done, cp, support, msg, direct>>

\* The UPDATE finds the expected version, waiting for a lock holder if need be.
TakeLock(r) ==
  LET s == req[r].session IN
  /\ req[r].pc = "acquire" /\ ~KeyUsed(req[r].key)
  /\ Unlocked(s) /\ version[s] = req[r].ver
  /\ rowLock' = [rowLock EXCEPT ![s] = {r}]
  /\ Goto(r, "locked")
  /\ UNCHANGED <<env, status, made, draft, version, done, cp, support, msg, direct>>

\* Mutant: the transaction is left open.
RollbackForgotten(r) ==
  LET q == req[r] IN
  /\ q.pc = "locked"
  /\ "fail" \in env \/ KeyUsed(q.key) \/ q.act = "request_edit"
  /\ Leave(r)
  /\ UNCHANGED <<dbVars, cp, msg>>

\* Before anything is committed: the unique key is taken meanwhile, the edits
\* are invalid, or something raises; the transaction is rolled back.
Rollback(r) ==
  LET q == req[r] IN
  /\ q.pc = "locked"
  /\ "fail" \in env \/ KeyUsed(q.key) \/ q.act = "request_edit"
  /\ Unlock(q.session)
  /\ Leave(r)
  /\ UNCHANGED <<env, status, made, draft, version, done, cp, support, msg, direct>>
-----------------------------------------------------------------------------
(* The commit of a decision, and the resumed run it starts.                 *)

Entry(q) == [session |-> q.session, idx |-> q.idx, act |-> q.act,
             key |-> q.key, ver |-> q.ver]

\* The transaction of r commits its ReviewAction and the version it bumped.
CommitDecision(r) ==
  LET q == req[r] IN
  /\ ~KeyUsed(q.key)
  /\ done' = done \cup {Entry(q)}
  /\ version' = [version EXCEPT ![q.session] = @ + 1]
  /\ Unlock(q.session)

Resume(r, pc, path, target, held) ==
  req' = [req EXCEPT ![r].pc = pc, ![r].path = path,
                     ![r].target = target, ![r].held = held]
RunCheckpoint(r, path, target, held) ==
  cp' = [cp EXCEPT ![req[r].session] =
           [at |-> "midrun", path |-> path, target |-> target, held |-> held]]

\* A decision whose interrupt still waits: hitl_guard_node runs again from its
\* start, with the decision in its uncommitted transaction.
Reruns(r, act) ==
  req[r].pc = "locked" /\ req[r].act = act /\ cp[req[r].session].at = "interrupted"

\* The guard finds the newest open pause (the decided one is "resuming" in this
\* transaction), and commits it approved.
ResumeApprove(r) ==
  LET q == req[r]
      s == q.session
      p == Latest(PausesIn(s, Open) \cup {q.idx})
  IN
  /\ Reruns(r, "approve")
  /\ CommitDecision(r)
  /\ status' = [status EXCEPT ![<<s, q.idx>>] = "resuming",
                              ![<<s, p>>] = "approved"]
  /\ Resume(r, "guarded", "order", p, HeldDraft(s))
  /\ UNCHANGED <<env, made, draft, cp, support, msg, direct>>

\* A rejection leaves the status alone; the guard cancels the draft by its id
\* and commits ...
ResumeReject(r) ==
  LET q == req[r]
      s == q.session
      p == Latest(PausesIn(s, Open))
      h == HeldDraft(s)
  IN
  /\ Reruns(r, "reject") /\ p # None /\ h # None
  /\ CommitDecision(r)
  /\ draft' = [draft EXCEPT ![<<s, h>>] = "cancelled"]
  /\ Resume(r, "guarded", "support", p, h)
  /\ UNCHANGED <<env, status, made, cp, support, msg, direct>>

\* ... or, with no draft at hand, commits nothing.
ResumeRejectNoDraft(r) ==
  LET s == req[r].session
      p == Latest(PausesIn(s, Open))
  IN
  /\ Reruns(r, "reject") /\ p # None /\ HeldDraft(s) = None
  /\ Resume(r, "joined", "support", p, None)
  /\ RunCheckpoint(r, "support", p, None)
  /\ UNCHANGED <<dbVars, msg>>

\* No pause is open any more (the scheduler escalated it): the guard takes the
\* resume for a fresh trigger and opens a pause, which it then rejects.
ResumeRejectFresh(r) ==
  LET q == req[r]
      s == q.session
      i == made[s] + 1
  IN
  /\ Reruns(r, "reject") /\ PausesIn(s, Open) = {}
  /\ CommitDecision(r)
  /\ OpenDrafted(s, cp[s].held, Reviewer \ {r})
  /\ Resume(r, "fresh", "support", i, i)
  /\ UNCHANGED <<env, cp, support, msg, direct>>
RejectFresh(r) ==
  LET q == req[r] IN
  /\ q.pc = "fresh"
  /\ draft' = [draft EXCEPT ![<<q.session, q.held>>] = "cancelled"]
  /\ Goto(r, "guarded")
  /\ UNCHANGED <<env, status, made, version, rowLock, done, cp, support, msg, direct>>

\* The checkpoint of the guard.
GuardCheckpoint(r) ==
  LET q == req[r] IN
  /\ q.pc = "guarded"
  /\ RunCheckpoint(r, q.path, q.target, q.held)
  /\ Goto(r, "running")
  /\ UNCHANGED <<dbVars, msg>>

\* Before the guard reads the decision it works out the tier again: by now the
\* order may be one that is placed without review, or one for support.
ResumeUnread(r, path) ==
  LET c == cp[req[r].session] IN
  /\ "risk" \in env
  /\ Reruns(r, "approve") \/ Reruns(r, "reject")
  /\ Resume(r, "joined", path, None, c.held)
  /\ RunCheckpoint(r, path, None, c.held)
  /\ UNCHANGED <<dbVars, msg>>

\* The thread's newest checkpoint belongs to another resumed run: ainvoke takes
\* up that run's pending tasks, and the resume value reaches nobody.
JoinRun(r) ==
  LET q == req[r]
      c == cp[q.session]
  IN
  /\ q.pc = "locked" /\ q.act # "request_edit" /\ c.at = "midrun"
  /\ Resume(r, "joined", c.path, c.target, c.held)
  /\ UNCHANGED <<dbVars, cp, msg>>

\* The first commit of a run takes a decision along that is not committed yet ...
FirstCommit(r) ==
  LET q == req[r] IN
  /\ q.pc = "joined"
  /\ CommitDecision(r)
  /\ status' = IF q.act = "approve"
               THEN [status EXCEPT ![<<q.session, q.idx>>] = "resuming"]
               ELSE status
  /\ Goto(r, "running")
  /\ UNCHANGED <<env, made, draft, cp, support, msg, direct>>

\* ... but the roll-back of an order that fails takes it back, and what the
\* queue_consumer wrote with it; the run goes on to support.
LoseDecision(r) ==
  LET q == req[r] IN
  /\ q.pc = "joined" /\ q.path = "order"
  /\ Unlock(q.session)
  /\ Resume(r, "running", "support", q.target, q.held)
  /\ RunCheckpoint(r, "support", q.target, q.held)
  /\ UNCHANGED <<env, status, made, draft, version, done, support, msg, direct>>

Verdict(act) == IF act = "approve" THEN "approved" ELSE "rejected"

\* No interrupt is pending: ainvoke returns at once, the verdict is recorded.
DecideWithoutRun(r) ==
  LET q == req[r] IN
  /\ q.pc = "locked" /\ q.act # "request_edit" /\ cp[q.session].at \in {"idle", "turn"}
  /\ CommitDecision(r)
  /\ status' = [status EXCEPT ![<<q.session, q.idx>>] = Verdict(q.act)]
  /\ Leave(r)
  /\ UNCHANGED <<env, made, draft, cp, support, msg, direct>>

\* aupdate_state(as_node = hitl_guard_node): a new checkpoint with no pending
\* task; the pause keeps its status.
ApplyEdit(r) ==
  LET q == req[r] IN
  /\ q.pc = "locked" /\ q.act = "request_edit"
  /\ CommitDecision(r)
  /\ cp' = [cp EXCEPT ![q.session] = [Idle EXCEPT !.held = cp[q.session].held]]
  /\ Leave(r)
  /\ UNCHANGED <<env, status, made, draft, support, msg, direct>>
-----------------------------------------------------------------------------
(* The rest of a resumed run, in one step: what it committed and the last   *)
(* checkpoint it wrote.                                                      *)

OnPath(r, path) == req[r].pc = "running" /\ req[r].path = path
LastCheckpoint(r, c) == cp' = [cp EXCEPT ![req[r].session] = c]

\* queue_consumer_node takes what is queued.
Drain(s) == msg' = [m \in Msg |-> IF m \in QueuedIn(s) THEN "processed" ELSE msg[m]]

\* order_execution_node confirms the draft order_info names ...
RunExecute(r) ==
  LET q == req[r]
      d == <<q.session, q.held>>
  IN
  /\ OnPath(r, "order")
  /\ q.held # None /\ draft[d] = "pending"
  /\ draft' = [draft EXCEPT ![d] = "confirmed"]
  /\ Drain(q.session)
  /\ LastCheckpoint(r, [Idle EXCEPT !.held = q.held])
  /\ Goto(r, "finishing")
  /\ UNCHANGED <<env, status, made, version, rowLock, done, support, direct>>

\* ... or, when it names none, inserts an order of its own.
RunInsertOrder(r) ==
  LET q == req[r] IN
  /\ OnPath(r, "order") /\ q.held = None
  /\ direct' = direct \cup {q.session}
  /\ Drain(q.session)
  /\ LastCheckpoint(r, Idle)
  /\ Goto(r, "finishing")
  /\ UNCHANGED <<env, status, made, draft, version, rowLock, done, support>>

\* The run answers without an order: the draft is no longer active, or the
\* price moved and hitl_guard_node lets an approved state pass to the answer.
RunNoOrder(r) ==
  LET q == req[r] IN
  /\ OnPath(r, "order")
  /\ Drain(q.session)
  /\ LastCheckpoint(r, [Idle EXCEPT !.held = q.held])
  /\ Goto(r, "finishing")
  /\ UNCHANGED dbVars

\* The customer cancelled while the order was under review.
RunCancel(r) ==
  LET q == req[r]
      s == q.session
  IN
  /\ OnPath(r, "order") /\ QueuedIn(s) # {}
  /\ Cancel(s)
  /\ Drain(s)
  /\ LastCheckpoint(r, [Idle EXCEPT !.held = q.held])
  /\ Goto(r, "finishing")
  /\ UNCHANGED <<env, made, version, rowLock, done, support, direct>>

\* The customer changed the order: a fresh pause.  A changed quantity or price
\* keeps order_info, and with it the id of the draft it supersedes; another
\* product gives an order_info with no draft.
RunRepause(r, keep) ==
  LET q == req[r]
      s == q.session
      h == IF keep THEN q.held ELSE None
  IN
  /\ OnPath(r, "order") /\ QueuedIn(s) # {} /\ PausesIn(s, Open) = {}
  /\ Unlocked(s)
  /\ OpenDrafted(s, h, Reviewer \ {r})
  /\ version' = [version EXCEPT ![s] = UpsertVersion(s, @)]
  /\ Drain(s)
  /\ LastCheckpoint(r, Interrupted(h))
  /\ Goto(r, "finishing")
  /\ UNCHANGED <<env, rowLock, done, support, direct>>

\* ... or the open pause hitl_guard_node finds instead of opening one.
RunReuse(r, keep) ==
  LET q == req[r]
      s == q.session
  IN
  /\ OnPath(r, "order") /\ QueuedIn(s) # {} /\ PausesIn(s, Open) # {}
  /\ Drain(s)
  /\ LastCheckpoint(r, Interrupted(IF keep THEN q.held ELSE None))
  /\ Goto(r, "finishing")
  /\ UNCHANGED dbVars

\* customer_support_node: the pause the run carries, if any, is escalated.
RunSupport(r) ==
  LET q == req[r]
      s == q.session
  IN
  /\ q.pc = "running"
  /\ status' = [p \in Pause |-> IF p = <<s, q.target>> THEN "escalated" ELSE status[p]]
  /\ support' = support \cup {s}
  /\ IF q.path = "order" THEN Drain(s) ELSE UNCHANGED msg
  /\ LastCheckpoint(r, [Idle EXCEPT !.held = q.held])
  /\ Goto(r, "finishing")
  /\ UNCHANGED <<env, made, draft, version, rowLock, done, direct>>

\* The change would be one pause too many: support, and no pause to escalate.
RunMaxed(r) ==
  LET q == req[r] IN
  /\ OnPath(r, "order") /\ QueuedIn(q.session) # {}
  /\ support' = support \cup {q.session}
  /\ Drain(q.session)
  /\ LastCheckpoint(r, [Idle EXCEPT !.held = q.held])
  /\ Goto(r, "finishing")
  /\ UNCHANGED <<env, status, made, draft, version, rowLock, done, direct>>

\* process_approve and process_reject set the decided pause's status last.
Finish(r) ==
  LET q == req[r] IN
  /\ q.pc = "finishing"
  /\ status' = [status EXCEPT ![<<q.session, q.idx>>] = Verdict(q.act)]
  /\ Leave(r)
  /\ UNCHANGED <<env, made, draft, version, rowLock, done, cp, support, msg, direct>>

\* The run raises, its process dies, or the unique key is taken meanwhile: the
\* transaction is rolled back with the request's session, the "paused" that
\* process_approve writes included; what the guard committed stays.
Abort(r) ==
  LET q == req[r] IN
  /\ q.pc \in Resumed
  /\ "fail" \in env \/ (q.pc = "joined" /\ KeyUsed(q.key))
  /\ IF q.pc = "joined" THEN Unlock(q.session) ELSE UNCHANGED rowLock
  /\ Leave(r)
  /\ UNCHANGED <<env, status, made, draft, direct, version, done, support, cp, msg>>
-----------------------------------------------------------------------------
\* escalate_to_support: every paused row of the session.
Escalate(s) ==
  /\ "timeout" \in env
  /\ PausesIn(s, {"paused"}) # {}
  /\ status' = Restatus(s, {"paused"}, "escalated")
  /\ support' = support \cup {s}
  /\ UNCHANGED <<env, made, draft, version, rowLock, done, cp, msg, req, direct>>

Turns(m) == \/ TurnAnswer(m) \/ TurnSupport(m) \/ TurnOrder(m) \/ TurnCancel(m)
            \/ TurnLookup(m) \/ TurnInsert(m)
Customer(m) == \/ Gateway(m) \/ Enqueue(m)
               \/ Turns(m)

Client(r) ==
  \/ \E s \in Session, i \in Index, a \in Act, k \in Key :
       \E v \in 0..version[s] : SubmitRest(r, s, i, a, k, v)
  \/ \E s \in Session, i \in Index, a \in Act : TapButton(r, s, i, a)

Transaction(r) ==
  \/ Gate(r) \/ ReadVersion(r) \/ TurnedAway(r) \/ TakeLock(r) \/ Rollback(r)
  \/ ResumeApprove(r) \/ ResumeReject(r) \/ ResumeRejectNoDraft(r)
  \/ ResumeRejectFresh(r) \/ \E path \in {"order", "support"} : ResumeUnread(r, path)
  \/ JoinRun(r) \/ DecideWithoutRun(r) \/ ApplyEdit(r)

ResumedRun(r) ==
  \/ RejectFresh(r) \/ GuardCheckpoint(r) \/ FirstCommit(r) \/ LoseDecision(r)
  \/ RunExecute(r) \/ RunInsertOrder(r) \/ RunNoOrder(r) \/ RunCancel(r)
  \/ \E keep \in BOOLEAN : RunRepause(r, keep) \/ RunReuse(r, keep)
  \/ RunSupport(r) \/ RunMaxed(r) \/ Finish(r) \/ Abort(r)

Next ==
  \/ \E m \in Msg : Customer(m)
  \/ \E r \in Reviewer : Client(r) \/ Transaction(r) \/ ResumedRun(r)
  \/ \E s \in Session : Escalate(s)

Spec == Init /\ [][Next]_vars

\* The event loop runs what is ready, PostgreSQL hands a row lock to its waiters
\* in turn, and the scheduler polls every minute; whether customers write and
\* administrators decide is up to them.
Fairness ==
  /\ \A m \in Msg : /\ WF_vars(Enqueue(m))
                     /\ WF_vars(Turns(m))
  /\ \A r \in Reviewer : SF_vars(Transaction(r)) /\ WF_vars(ResumedRun(r))
  /\ \A s \in Session : WF_vars(Escalate(s))
LiveSpec == Spec /\ Fairness
-----------------------------------------------------------------------------
(* Properties.                                                               *)

\* Every variable keeps the shape the schema and the checkpointer give it, and
\* a version row is locked by a request that is between its UPDATE and commit.
TypeOK ==
  /\ env \in Envs
  /\ status \in [Pause -> PauseStatus]
  /\ made \in [Session -> 0..MaxPauses]
  /\ draft \in [Pause -> DraftStatus]
  /\ version \in [Session -> Nat]
  /\ rowLock \in [Session -> SUBSET Reviewer]
  /\ done \subseteq Decision
  /\ cp \in [Session -> Checkpoint]
  /\ direct \subseteq Session
  /\ support \subseteq Session
  /\ msg \in [Msg -> MsgState]
  /\ req \in [Reviewer -> Request \cup {NoRequest}]

DecisionsOf(s) == {d \in done : d.session = s}

\* The optimistic lock of _increment_version, with an upsert that keeps the
\* version across pauses, numbers the decisions of a session 0, 1, 2, ...: no
\* two concurrent decisions take the same version, and none is lost.
DecisionsNumbered ==
  \A s \in Session :
    /\ {d.ver : d \in DecisionsOf(s)} = 0..(version[s] - 1)
    /\ \A d, e \in DecisionsOf(s) : d.ver = e.ver => d = e

\* The review implements the log of decisions: whatever else happens, a commit
\* appends one decision at the current version under a fresh key.
Log == INSTANCE DecisionLog WITH done <- done, version <- version
LogSpec == Log!Spec

\* An idempotency key buys at most one decision, whoever retries it and
\* whatever happened to the session in between.
KeyDecidesOnce == \A d, e \in done : d.key = e.key => d = e

Decided(p, act) == \E d \in done : <<d.session, d.idx>> = p /\ d.act = act

\* What the code does not enforce: a session has one run at a time, and an order
\* keeps its tier while it waits.  A run that went past its decision unread
\* leaves its pause open, and may break off at any point.
Steady == "overlap" \notin env /\ "risk" \notin env

\* A rejection of s may have broken off between its withdrawal of the draft and
\* the checkpoint: an approval of what it left then takes an older draft.
RejectionBroke(s) == "fail" \in env /\ \E i \in Index : Decided(<<s, i>>, "reject")

\* A drafted order is confirmed only if an administrator approved the very pause
\* it was reviewed under, not another pause of the same customer; unless a
\* rejection of the session may have broken off.
OrderWasApproved ==
  Steady =>
    \A s \in Session, i \in Index :
      draft[<<s, i>>] = "confirmed" => Decided(<<s, i>>, "approve") \/ RejectionBroke(s)

\* A confirmed order is never cancelled or superseded by the review of another
\* pause, a later draft, a cancellation or a run that broke off, as long as a
\* session has one run at a time.
ConfirmedStays ==
  [][\A p \in Pause : "overlap" \notin env /\ draft[p] = "confirmed" =>
                       draft'[p] = "confirmed"]_vars

InFlight(s) == Running(s) \/ InTurn(s)

Resumable(s, i) ==
  status[<<s, i>>] = "paused" /\ ~InFlight(s) => cp[s].at \in {"interrupted", "midrun"}

\* A pause that waits for a human, and that nobody edited, can be decided: when
\* nothing runs in its session, the thread has an interrupt for the decision to
\* resume, or the tasks of a run that broke off.
PausedResumable ==
  Steady =>
    \A s \in Session, i \in Index :
      Decided(<<s, i>>, "request_edit") \/ Resumable(s, i)

\* Nor does an edit take the interrupt away.
EditedResumable == \A s \in Session, i \in Index : Resumable(s, i)

\* A run that broke off leaves a pause that can be reviewed again.
BrokenRunReviewable ==
  \A s \in Session :
    cp[s].at = "midrun" /\ ~InFlight(s) => status[<<s, cp[s].target>>] = "paused"

\* The draft of a pause somebody rejected is not confirmed.
RejectedNotOrdered ==
  \A p \in Pause : Decided(p, "reject") => draft[p] # "confirmed"

\* A drafted order is confirmed only under the very pause an administrator
\* approved, whatever else was decided or broke off.
ApprovedAlways ==
  Steady =>
    \A s \in Session, i \in Index :
      draft[<<s, i>>] = "confirmed" => Decided(<<s, i>>, "approve")

\* A pause gets one verdict: it is not both approved and rejected.
OneVerdict ==
  \A p \in Pause : ~(Decided(p, "approve") /\ Decided(p, "reject"))

\* No decision is committed on a pause that is already with support.
NoDecisionOnEscalated ==
  [][\A d \in done' \ done : status[<<d.session, d.idx>>] # "escalated"]_vars

\* Every request ends: no transaction waits for ever on the version row.
RequestsEnd == \A r \in Reviewer : req[r].pc # "idle" ~> req[r].pc = "idle"

\* Every message the gateway queued is taken up by a run, or a support agent
\* has the session.
QueuedTakenUp ==
  \A m \in Msg : msg[m] = "queued" ~>
                    msg[m] = "processed" \/ SessionOf[m] \in support
=============================================================================
