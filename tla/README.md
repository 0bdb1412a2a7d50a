# Verification of the sales agent

TLA+ models of the sales agent in this repository: a LangGraph agent that answers
customers, takes orders, pauses risky ones for a human, remembers customers, and
degrades when its language models do. The models follow the Python code. The
configurations model-check them with TLC on small instances; the modules called
`*_proofs` hold theorems TLAPS checks for every value of the constants (`Turns_proofs`
those about `AgentGraph` and `TelegramTurns`).

`PROJECT.json` lists the runs, the lines of code each definition translates, a mutant
(a plausible bug) that each property catches, the hazards, and the theorems.

    tlc -workers 2 -config HitlReview_rest.cfg MCHitlReview.tla
    tlapm HitlReview_proofs.tla

## Inventory

Paths are relative to `src/`.

| Component | Where | State it keeps | Operations | Hard behaviour | What makes it correct | Module |
|---|---|---|---|---|---|---|
| Human review of orders | `services/hitl/service.py`, `api/routes/hitl.py`, `api/webhooks/hitl_callbacks.py`, `core/agent/nodes/hitl_guard.py`, `api/dependencies.py` | `hitl_metadata`, `interrupted_sessions.version`, `review_actions`, `queued_messages`, the thread's checkpoint | pause, approve, reject, request_edit, queue a message, escalate | concurrent administrators, retries under one key, a run that fails after it committed, messages against the drain | decisions are serialised and numbered, a key decides once, what is placed was approved and stays, a pause can be resumed, every request ends | `HitlReview`, `DecisionLog` |
| Draft orders and stock | `services/draft_orders.py`, `core/agent/nodes/order_execution.py`, `core/agent/nodes/cancellation.py` | `orders`, `products.stock_quantity` | create (cap, supersede), confirm, cancel, reject, expire | sessions of one customer side by side, check in one statement and write in another, locks in opposite orders | stock is conserved, a row is placed once, the cap holds, withdrawn terms are not placed | `DraftOrders` |
| Order pipeline | `core/agent/nodes/` (`hitl_guard`, `queue_consumer`, `state_freshness`, `order_execution`, `customer_support`), `core/agent/hitl_risk.py`, `core/agent/queue_intents.py`, `core/agent/order_slots.py` | `order_info`, `pending_order`, `hitl_approved`, `hitl_escalation_count` in the checkpoint | park for a contact, pause, let pass, drain the queue, check freshness, place, withdraw, hand over | a guard that runs again from its start on resume; prices, stock and risk that move meanwhile; what the customer writes meanwhile | a changed order is judged again, nobody's order is placed without a contact, every turn ends | `OrderPipeline` |
| Timeout scheduler | `services/hitl/timeout_scheduler.py` | `timeout_notified_at`, `support_queue` | warn at 30 minutes, hand over at 60 | every API worker runs the loop; messages sent before commits; reviews decided meanwhile | hand-overs are whole and take no review a decision holds, nobody is forgotten | `TimeoutScheduler` |
| Telegram ingress | `api/webhooks/telegram.py`, `core/telegram/*`, `services/telegram_service.py` | `telegram_updates`, a semaphore, tasks, `queued_messages` | de-duplicate, acknowledge, process in the background, put off | redelivery, a restart after the acknowledgement, saturation, reviews that begin and end meanwhile | a recorded update is replied to, slots are returned, a queued message is read | `TelegramTurns` |
| Agent graph and routing | `core/agent/graph.py`, `core/agent/nodes/*`, `core/agent/intent_transitions.py`, `core/agent/state.py` | the channels of `AgentState`, some of which outlive a turn | thirteen nodes, each with edges and `Command`s | static edges beside `Command(goto=...)`: two chains of one turn in the same super-steps | one order a turn, told to the customer; a question is not answered with a question; a turn ends | `AgentGraph` |
| Language-model gateway and answers | `services/resilience.py`, `services/ai.py`, `services/costs.py`, `core/agent/nodes/answer.py`, `core/agent/answer_support.py`, `core/agent/tool_loop.py` | cool-downs, the daily token counter, rows flushed in a turn's session | choose a model, fall back, cool down, use tools, check, regenerate, degrade | concurrent turns that meet a rate limit, the budget or each other's row locks | every message is replied to, a degraded turn leaves its support row | `AnswerTurns` |
| Semantic cache | `services/semantic_cache.py` | `semantic_cache` | look up, write, expire, invalidate | a turn that answers from what it read before the products changed | no answer from before a change | `AnswerCache`, `AnswerTurns` |
| Retrieval | `services/rag/*`, `core/agent/nodes/retrieval.py` | none of its own | search, split a question, rewrite, check groundedness | which key and which products an answer is filed under | an answer is filed under what it answers | `AnswerTurns`, `AgentGraph`, `SupportTurns` |
| Support persona | `core/support/*`, `api/routes/support.py` | the pending question and its count in the checkpoint, `semantic_cache` | route, ask back, merge the reply, answer, judge, cache | turns of one session that overlap or are cut off, waits for the provider's limits | a reply is not asked back, nothing refused is cached, a request ends | `SupportTurns` |
| Conversation memory | `services/memory/*`, `core/agent/nodes/memory_retrieval.py`, `api/routes/memory.py` | checkpoints, `episodic_events`, summaries, embeddings | save, record, extract in the background, erase a customer | an erasure beside turns and tasks | what is erased stays erased | `CustomerMemory` |
| Intent tracking | `services/memory/intent_tracker.py`, `intent_extractor.py` | `intent_tracking.version`, `sales_intent_logs` | upsert, log, compare-and-set, delete | three writers of one row | no update is lost unnoticed | `CustomerMemory` |
| Administrators' alerts | `services/hitl/timeout_scheduler.py:73-126` | a latch in each process | raise, clear | a latch per worker | one alert per condition | none |
| Hand-off and notices | `services/hitl/{handoff,admin_notify,telegram_service,cost_guard}.py` | none | put a text together, send it | - | - | none |
| Nightly archive | `services/hitl/archive_scheduler.py` | `queued_messages.archived_at` | one idempotent UPDATE a night | - | - | none |
| HTTP interface, schema, command line, scripts | `api/main.py`, `api/routes/*`, `models/*`, `cli/*`, `scripts/*` | tables and constraints | parse, wire, report, load, evaluate | - | the constraints the modules rely on are part of their actions | none |

### How the components interact

- A customer's turn enters by Telegram or `/agent/query`. `check_paused_session` stands
  before it: while a review is open the message becomes a row of `queued_messages`,
  otherwise the graph runs. `TelegramTurns` is this door; what happens to the rows
  while a resumed run drains them is in `HitlReview`.
- A run of the graph loads the thread's checkpoint, holds one database session, and
  writes a checkpoint after every super-step. `AgentGraph` is one thread's super-steps;
  `OrderPipeline` follows the content of the order behind `hitl_guard_node`, and
  `AnswerTurns` what several turns' answer nodes share in one process.
- `hitl_guard_node` inserts the draft and the pause, commits, and interrupts. A decision
  takes the row of `interrupted_sessions` with `UPDATE ... WHERE version = :expected`,
  adds a `review_actions` row and resumes the thread with the verdict. Both share one
  database session: the guard's commit, in the resumed run, commits the decision too.
  The resumed run executes the guard again from its start, drains the queue, checks
  freshness and places the order.
- An answer is looked up in and written to `semantic_cache`, which a restock, an
  ingestion or a placed order empties in a second transaction after its own.
- After an answer, a background task extracts the intent in a session of its own.
- The loop of `timeout_scheduler.py` runs in each of the four processes the
  `Dockerfile` starts (line 53), on the same rows.
- An erasure deletes a customer's rows table by table in one transaction and asks no
  turn or task to stop.

Nothing but PostgreSQL's row locks and unique keys orders these. The models are
therefore cut at commits, and where the interleaving of statements decides, at
statements: `HitlReview` and `OrderPipeline` by commit or node; `AgentGraph` by node and
super-step; `TelegramTurns`, `AnswerTurns` and `SupportTurns` by await; `DraftOrders`,
`TimeoutScheduler` and the erasure of `CustomerMemory` by statement.

A module may be about more than TLC can take at once. Where that is so, a constant
`Worlds` (or `Envs`) names what a behaviour may meet, each behaviour draws one world at
its start and keeps it, and a run explores several. The model's actions are the same in
all of them; the theorems hold for any set of worlds.

## Modules

### HitlReview and DecisionLog

`HitlReview` is the life of a review across processes. `status`, `made` and `draft`
stand for the rows of `hitl_metadata` and `orders` a pause makes; `version` and
`rowLock` for `interrupted_sessions` and its row lock; `done` for the `review_actions`
that are committed; `cp` for the newest checkpoint of each thread; `msg` for
customer messages and how far each has come; `direct` for orders that were never
drafts; `env` for the environment of the behaviour; `req` for review requests, including
what their transaction has written and not committed.

| Actions | Code |
|---|---|
| `Gateway`, `Enqueue` | `check_paused_session`: the look and the insert are two steps |
| `TurnAnswer`, `TurnSupport`, `TurnOrder`, `TurnCancel` | a turn that pauses nothing: an answer, a hand-over, an order of the lowest tier, a cancellation (`Cancel`) |
| `TurnLookup`, `TurnInsert` | a turn that pauses: the guard reads the open pauses, then commits the draft, the pause and the version upsert |
| `SubmitRest`, `TapButton`, `Gate`, `ReadVersion` | what the REST route and the Telegram callback check before their transaction |
| `TurnedAway`, `TakeLock`, `Rollback`, `CommitDecision` | replay of a key, optimistic lock, roll-back, commit |
| `ResumeApprove`, `ResumeReject`, `ResumeRejectNoDraft`, `ResumeRejectFresh`, `RejectFresh` | the guard, run again: it approves the latest open pause and commits; cancels the draft of a rejection by its id and commits; finds no draft and commits nothing; or finds no open pause, opens one and rejects that |
| `ResumeUnread` | the guard, run again, works out a tier that ends its run before it reads the verdict |
| `GuardCheckpoint` | the guard's checkpoint, which follows its commit |
| `JoinRun`, `FirstCommit`, `LoseDecision` | a decision that takes up the tasks of a run already under way stays uncommitted until that run's first commit, or goes with its roll-back |
| `DecideWithoutRun`, `ApplyEdit` | a decision on a thread without an interrupt; `request_edit` by `aupdate_state` |
| `RunExecute`, `RunInsertOrder`, `RunNoOrder`, `RunCancel`, `RunRepause`, `RunReuse`, `RunSupport`, `RunMaxed` | the ends of a resumed run, each with the drain of the queue it has made by then |
| `Finish`, `Abort` | the route's last commit; a raise or the death of the process |
| `Escalate` | the scheduler's hand-over, as one step here |

A fresh pause makes a draft as `create_draft` does (`OpenDrafted`): it supersedes the draft
it replaces if that one is pending, and flips the oldest ones over `DraftCap` by their ids.
What it has read as pending (`ReadActive`) may have been confirmed since by another run of
the session that has not ended, and is flipped all the same (`Superseding`).

Abstractions: the escalation count is not tracked, so `RunMaxed` and `RunRepause` are
alternatives; of the tiers (`OrderPipeline` works them out) this module has only that they
may move while an order waits, in behaviours with the feature "risk"; the draft's age is in
`DraftOrders`; a pause has one draft with its own number; a customer has one session (several
are in `DraftOrders`); a decision that reaches a thread whose checkpoint belongs to a
customer's turn starts no run; the reads of a pause and of its version that REST makes in one
request are one step.

`DecisionLog` is the abstract specification: a set of decisions and a version per
session; one step adds a decision with a fresh key and the next version. `HitlReview`
implements it (`LogSpec`): locks, conflicts, replays, roll-backs, resumed runs and
time-outs are stutters or such a step.

### DraftOrders

The tables `orders` and `products` and the transactions of graph runs on them, by
statement under READ COMMITTED: a SELECT sees what is committed, an UPDATE waits for
the holder of its row and looks again. `run[t]` is a transaction: the statement it is
at, the stock rows it has touched and what it has written. `SupersedeHeld`,
`ReadActive`, `FlipOldest`, `InsertDraft` are `create_draft`; `TakeLine`, `SoldOut`,
`CheckDraft`, `ConfirmRow`, `Place`, `Release` are `order_execution_node` with
`confirm_draft`; `SelectDrafts`, `CancelOne`, `CommitCancel` are `cancellation_node`;
`RejectRow` is the guard's rejection, which cancels by id: nothing looks at the row, so a
rejection meets a confirmed one too where a customer's runs overlap (where they do not, an
order under review is not placed yet: `HitlReview`). `Fail` is a statement that raises,
`Victim` the transaction PostgreSQL ends in a cycle of waiting ones; `Expire` is a draft
older than its TTL, which only the readers that check the age notice. History variables count what was sold and how
often a row was placed.

### OrderPipeline

What happens to the content of one order. The node the graph is at is the control
state, and each `Command` of a node is an action: `SkipGuard`, `AskContact`,
`TooRisky`, `AutoApprove`, `MaxReached`, `PauseOrder` (guard); `Approve`, `Reject`
(the guard, run again on resume); `NothingQueued`, `Negotiate`, `CancelAsked`,
`Modify`, `Unclear`, `Proceed` (queue consumer); `OutOfStock`, `StalePrice`,
`FreshEnough` (freshness); `PlaceOrder`, `SoldOut`, `Requote` (execution); `Cancel`,
`Support`, `Answer`. Orders keep both representations the code has: flat fields and
`items[]` (`lines`), with `normalize_items` as `Lines`. A message is its kind, and
`Readings` gives what the keywords and the language model may make of the queued
kinds together. The tier is worked out as `hitl_risk.py` does, from stock, value and
a tier of confidence and history that the environment may move; a conversation that has
cost more than `HITL_COST_THRESHOLD_TOKENS` (the feature "cost", fixed per behaviour) is
reviewed also where the tier asks for no review. An approval or a rejection carries no
`state_edits` to the guard: the API's schema drops them
(`services/hitl/schemas.py:38-42`), and an edit goes through `aupdate_state`
(`HitlReview`). The intent is an ORDER_PLACEMENT; `Answer` includes the reset with which the next turn begins.

An order whose customer left no phone or address is parked (`AskContact`) and taken up
by the reply (`Unpark`), with the slots the reply fills (`FillFrom`) and those an
earlier order had (`CarryContact`). A product the customer changes to makes a new order
without contact, items or draft.

### TimeoutScheduler

The loop in several workers. A pass is one transaction: `BeginPass` selects what is
due, `Warn` sends a message and notes it, `ReadOver` selects what is to be handed
over, `Escalate` and `Flush` are its UPDATEs and INSERTs, each waiting for rows others
hold; `Commit`, `Abort` and `Victim` end it. A message that was sent stays sent when
the pass rolls back. An approval holds the pause's row from its UPDATE to the commit
(`Approve`, `Resumed`, `GiveBack`; `deciding`): "resuming" is flushed but never committed
by itself, so readers see "paused". A rejection leaves the row alone while its run is under
way (`Reject`), and the review may be handed over meanwhile; the run's end enters the
session in the support queue (`RejectEnters`), writes the row whatever its status is by then
(`RejectWrites`) and commits (`Rejected`). It may fail, or be the victim of a deadlock with
a pass (`RejectAborts`, `RejectVictim`): the two take the queue's row and the pause's in
opposite orders. `SendFails` says whether Telegram may refuse a message. An approval and a
rejection of one pause at a time are in `HitlReview`.

### CustomerMemory

One customer's threads. `checkpoint[th]` is the set of turns whose messages the newest
checkpoint holds; a running turn holds what it loaded (`seen`) and saves that with its
own message. `Record` is the episodic event, `Upsert` and `CommitLog` the background
task, `Patch` and `PatchClose` the PATCH of an intent, whose transaction nobody
commits. The erasure is one transaction by statements: collect the threads, delete
logs, tracking rows (waiting for who holds them), events, checkpoints, commit.

Summaries and embeddings are left out: `summarize` calls `m.get(...)` on the messages
the graph holds (`summarizer.py`, about line 105), the error is caught in
`background.py`, and neither is ever written. The SELECTs that collect the thread ids
are one step; so is a resumed run (`Decide`).

### TelegramTurns

A delivery is one arrival of an update at the webhook; Telegram may deliver an update
again while it has no answer for it. `Check`, `Record`, `Spawn`, `Ack` are the request
(lookup and insert are two steps), `PlainReply`, `Gateway`, `PutInQueue`, `Permit`,
`Overflow` the background task up to its turn, `TurnEnds`, `TurnPauses`, `TurnFails` the turn,
`Send`, `SendFails` the reply with its attempts. `Ask` is a message by
`POST /agent/query`, which passes the same gateway and no cap. `ReviewApproved`, `Drain`,
`RunEndsUnread`, `ReviewEndsUnread`, `Escalate` are what a review does to the session and its
queue: an approval resumes a run that reads a batch of at most `MaxDrain` rows (20 in
`queue_consumer.py:147`) or ends before it reads; a rejection's run goes to support and reads
nothing, and the approval of an edited review runs nothing. `Restart` ends every task of the
process. `free` is the semaphore: it is a part of the
process, so a restart resets it.

`Drain` reads and marks a batch in one step, together with a pause the resumed run may
end in; the code marks by id what it has read, which comes to the same. Which rows a batch
takes is left open; the code takes the oldest. What a review leaves behind that nobody
will read is noted in `aside`.

### AgentGraph

One thread of the sales graph as LangGraph runs it: the nodes that are due read one
snapshot of the channels (`ch`), their writes are collected (`wrote`), and at the
barrier they are applied together and every edge of a finished node is followed - the
`goto` of its `Command` and its static or conditional edges (`Edges`). Each node is an
operator giving what it may return (`Router`, `Retrieval`, `Memory`, `Confidence`,
`Clarify`, `Escalation`, `Guard`, `Queue`, `Fresh`, `Execute`, `Cancel`, `Support`,
`Answer`), and an action that runs it. `Collide` is LangGraph's InvalidUpdateError for
two writes of one channel without a reducer, `Die` a node that raises, `Interrupt` and
`Resume` the review, `Enqueue` a message that waits.

The order of the nodes of one super-step does not matter to what they read, so it is
free. An interrupt is taken when the siblings of its node have finished. Turns of a
session follow one another; overlapping ones are in `CustomerMemory` and `SupportTurns`.
What the models, keywords and detectors find in a message is a choice
(`Readings`, `Found`), and so is whether a search fails (`SearchFailed`, which writes
`error`). `Resume` runs the guard again from its start: the tiers come first and may end its
run with the verdict unread. Not here: messages queued while a run is in flight, and
`request_edit`, which changes the checkpoint outside the graph (both in `HitlReview`). The router's comment says the input
guard is off; `config.py:277` turns it on, and the model has it.

### AnswerCache and AnswerTurns

`AnswerCache` holds the rows and the two transactions of a change of product data.
`AnswerTurns` extends it with the turns that answer: `Hit`, `Found`, `Decline`, `Split`
(search); `Choose`, `Downgrade`, `Capped`, `Direct` (choice of a model);
`ToolsStart`, `ToolCall`, `ToolFails` (tool loop); `LadderStart`, `SkipRung`, `TryRung`,
`RungAnswers`, `RungFails`, `Degrade` (ladder); `Passes`, `Refused`, `Regenerate`,
`RegenerationFails` (groundedness); `MergeRow`, `WriteRow`, `WriteClashes`, `Trace`,
`Hold` (the writes). `cooling` is shared by the process; `held`, `rows` are what a turn
has flushed in its own session and `full`, `queue` what is committed.

Abstractions: a question stands for its cache key and every text within the similarity
threshold; the token counter is at its threshold or not; the deadline of a turn has
passed or not (`late`); the guard against JSON in a reply and the limiter of requests a
minute are left out. COMPLAINT and NEGOTIATION skip the search, as the router sends
them to escalation. The second chain that an order message also starts (see
`AgentGraph`) is not followed here.

### SupportTurns

The support persona's graph. A turn loads the thread at its start and saves it after
every node (`NodeEnds`), so that overlapping turns save over one another. `Route`,
`Hit`, `Found`, `NotFound`, `Confidence`, `Clarify`, `Answer`, `Drafted`, `Waits`,
`CallFails`, `Supported`, `NotAnswerable`, `Unsupported`, `Store`, `Reply` follow the
nodes; `CutOff` is a request that is cancelled. A key is the message alone or the
pending question with the reply after it.

A pronoun or a recalled product makes another question; splitting a question is left
out (it is in `AnswerTurns`), and so is the two-step cache write; the tasks after a turn
are those of `CustomerMemory`. The clarification quota of two is never used up here,
since a merged reply counts as resolved, and `check_groundedness` never raises: the two
branches that follow are dead.

## Runs

A run asks one question; each of its properties has a mutant in `PROJECT.json`. States
are distinct states.

| Run | Instance | States | What it shows |
|---|---|---|---|
| `rest` | 1 session, 2 administrators over REST, 2 keys, 1 message, 2 pauses, cap 1; time-outs or edits, each with broken runs | 256 797 | The review implements `DecisionLog` (`LogSpec`); every request ends (`RequestsEnd`) |
| `one_admin` | 1 administrator at a time, 2 keys, 3 messages, 2 pauses, cap 2; edits, time-outs and buttons, or edits, time-outs and broken runs, or buttons and broken runs, or moving tiers and broken runs, or overlapping and broken runs | 2 274 348 | What is confirmed stays (`ConfirmedStays`) while the runs of a session do not overlap; while tiers do not move either, what is confirmed was approved under its own pause (`OrderWasApproved`), unless a rejection may have broken off, and a pause nobody edited can be resumed (`PausedResumable`) |
| `drafts_stock` | 1 customer with 2 sessions, 2 runs that take the products in opposite orders, 2 drafts, cap 1; failures, deadlocks, expiry, overlap | 114 861 | Stock is conserved, no row is placed twice, every run ends (`RunsEnd`) though none has to fail; and as long as the runs did not overlap, what is placed stays, the cap holds, withdrawn terms are not placed |
| `pipeline_turns` | 2 products, prices 20 % apart, quantities 1 and 2, two pauses a turn, 3 drafts; every kind of message while nothing else changes, or two of prices, stock and risk changing at any moment under changed orders and offers, or conversations over the cost limit | 465 860 | A changed order is judged again (`ChangeIsJudged`) and has its customer's contact when placed (`PlacedHasContact`), only small orders pass without a human, a rejected one is not placed while its risk does not move, an approved one as it was shown, every turn ends, pauses or is with support |
| `timeout_workers` | 2 sessions, 2 workers, 1 failing pass or rejection, database deadlocks | 1 101 811 | A hand-over is whole (`EscalatedIsQueued`), takes no review whose row an approval or the end of a rejection holds, nor a decided one (`AnsweredStays`), and a second warning needs passes that overlapped or rolled back (`WarnedOnceApart`) |
| `timeout_live` | 1 session, 2 workers, 1 failing pass or rejection, Telegram that may refuse | 16 737 | A review nobody decides is handed over or decided (`NobodyForgotten`) |
| `telegram_turns` | 2 chats, 2 updates and a message by REST, cap 1, 2 attempts to send, 2 deliveries, batches of 1; worlds `Repeats`, `Storm`, `Reboot` | 124 784 | A queued message nobody will read was put there by an overflow, came in after its review was over, was more than a run takes, or its review was rejected or its run ended unread (`StrandedNeedsMishap`); only a full house puts a customer off (`OverflowNeedsFullHouse`); a recorded update is replied to unless a restart or Telegram prevents it (`UpdateAnswered`) |
| `memory_erase` | 2 threads, 3 turns (2 in one thread), pauses, PATCHes, erasures, failures | 401 822 | The version counts the logs (`VersionCountsLogs`), what an erasure took alone is gone for good (`ErasedStaysGone`), tasks end (`TasksEnd`) |
| `graph_turns` | all nine intents, 2 rounds of clarification, 2 escalations; failures and aborts anywhere | 492 356 | However the chains of a turn interleave: one order a turn (`OneOrderPerTurn`), on a standing verdict (`PlacedOnVerdict`), told to the customer (`PlacedIsConfirmed`); the search clashes with the order branch only by the `error` of a failed search beside a guard whose resumption failed (`SearchClashesOnFailure`); no question is answered with a question (`AskedOnce`); a turn stays below the recursion limit (`WithinLimit`) |
| `answer_turns` | 2 turns at a time, 2 questions of which one splits into the other, 1 change of product data; worlds `Shop`, `Storm`, `Thrift`, `Lookup` | 350 169 | A stale row needs a change during its turn or a failed invalidation (`StaleNeedsOverlap`); every message is replied to (`TurnsReplied`) |
| `support_turns` | 1 session, 2 requests at a time, 2 messages; worlds `Failures`, `Questions`, `Hurried`, `Capped` | 229 013 | A reply is asked back only after an overlap or a cut (`AskedAgainNeedsUpset`), the cache holds nothing the judge refused and nothing written for a complaint (`CacheIsSound`), every request ends (`SupportReplied`) |
| `answer_complaint` | complaints while every model works | - | violates `EscalationAnswered` (see Disagreements) |

`one_admin` has one administrator at a time because `OrderWasApproved` and `ConfirmedStays`
do not hold with several: a run resumed by one decision may approve the pause another is
about, and a rejection that opens a pause of its own cancels that pause's draft by its id in
a second commit, before which another administrator's approval may place it
(`ApprovedAlways`, `RejectedNotOrdered` under Disagreements).

Nor is everything true of one administrator:

- The guard's commit of a rejection and its checkpoint are two steps. If the scheduler has
  escalated the pause meanwhile, the guard opens a fresh pause, rejects that, and the process
  may die before the checkpoint. The interrupt is still there, the fresh draft is gone, and an
  approval of what is left places the newest draft that is still pending, an older one. This is
  `RejectionBroke`, the exception `OrderWasApproved` makes.
- The guard works the tier out before it reads the verdict. If the tier has moved, the order is
  placed, or the session handed to support, with the verdict unread
  (`core/agent/nodes/hitl_guard.py:134-188, 271`): an order whose pause was rejected may be
  placed (`RejectedNeverPlaced` of `OrderPipeline`), and the pause stays open, without an
  interrupt when the run has ended. With "risk" `OrderWasApproved` and
  `PausedResumable` claim nothing, while `LogSpec` and `ConfirmedStays` are claimed.
- With "overlap" (a customer's turn beside a resumed run of its thread, which nothing in the
  code prevents) none of the three is claimed: the cap may flip a confirmed order (see
  `PlacedStaysAlways`). `LogSpec`, the numbering of decisions and the single use of a key hold.

Every module has a type invariant. It is proved for every module; the runs do not
spend a property on it, and `TypeOK` (`IngressTypeOK` in `TelegramTurns`) added to a
configuration holds.

### Bounds, and why they are enough

- **Reviews.** Sessions share no row of the review, so one session shows what several
  would. Two requests are what a lock, a conflict and a stale read need; two pauses are
  what a session that pauses anew needs. The cap of drafts is 1 in `rest`, where the second
  draft overflows it, and 2 in `one_admin`, where an older draft may stay pending beside the
  newest one; the three properties of `one_admin` hold with 1 too, and are proved for any cap.
- **Drafts.** Two runs with two products close a cycle of locks; one of the sessions
  takes two units of one product, which the second of its lines may not find. The cap is
  1, so that the second draft already overflows it.
- **Pipeline.** 100 and 120 are on both sides of the 5 % of the price check, 1 x 100 and
  2 x 100 on both sides of a `Tier1Max` of 200 for the strict comparison in
  `hitl_risk.py`; `OrderPipeline_disagreements.cfg` adds 104. `MaxCount` is the code's 2.
  A second pause in a turn supersedes the draft of the first, which only then can be
  found inactive when the order is placed. `MaxDrafts` is a guard of
  the step that begins a turn: no turn is cut off half-way. A parked order stays parked
  until the guard lets it go; its time limit (`is_fresh`) only takes behaviours away.
- **Scheduler.** Ages count the two limits only (0, 1, 2). `MaxAborts` bounds failing
  passes and rejections; database deadlocks are not counted. Telegram refuses messages in
  `timeout_live` and in the disagreements only (`SendFails`). `sent` counts up to two.
- **Telegram.** A cap of one turn is reached by two messages; two deliveries and two
  attempts are the first that repeat; a batch of one row leaves one behind with two queued.
- **Memory.** A turn in progress, a finished one and a second thread are what an
  erasure meets; `overlap` is left out of `memory_erase` and used for `HistoryKept`.
- **Graph.** No bound but the code's own: the state of a thread is finite. `Limit` is
  the code's `AGENT_RECURSION_LIMIT`, 20, and is not reached.
- **Answers.** Two turns are what a clash of writes, a shared cool-down and a lock need,
  and one change makes a row stale. The ladder has all its rungs; the code's two hops of
  the tool loop are one, since the second repeats the first.
- **Support.** Two requests overlap, two messages tell a question from another; waits
  and regenerations are the code's.

`CHECK_DEADLOCK FALSE` stands where the system may stop: customers need not write and
administrators need not decide.

### Fairness

Only what the code or the database drives is fair; customers, administrators, prices and
failures are not.

- `HitlReview`: weak fairness of queueing and of a turn's steps, and of resumed runs (the
  event loop runs what is ready); strong fairness of a request's transaction (PostgreSQL
  hands a row lock to its waiters in turn, while others take it again and again); weak
  fairness of the hand-over (the scheduler polls every minute).
- `DraftOrders`: strong fairness of each run's steps, for row locks, and for the deadlock
  victim, whom PostgreSQL chooses after `deadlock_timeout`. A failing statement (`Fail`) is
  not among the steps: nothing has to fail, and a run that waits is freed by the row's
  holder or by the end of a cycle.
- `OrderPipeline`: weak fairness of the graph's steps, not of messages or decisions.
- `TimeoutScheduler`: weak fairness of each worker's pass, of the end of an approval and
  of the steps of a rejection under way (its failure is not among them); strong fairness of
  each UPDATE, INSERT and commit, since a worker begins a new pass only after a poll interval
  while waiters get the row at once.
- `TelegramTurns`: weak fairness of each delivery's request and task, and of a resumed
  run, which reads a batch of its queue or ends before that.
- `CustomerMemory`: strong fairness of background tasks and of the erasure's statements,
  weak fairness of the end of a PATCH. Failures are never fair.
- `AnswerTurns`: strong fairness of each turn's steps (every await returns or times out;
  PostgreSQL gives a counter row in turn to the sessions that wait for it). Weak
  fairness of each turn's steps in `SupportTurns`, where nothing waits for a row.
- `AgentGraph` has no liveness: its `WithinLimit` bounds the super-steps of a turn.

## Theorems

All are proved from the named assumptions on the constants only (sets are of any size;
bounds are any natural numbers). Three of them say what the code or its schema gives:
an order has a line (`ItemsOfAssumption`: `normalize_items` makes one of the flat
fields), finitely many runs are in flight (`RunAssumption`), and there is a session
(`SessionsAssumption`). Each proof module is written so that few facts need a look at
every action: lemmas say what an action changes, and the invariants are proved from
these.

**HitlReview_proofs.** `TypeCorrect` is inductive by itself: one lemma per group of
actions (`CustomerType`, `ClientType`, `TransactionType`, `ResumedRunType`,
`EscalateType`). For the rest types are not enough: a commit takes the version the
request expects, and nothing in the types says that it is still the current one.
`LockInv` adds it: a request past its UPDATE holds the row lock alone, and its version
is the row's. Every step that does not lock, roll back or commit leaves that alone
(`LockFrame`, with one lemma per group). A commit is then a step of `DecisionLog` and
all else a stutter (`StepOfTheLog`), so `ImplementsLog == Spec => LogSpec`.
`DecisionsAlwaysNumbered` and `KeyAlwaysDecidesOnce` are proved of the abstract log,
where they are short, and carried over by the refinement.

The other three are about what is placed, and do not hold with several requests about a
session at once (see `one_admin` above, and `ApprovedAlways` under Disagreements): their
hypothesis is `[]OneRequestAtATime`, for any number of sessions, requests, messages and pauses
and any cap. A step concerns one session (`Elsewhere`, `Same`), so the invariants are of one
session each.

- `Base` says that decisions and requests are about pauses there are (`Cards`), that what a
  run acts on, or a checkpoint will, is no order yet (`Held`), and that a turn is alone in its
  session unless runs overlap (`TurnAlone`). It is all `PlacedIsKept` needs, and it is kept
  also when tiers move and runs break off. The cap flips a confirmed draft only while another
  run of the session has not ended, which `Base` rules out.
- `Serial` is what steady behaviours add (`Steady`: no overlap, no moving tiers). `Parts`: only
  the newest pause is open (`OnlyNewest`), and while it is, customers are kept out
  (`TurnClear`); so a request that has passed its gate is about that pause until it commits
  (`PastGate`), a run goes on from the newest checkpoint (`InStep`), whose tasks come from a
  decision of the newest pause (`Tasks`, `Guarded`), and a pause waits with an interrupt or
  the tasks of a run (`Waits`, which is `PausesAreResumable`). `Orders` holds until a rejection
  of the session may have broken off (`RejectionBroke`): an interrupt's draft is the newest
  pending one (`Interrupts`), what leads to an order was approved, with the draft it may place
  (`Approved`), and so was what is placed (`Placed`, which is `PlacedWasApproved`).

`Onward` is what a step keeps of these; there is one lemma per action, or per group that
changes the same things.

**TimeoutScheduler_proofs.** The invariant is `Types /\ OneWriter /\ EscalatedIsQueued
/\ Apart`. `OneWriter`: a review a transaction has updated is paused for everyone else,
is in no decision and in no other worker's transaction, and its session's row is in
the same transaction. Whole hand-overs (`HandOverIsWhole`) need that last part, and
`DecidedIsNotHandedOver` the first: it is about the rows that an approval or the end of a
rejection holds, and claims nothing of a rejection whose run is still under way. `Apart` is what `WarnedOnceWhileApart` needs: while
passes have not overlapped, one worker at most is in a pass, and whom it is to warn was
not warned before.

**CustomerMemory_proofs.** `VersionsCountLogs` needs, besides the types, that a logged
turn is over, that nobody writes a row an erasure holds, and that the logs and the rows
it deletes are those of the same threads. The count itself rests on the library's
theorems on finite sets, since a thread's logs are a set and its version a number.
`ErasureIsFinal` has its own invariant: checkpoints and running graphs hold turns of
their own thread only (`ThreadsApart`); while an erasure runs alone nothing is added
behind its statements (`NothingBehind`); what it took is in no graph's state (`Gone`).

**AnswerTurns_proofs.** `TypeCorrect` has one lemma per group of actions and includes
that a turn at a call has a rung to call (`CallHasRung`), which the types of `Head` and
`Tail` need. `Staleness` needs to know of the turns what `StaleNeedsOverlap` says of the
rows: whoever has a vector to write under and holds old products is known to
(`TurnsAware`), and only such a turn comes to the write. A split question is where the
two meet: it may bring the citations of a row about to be deleted, so the row's own
history passes to the turn.

**DraftOrders_proofs.** `Typed` adds to the types what a transaction knows: it touches
rows of its own customer, and has taken one unit for each line so far from products it
has locked. `StockIsConserved` follows a unit from the stock to the transaction and on to
the placed order. `PlacedAtMostOnce` needs `Once`: a run that has all its lines holds the
products and has read its row after that, and a row that was placed is not active again.
For customers whose runs never overlapped, `SerialInv` says that what a run has read is
still so (`PlacedStaysConfirmed`, `WithdrawnStaysWithdrawn`), and `CapInv` that a run
about to insert has made room (`CapIsKept`, which counts with the library's theorems on
finite sets).

**Turns_proofs**, on `AgentGraph`. Two nodes of a super-step may write one channel, and
the second chain that every order, refusal and cancellation starts may meet the first
anywhere, so the invariant says which nodes may meet at all. `Beside` gives the company
each node may have, `To` where a node may lead given what it wrote, `May` what it may
write; `Writes` adds what the properties need to know of the values. `Returned` says
this of the writes that wait for the barrier, `Chains` of the nodes of the super-step,
with what their company presupposes: beside the order branch a search is one for an
order that has gone on (`Slot`), an order that waits in the queue or is about to be
executed is approved, an answer beside a search repeats a reply. Each
node's returns are checked against `Writes` and `To` once (`RouterOut` to `CancelOut`),
and a node that returns then keeps the invariant whichever it is (`ReturnStep`,
`ReturnKeeps`). The barrier is the other half: what neighbours lead to are neighbours
again (`Neighbours`, `Forks`), and a channel none of them may write stays (`Stays`).
From that:

- `SearchClashesOnFailure`: no neighbour of the search writes a channel that the search
  writes, but for `error`, which a failed search and a guard whose resumption failed may both
  write (`SearchApart`).
- `OneOrderPerTurn`, `PlacedIsConfirmed`: once the order is placed, `Placed` waits for
  the barrier beside a guard that is quiet since the order is approved, and the answer
  alone follows (`Orders`, `StepPlaced`).
- `PlacedOnVerdict`: from the guard's verdict to the execution some node or edge of the
  way there is on record (`Verdicts`), and a queue that revokes the approval has no
  second way beside it.
- `AskedOnce`: the pending question is awaited up to the router, merged (so that the
  query counts as resolved) or dropped for an actionable intent from there to the
  confidence (`Questions`); the confidence asks only about a query that is not resolved.
- `WithinLimit`: `Longest` is the latest super-step each node can run in. The cycle of
  guard, queue, freshness and execution goes round once more for a queued message, and
  the guard after a moved price only answers. Hence eleven: any limit above it will do,
  and the code's is 20.

The quotas may have any value, also 0.

**Turns_proofs**, on `TelegramTurns`. The invariant is the types, the bound of attempts, and
`Permits`: the free permits and the running turns add up to `MaxTurns`. A turn that
fails, ends, pauses or dies with the process gives its permit back exactly once, so an
overflow meets a full house (`OverflowMeansFullHouse`). `NobodyElseIsStranded` is
inductive once a review's states are known: whatever ends a review without reading all of
its queue notes what it leaves.

**SupportTurns_proofs.** One lemma for each action says where the turn comes from, where
it goes and what it writes (`TurnMoves`); the invariants are proved without another look
at the actions. `Sound` says what a turn knows at each place (`Fit`) and `CacheIsSound`.
`Settled` is what `NotAskedAgain` needs: while nothing overlapped or was cut off, one turn
of a session is alone with the thread (`Alone`), has loaded what is there (`Met`), and a
pending question is merged before the confidence is judged (`Waiting`, `Answering`).

**OrderPipeline_proofs.** `Typed` includes `RoomLeft`, the room for the rows this turn may
still insert, which the approval, the queue and the number of reviews together keep, and
`Queued`: messages are queued only while a human decides. Few steps lead to a place where
an order is judged, or stay in one (`Steps`); for those, five invariants of one conjunct
each give the five theorems: `Contacted`, `Unchanged` (no reading of the queue misses a
change: `ReadingsSee`), `Small`, `Final` (stock that falls takes no order out of review)
and `AsShown`. The units of an order are sums of arbitrary length. The provers have no
rule of induction; that a sum of quantities is a quantity is proved by a least
counterexample instead (`LeastNat`, from well-foundedness; `TotalIsNat`).

### Checked with TLC only

Liveness (`RequestsEnd`, `RunsEnd`, `TurnEnds`, `NobodyForgotten`,
`UpdateAnswered`, `TasksEnd`, `TurnsReplied`, `SupportReplied`): the prover has no rule
for fairness. Every safety property of a passing run is proved.

## Disagreements

Where the code does not do what a document, a comment or a test of the repository says,
a configuration shows a run that violates it. `answer_complaint` is listed in
`PROJECT.json`. The others are in one configuration per module, `<Module>_disagreements.cfg`,
which lists them for reference: leave one in and run

    tlc -config DraftOrders_disagreements.cfg MCDraftOrders.tla

`HitlReview_lost_message.cfg` is apart, since its property is one of liveness.

| Module | Property | Where | What the code does, and what is said |
|---|---|---|---|
| `HitlReview` | `EditedResumable` | `services/hitl/service.py:537` | process_request_edit calls aupdate_state, which writes a checkpoint without the pending interrupt (the NOTE at services/hitl/service.py:292-297 says so itself); the pause stays paused, but a later approve resumes nothing and records approved without executing the order. docs/specs/004-human-in-loop-hitl/spec.md:371 (FR-004): "session MUST remain paused after edit until explicit \"approve\" action", and docs/specs/004-human-in-loop-hitl/spec.md:470 (SC-005) expects the edited order to be approved afterwards. |
| `HitlReview` | `BrokenRunReviewable` | `services/hitl/service.py:391` | When the resumed run raises, process_approve writes status paused and raises HTTPException, and the request's session is rolled back with it, while hitl_guard_node has already committed approved. docs/specs/004-human-in-loop-hitl/spec.md:397 (FR-031): "If graph.invoke() raises an exception, the handler MUST catch it, revert status to \"paused\"" and "This prevents a permanently stuck \"approved\" session that can never be re-reviewed". |
| `HitlReview` | `NoDecisionOnEscalated` | `api/routes/hitl.py:106` | The terminal-status gate reads the status before the transaction that decides and nothing checks it again; escalate_to_support does not touch the version, so the decision commits on an escalated pause. docs/specs/004-human-in-loop-hitl/spec.md:394 (FR-027): "No admin action (approve/reject/edit) is permitted on an escalated session". |
| `HitlReview` | `OneVerdict` | `services/hitl/service.py:408` | process_reject leaves the status paused while its run is in flight and the guard commits the transaction that bumped the version; a second administrator who reads the new version approves the same pause. docs/specs/004-human-in-loop-hitl/spec.md:378 (FR-011) lets only one decision of a version succeed, and docs/specs/004-human-in-loop-hitl/spec.md:475 (SC-010): "HITLMetadata.status MUST always reflect the true session state". |
| `HitlReview` | `RejectedNotOrdered` | `api/webhooks/hitl_callbacks.py:79` | _expected_version reads the current version inside the callback, so a tap that passed its gate before another decision committed is not a conflict: the order is placed by the approval and the pause ends rejected. docs/specs/004-human-in-loop-hitl/spec.md:475 (SC-010): "HITLMetadata.status MUST always reflect the true session state"; docs/specs/004-human-in-loop-hitl/spec.md:472 (SC-007): "exactly one approval succeeds, others fail with a conflict error". |
| `HitlReview` | `ApprovedAlways` | `core/agent/nodes/hitl_guard.py:320` | The resumed guard takes the newest open pause, not the one that was decided. A rejection whose pause the scheduler has escalated meanwhile opens another pause with a draft; an approval of the first pause that had passed its gate by then approves the second, and places its draft. docs/specs/004-human-in-loop-hitl/spec.md:466 (SC-001): "All order placements MUST be approved by a human before persistence". |
| `HitlReview` | `QueuedTakenUp` | `api/dependencies.py:105` | check_paused_session reads the pause, and enqueues in a statement after it; a message whose row is inserted after queue_consumer_node has drained the queue stays unprocessed, since nothing looks at the queue again. docs/specs/004-human-in-loop-hitl/spec.md:476 (SC-011): "zero message loss". |
| `DraftOrders` | `PlacedStaysAlways` | `services/draft_orders.py:141` | create_draft selects the customer's active drafts and then updates the oldest by id alone; a draft another session of the customer confirms in between is a placed order that ends superseded, with its stock gone. services/draft_orders.py:123-124 says it "flips the OLDEST active draft(s) to \"superseded\"". |
| `DraftOrders` | `CapAlwaysHolds` | `services/draft_orders.py:136` | Two sessions of one customer that pause at the same time both count the active drafts before either has inserted its own, and the cap is exceeded. docs/wayfinder/tickets/T05-draft-order-data-model.md:35: "soft cap **3 draft active/khách** (tạo draft thứ 4 → supersede draft" the oldest one. |
| `DraftOrders` | `WithdrawnNeverPlaced` | `services/draft_orders.py:187` | confirm_draft checks the status in a SELECT and updates by id alone, so a draft superseded or cancelled in between is confirmed. core/agent/nodes/order_execution.py:135-136: "Draft expired or superseded meanwhile — compensate stock and re-quote instead of confirming stale terms". |
| `OrderPipeline` | `BackIsJudged` | `core/agent/nodes/hitl_guard.py:63` | state_freshness_validator_node leaves hitl_approved set, so the guard it goes back to skips to answer_node: no pause, no order. docs/specs/004-human-in-loop-hitl/spec.md:493: "Price changes ≥ 5% trigger a new HITL pause, NOT an automatic order placement with stale pricing." |
| `OrderPipeline` | `ApprovedDraftActive` | `core/agent/nodes/hitl_guard.py:337` | The checkpoint keeps the draft id reattached at the first approval; the second pause supersedes that draft, its own id is lost with the interrupt, and the second resume does not reattach because an id is there: confirm_draft refuses. core/agent/nodes/hitl_guard.py:335-336: "reattach it so order_execution confirms the draft row instead of inserting a parallel record". |
| `OrderPipeline` | `UnitsAsOrdered` | `core/agent/nodes/queue_consumer.py:284` | A changed quantity replaces order_info.quantity only; items[], which normalize_items prefers, keeps the old one, so the approved and announced quantity is not the one taken from stock. core/agent/nodes/state_freshness.py:44-45: "Compare against the ORDERED quantity, not just > 0". |
| `OrderPipeline` | `PlacedWasShown` | `core/agent/nodes/queue_consumer.py:388` | An add-on is appended to the approved order_info, which goes on to execution. docs/wayfinder/tickets/T05-draft-order-data-model.md:32-34: "ADD-ON = tạo draft mới gồm items cũ + item mới" and "Agent vẫn KHÔNG edit draft — chỉ tạo mới". |
| `OrderPipeline` | `RejectedNeverPlaced` | `core/agent/nodes/hitl_guard.py:271` | A resumed run re-evaluates the tier before it reads the verdict; if the risk has fallen to tier 1 it never reads it. docs/specs/004-human-in-loop-hitl/spec.md:377: statuses are distinguished "to prevent re-execution of rejected orders". |
| `TimeoutScheduler` | `NotifiedOnce` | `services/hitl/timeout_scheduler.py:161` | The warning is sent before timeout_notified_at is committed and without a claim on the row; Dockerfile:53 starts four workers, each with the loop, and a pass that fails later rolls the mark back. docs/specs/004-human-in-loop-hitl/spec.md:383: "customer MUST receive exactly one Telegram notification (idempotent)". |
| `TimeoutScheduler` | `EscalatedWasWarned` | `services/hitl/timeout_scheduler.py:185` | timeout_notified_at is set whether or not the message was delivered, and nothing sends it again. docs/specs/004-human-in-loop-hitl/spec.md:383: "customer MUST receive exactly one Telegram notification (idempotent)". |
| `TimeoutScheduler` | `EscalatedWasOld` | `services/hitl/service.py:596` | escalate_to_support updates whatever is paused in the session, also a pause that began after the query. docs/specs/004-human-in-loop-hitl/spec.md:383: "If not reviewed within 60 minutes, one SupportQueue record MUST be inserted (idempotent on session_id) and HITLMetadata status set to "escalated"". |
| `TimeoutScheduler` | `QueuedWasEscalated` | `services/hitl/service.py:601` | The insert into support_queue does not depend on the update having found a paused row. services/hitl/service.py:547: "Escalates session to SupportQueue due to timeout (T049)." |
| `TimeoutScheduler` | `RejectedStays` | `services/hitl/service.py:408` | process_reject writes nothing to the pause until its run has ended, so the scheduler hands a review over that is being rejected. docs/specs/004-human-in-loop-hitl/spec.md:394 (FR-027): "No admin action (approve/reject/edit) is permitted on an escalated session". |
| `TelegramTurns` | `ProcessedOnce` | `services/telegram_service.py:76` | record_telegram_update returns None for the second insert and the webhook does not look at what it returns. docs/specs/006-telegram-docker/spec.md:127, FR-023. |
| `TelegramTurns` | `NothingLost` | `api/webhooks/telegram.py:142` | The task exists in memory only. docs/specs/006-telegram-docker/tasks.md:357, SC-011. |
| `TelegramTurns` | `PutOffIsRead` | `core/telegram/message_handler.py:143` | queue_consumer_node, which reads the rows, runs only after an interrupt of the same session. services/resilience.py:258: the customer is told that a person will reply. |
| `CustomerMemory` | `ErasedGone` | `api/routes/memory.py:584` | A run keeps the messages it loaded; its next checkpoint, after the erasure, holds them all, and nothing looks for runs under way. docs/specs/005-async-persistence-memory/spec.md:157 (FR-019): "it MUST permanently delete: all semantic memory entries, all intent tracking records, all conversation summaries, and all checkpoints for that customer". |
| `CustomerMemory` | `NothingLeft` | `api/routes/memory.py:560` | Threads are looked up in four tables that small talk, failed or declined turns do not write; their checkpoints stay. docs/specs/005-async-persistence-memory/spec.md:157 (FR-019): "all checkpoints for that customer". |
| `CustomerMemory` | `PausedHasCheckpoint` | `api/routes/memory.py:583` | The erasure asks nothing about pauses. docs/specs/005-async-persistence-memory/spec.md:157 (FR-019): "Checkpoints with pending HITL interrupts MUST require explicit admin confirmation before deletion"; plan.md:40: "deletion blocked on `HITLMetadata.status == 'paused'`". |
| `CustomerMemory` | `LogHasRow` | `api/routes/memory.py:573` | The logs are deleted in one statement and the tracking rows in another that waits for the task's lock, so the task's log stays and its row goes. api/routes/memory.py:569: "T145: Transactional cascade delete". |
| `CustomerMemory` | `PatchSticks` | `api/routes/memory.py:320` | update_status commits nothing, nor does the route, and get_db closes the session. api/routes/memory.py:309-310: "Returns: Updated intent tracking record". |
| `CustomerMemory` | `HistoryKept` | `api/routes/agent.py:159` | Nothing serialises the turns of a session that is not paused; each saves what it loaded and its own message. docs/specs/005-async-persistence-memory/spec.md:78: "all states are saved correctly with no race condition" (said of conversations beside one another). |
| `AgentGraph` | `HandOverIsTold` | `core/agent/graph.py:291` | order_execution_node and cancellation_node go to customer_support_node while build_graph's static edge leads them to answer_node: both set `response`, which has no reducer, and the turn ends with InvalidUpdateError. core/agent/nodes/order_execution.py:28, _fail: "the customer must be told the order did NOT go through". |
| `AgentGraph` | `SecondRound` | `core/agent/nodes/confidence.py:97` | retrieval_node sets resolved_query whenever it merges a reply, which confidence_node takes for resolved. core/agent/nodes/confidence.py:107: "2 rounds for in-catalog ambiguity, then handoff"; tests/unit/test_confidence_node.py:101: round 2 still clarifies. |
| `AgentGraph` | `OrderAskedOnce` | `core/agent/nodes/retrieval.py:298` | An ORDER reply is not merged but resets clarify_count, so the quota is never reached. core/agent/nodes/confidence.py:186: "Ask ONE clarifying question instead. Anti-loop: clarify_count < 1". |
| `AgentGraph` | `RoutedOnce` | `core/agent/graph.py:246` | LangGraph follows the conditional edge of a node that returns a Command as well. core/agent/graph.py:245: "For diagram rendering, add conditional edges that mirror the routing logic". |
| `AgentGraph` | `CancelAnswered` | `core/agent/nodes/router.py:565` | _route_after_router has no branch for CANCEL and leads to retrieval_node, whose chain answers one super-step later and overwrites the reply. core/agent/nodes/cancellation.py:43: "Respond with what happened". |
| `AgentGraph` | `RefusalStands` | `core/agent/nodes/router.py:245` | The intent OTHER is routed to retrieval_node by the conditional edge. core/agent/nodes/router.py:241: "gets a fixed refusal and never reaches a generation LLM". |
| `AgentGraph` | `RejectedIsFinal` | `core/agent/nodes/confidence.py:308` | After the rejection the chain of the router's second edge may still be on its way and pauses for the same order. docs/specs/004-human-in-loop-hitl/spec.md:252: "execution routes to `customer_support_node` (not `__end__` directly), which composes an empathetic message including the rejection reason, then ends". |
| `AnswerTurns` | `HeldIsQueued` | `core/agent/answer_support.py:165` | The row is flushed; neither answer_node, which returns at once, nor the graph, nor get_db or the Telegram handler commits the session afterwards. core/agent/answer_support.py:129: "get the holding message and land in the support queue so a human picks the turn up". |
| `AnswerTurns` | `NeverStale` | `services/semantic_cache.py:159` | A turn whose search came before the change writes its answer after the invalidation, for up to CACHE_TTL_SECONDS; so does a split question that reads the citations of a row about to be deleted. services/semantic_cache.py:165: "TTL alone leaves a staleness window; this closes it immediately". |
| `AnswerTurns` | `KeyedByQuestion` | `core/agent/nodes/retrieval.py:418` | The merged result keeps canonical_query and query_vector of the last sub-query, under which the answer to the whole question is cached. core/agent/answer_support.py:195: "canonical_query == the pronoun-EXPANDED query that get_l1_cache hashed — deterministic, and context-correct". |
| `AnswerTurns` | `RiskyNeverLocal` | `services/resilience.py:208` | light-chat, preferred over the daily cost, is put on top of the ladder as a cloud rung; by default it is served locally. services/resilience.py:30: "ORDER/NEGOTIATION/COMPLAINT never accept an answer from the local or cache rungs". |
| `AnswerTurns` | `CallsCounted` | `core/agent/nodes/answer.py:517` | add_token_usage has one caller in the ladder and one in the tool loop; a regeneration has none. models/schema.py:519: the tokens of the day per model. |
| `AnswerTurns` | `CoolingIsLeftAlone` | `core/agent/nodes/answer.py:517` | _verify_grounded calls AIGateway.complete directly. services/resilience.py:47: rungs that are cooling down are not tried. |
| `AnswerTurns` | `EscalationAnswered` | `core/agent/nodes/answer.py:281` | The cascade passes economy-chat as preferred_model, complete_with_ladder starts at that rung, and it is local: a COMPLAINT or NEGOTIATION turn stops before it and gets the holding message although every model works. core/agent/nodes/answer.py:268: "intent escalations (COMPLAINT/NEGOTIATION) answer on economy-chat first; premium only when groundedness fails"; tests/integration/test_agent_flow.py:139: "COMPLAINT routes to escalation_node → cascade verification". |
| `SupportTurns` | `ComplaintHeard` | `core/support/nodes/answer.py:203` | The cached answer is returned before the intent is looked at. core/support/graph.py:53: "COMPLAINT always answers (apology + handoff)". |
| `SupportTurns` | `ComplaintNotMerged` | `core/agent/nodes/retrieval.py:270` | support_router_node resets nothing. core/agent/nodes/retrieval.py:266: "Actionable intent shifts (CANCEL/COMPLAINT/NEGOTIATION/...) are already reset by router_node's Context Reset Invariant before this node runs". |
| `SupportTurns` | `ReplyMergedNextTurn` | `core/support/nodes/router.py:104` | The fast path takes "ok" and "oke" for a greeting whatever is pending. core/agent/nodes/retrieval.py:286: "ok" is among the affirmations that are merged with the pending question. |
| `SupportTurns` | `FiledByQuestion` | `core/support/nodes/answer.py:93` | _build_messages and _ground use user_message, the reply alone; the sales persona passes resolved_query (answer_prompt.py:170, answer.py:498). core/agent/answer_support.py:195: "canonical_query == the pronoun-EXPANDED query that get_l1_cache hashed — deterministic, and context-correct". |
| `SupportTurns` | `OnlyAnswersCached` | `core/support/nodes/answer.py:275` | An empty first draft is replaced by the decline message with declined False, and a second one is kept; check_groundedness passes both. services/rag/pipeline.py:96: "Only accepted answers are ever cached". |
| `SupportTurns` | `CitedWasUsed` | `api/routes/support.py:74` | _turn_citations looks at declined and the intent alone. api/routes/support.py:67: "Citations used by THIS turn only". |

A few more were met while reading and have no property of their own:

- A search that fails beside a guard whose resumption fails: both set `error`, which has no
  reducer, and the turn ends with InvalidUpdateError (`core/agent/nodes/retrieval.py:246-257`,
  `core/agent/nodes/hitl_guard.py:580`). `SearchClashesOnFailure` allows this one clash.
- `flag_stale` is never called; no code resolves a row of `support_queue`, and none sets
  the status "abandoned" but the command-line tool.
- `thread_summary_exists` is reset at every turn (`core/agent/state.py:336`).
- `ConversationSummarizer.summarize` (`services/memory/summarizer.py`, about line 107)
  calls `m.get` on LangChain messages; the error is caught and no summary is saved.
- `carry_contact` (`core/agent/order_slots.py`) takes over the contact of a parked order
  whether or not `is_fresh` says it has expired.
- A quantity in the reply that names the contact is not read.
- The hand-off after too many reviews does not clear `pending_order`.
- A blank draft the support persona writes again is sent as an empty reply.
- The alert latch of `timeout_scheduler.py:97` is one per process, and four processes run.

## Not modelled

- **Wording and models.** Prompts, the language models' texts, ranking and embeddings:
  their outcome is a choice where a branch depends on it.
- **Summaries and embeddings.** Neither is ever written (see above).
- **Administrators' alerts.** Text that is sent on a condition; the database is not
  changed. The latch is named above.
- **Real time.** The limits of 30 and 60 minutes, the drafts' age, the cool-downs, the
  cache's and the parked order's time to live and the price's 5 % are kept; seconds are
  not.
- **Limiters that only delay.** Requests a minute, the embedding queue, the guard around
  a tool's call: a call returns or fails, whenever.
- **Routes, schema, command line, scripts, notices, the nightly archive.** They parse,
  send, report or run by hand; where they change state the models know of, the route is
  part of an action. `cli/memory.py` and `cli/rag_admin.py` call the services modelled
  here, or plain SQL, for an operator; `scripts/` load data and evaluate answers.

## Plan

What a human decides and what is sold came first, then how a message becomes a turn and
a turn an answer. Next, in this order:

1. Proofs: what is left of `OrderWasApproved` with several requests over REST (an order
   is placed by some approval of its session).
2. Refinement: `AgentGraph`'s order branch against `OrderPipeline` reduced to one
   order's verdict; `TelegramTurns` against an abstract "one reply for an update".
3. `AdminAlerts`: a latch per process.
