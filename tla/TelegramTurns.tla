---------------------------- MODULE TelegramTurns ----------------------------
(****************************************************************************)
(* How a customer's message becomes a turn: the Telegram webhook with its   *)
(* deduplication, the background task that handles the update, the gateway  *)
(* of a session under review, the cap on concurrent turns, and the reply    *)
(* (api/webhooks/telegram.py, services/telegram_service.py,                 *)
(* core/telegram/message_handler.py, api/dependencies.py); beside it        *)
(* POST /agent/query, which has the gateway only (api/routes/agent.py).     *)
(*                                                                          *)
(* A delivery is one arrival of an update: Telegram repeats an update it    *)
(* has no answer for.  What a turn does is AgentGraph's; here it ends, may  *)
(* pause its session for a review, or raises.  HitlReview has the reviews;  *)
(* here they block a session and a resumed run reads its queue.             *)
(* Its names and those of AgentGraph differ, so that a module can extend    *)
(* both.                                                                    *)
(****************************************************************************)
EXTENDS Naturals, FiniteSets

CONSTANTS
  Chats,          \* sessions, one per chat
  Updates,        \* messages to the bot, and the ones to POST /agent/query
  ViaApi,         \* the latter
  ChatOf,         \* update -> chat
  Worlds,         \* what a behaviour may meet, see World
  MaxTurns,       \* LLM_MAX_CONCURRENT_TURNS
  MaxSends,       \* max_retries of send_telegram_message
  MaxDrain,       \* rows a resumed run takes from its queue, the limit(20)
  MaxDeliveries   \* bound on the deliveries of one update

\* sent: the messages.  again: updates Telegram repeats.  restarts: whether the process may
\* restart.  fails: whether a turn, a resumed run or a message to Telegram may
\* fail.
World == [sent : SUBSET Updates, again : SUBSET Updates, restarts : BOOLEAN, fails : BOOLEAN]

ASSUME WorldsAssumption == Worlds \subseteq World
ASSUME ChatOfAssumption == ChatOf \in [Updates -> Chats] /\ ViaApi \subseteq Updates
ASSUME BoundsAssumption ==
  /\ MaxTurns \in Nat \ {0} /\ MaxSends \in Nat \ {0}
  /\ MaxDrain \in Nat \ {0} /\ MaxDeliveries \in Nat \ {0}

VARIABLES
  world,          \* the member of Worlds this behaviour lives in
  tries,          \* deliveries of each update so far
  heard,          \* updates Telegram has an answer for
  hook,           \* where the request of each delivery is
  recorded,       \* telegram_updates
  task,           \* where the task of each delivery is
  reply,          \* what the task is yet to tell the customer
  sends,          \* attempts to send it
  free,           \* the semaphore
  review,         \* hitl_metadata: whether a review blocks the session
  resumed,        \* sessions whose review is over and whose queue is not yet read
  queue,          \* queued_messages: the deliveries not processed yet
  told,           \* deliveries whose customer has the reply
  aside,          \* history: rows queued, or left behind, where no run reads them
  cut             \* history: deliveries a restart ended after their record

delivery == <<tries, heard, hook, recorded>>
handling == <<task, reply, sends, free>>
sessions == <<review, resumed, queue, aside>>
ingress == <<world, delivery, handling, sessions, told, cut>>

Deliveries == Updates \X (1 .. MaxDeliveries)

Chat(d) == ChatOf[d[1]]
Api(d) == d[1] \in ViaApi
Blocked(c) == review[c] # "none"
Rows(c) == {d \in queue : Chat(d) = c}
Running == {d \in Deliveries : task[d] = "turn" /\ ~Api(d)}

IngressInit ==
  /\ world \in Worlds
  /\ tries = [u \in Updates |-> 0]
  /\ heard = {}
  /\ hook = [d \in Deliveries |-> "none"]
  /\ recorded = {}
  /\ task = [d \in Deliveries |-> "none"]
  /\ reply = [d \in Deliveries |-> "none"]
  /\ sends = [d \in Deliveries |-> 0]
  /\ free = MaxTurns
  /\ review = [c \in Chats |-> "none"]
  /\ resumed = {}
  /\ queue = {}
  /\ told = {}
  /\ aside = {}
  /\ cut = {}

Hook(d, from, to) == hook[d] = from /\ hook' = [hook EXCEPT ![d] = to]
Task(d, from, to) == task[d] = from /\ task' = [task EXCEPT ![d] = to]
Tell(d, what) == reply' = [reply EXCEPT ![d] = what]
------------------------------------------------------------------------------
(****************************************************************************)
(* The webhook.                                                             *)
(****************************************************************************)
\* Telegram delivers an update, and repeats it while it has no answer: the
\* connection broke, or the request takes too long.
Deliver(u) ==
  /\ u \in world.sent \ (ViaApi \union heard)
  /\ tries[u] < (IF u \in world.again THEN MaxDeliveries ELSE 1)
  /\ tries' = [tries EXCEPT ![u] = @ + 1]
  /\ hook' = [hook EXCEPT ![<<u, tries[u] + 1>>] = "check"]
  /\ UNCHANGED <<world, heard, recorded, handling, sessions, told, cut>>

\* validate_message_timestamp: a message sent more than five minutes ago is
\* refused, however often it is repeated.
TooOld(u) ==
  /\ u \in world.sent \ (ViaApi \union heard)
  /\ u \in world.again /\ tries[u] < MaxDeliveries
  /\ tries' = [tries EXCEPT ![u] = MaxDeliveries]
  /\ UNCHANGED <<world, heard, hook, recorded, handling, sessions, told, cut>>

\* check_duplicate_update
Check(d) ==
  /\ Hook(d, "check", IF d[1] \in recorded THEN "ack" ELSE "record")
  /\ UNCHANGED <<world, tries, heard, recorded, handling, sessions, told, cut>>

\* record_telegram_update: the unique constraint refuses a second row, which
\* the webhook does not learn.
Record(d) ==
  /\ Hook(d, "record", "spawn")
  /\ recorded' = recorded \union {d[1]}
  /\ UNCHANGED <<world, tries, heard, handling, sessions, told, cut>>

Spawn(d) ==
  /\ Hook(d, "spawn", "ack")
  /\ Task(d, "none", "start")
  /\ UNCHANGED <<world, tries, heard, recorded, reply, sends, free, sessions, told, cut>>

\* The answer is on its way; it may be lost.
Ack(d) ==
  /\ Hook(d, "ack", "over")
  /\ heard' \in {heard \union {d[1]}} \union (IF d[1] \in world.again THEN {heard} ELSE {})
  /\ UNCHANGED <<world, tries, recorded, handling, sessions, told, cut>>
------------------------------------------------------------------------------
(****************************************************************************)
(* process_telegram_message and post_agent_query.                           *)
(****************************************************************************)
Ask(u) ==
  /\ u \in world.sent \intersect ViaApi /\ tries[u] = 0
  /\ tries' = [tries EXCEPT ![u] = 1]
  /\ Task(<<u, 1>>, "none", "start")
  /\ UNCHANGED <<world, heard, hook, recorded, reply, sends, free, sessions, told, cut>>

\* No text, or an /inventory question: an answer without a turn.
PlainReply(d) ==
  /\ ~Api(d)
  /\ Task(d, "start", "send") /\ Tell(d, "plain")
  /\ UNCHANGED <<world, delivery, sends, free, sessions, told, cut>>

\* check_paused_session reads the review ...
Gateway(d) ==
  /\ Task(d, "start", IF Blocked(Chat(d)) THEN "enqueue" ELSE IF Api(d) THEN "turn" ELSE "permit")
  /\ UNCHANGED <<world, delivery, reply, sends, free, sessions, told, cut>>

\* ... and queues the message of a blocked session in a later transaction.
PutInQueue(d) ==
  /\ Task(d, "enqueue", "send") /\ Tell(d, "noted")
  /\ queue' = queue \union {d}
  /\ aside' = IF Blocked(Chat(d)) \/ Chat(d) \in resumed THEN aside ELSE aside \union {d}
  /\ UNCHANGED <<world, delivery, sends, free, review, resumed, told, cut>>

\* turn_semaphore: taken without waiting, or else the message is queued and
\* the customer put off.
Permit(d) ==
  /\ free > 0
  /\ Task(d, "permit", "turn")
  /\ free' = free - 1
  /\ UNCHANGED <<world, delivery, reply, sends, sessions, told, cut>>

Overflow(d) ==
  /\ free = 0
  /\ Task(d, "permit", "send") /\ Tell(d, "holding")
  /\ queue' = queue \union {d}
  /\ aside' = aside \union {d}
  /\ UNCHANGED <<world, delivery, sends, free, review, resumed, told, cut>>

\* The permit goes back in a finally clause.
Release(d) == free' = IF Api(d) THEN free ELSE free + 1

TurnEnds(d) ==
  /\ Task(d, "turn", "send") /\ Tell(d, "answer")
  /\ Release(d)
  /\ UNCHANGED <<world, delivery, sends, sessions, told, cut>>

TurnPauses(d) ==
  /\ Task(d, "turn", "send") /\ Tell(d, "pending")
  /\ Release(d)
  /\ review' = [review EXCEPT ![Chat(d)] = IF @ = "none" THEN "paused" ELSE @]
  /\ UNCHANGED <<world, delivery, sends, resumed, queue, aside, told, cut>>

\* Mutant: the permit of a turn that raises is not given back.
TurnFailsAndKeeps(d) ==
  /\ world.fails
  /\ Task(d, "turn", "send") /\ Tell(d, "error")
  /\ UNCHANGED <<world, delivery, sends, free, sessions, told, cut>>

TurnFails(d) ==
  /\ world.fails
  /\ Task(d, "turn", "send") /\ Tell(d, "error")
  /\ Release(d)
  /\ UNCHANGED <<world, delivery, sends, sessions, told, cut>>

Send(d) ==
  /\ Task(d, "send", "over") /\ Tell(d, "none")
  /\ told' = told \union {d}
  /\ UNCHANGED <<world, delivery, sends, free, sessions, cut>>

\* Mutant: after the last attempt the count begins anew.
SendFailsForever(d) ==
  /\ world.fails /\ ~Api(d)
  /\ sends' = [sends EXCEPT ![d] = (@ + 1) % MaxSends]
  /\ Task(d, "send", "send")
  /\ UNCHANGED <<world, delivery, reply, free, sessions, told, cut>>

\* An attempt fails; the last one is logged and that is all.
SendFails(d) ==
  /\ world.fails /\ ~Api(d)
  /\ sends' = [sends EXCEPT ![d] = @ + 1]
  /\ Task(d, "send", IF sends[d] + 1 < MaxSends THEN "send" ELSE "over")
  /\ Tell(d, IF sends[d] + 1 < MaxSends THEN reply[d] ELSE "none")
  /\ UNCHANGED <<world, delivery, free, sessions, told, cut>>
------------------------------------------------------------------------------
(****************************************************************************)
(* What the rest of the system does to a session: a review is approved,     *)
(* which unblocks it before the resumed run reads the queue; it is          *)
(* rejected, which unblocks it and reads nothing; it goes to human support, *)
(* which keeps it blocked.                                                  *)
(****************************************************************************)
ReviewApproved(c) ==
  /\ review[c] = "paused"
  /\ review' = [review EXCEPT ![c] = "none"]
  /\ resumed' = resumed \union {c}
  /\ UNCHANGED <<world, delivery, handling, queue, aside, told, cut>>

\* The run of a rejection goes from the guard to support and the answer; the
\* approval of an edited review finds no interrupt and runs nothing.
ReviewEndsUnread(c) ==
  /\ review[c] = "paused"
  /\ review' = [review EXCEPT ![c] = "none"]
  /\ aside' = IF c \in resumed THEN aside ELSE aside \union Rows(c)
  /\ UNCHANGED <<world, delivery, handling, resumed, queue, told, cut>>

\* Mutant: the rows are read but not marked.
DrainForgets(c) ==
  /\ c \in resumed
  /\ resumed' = resumed \ {c}
  /\ UNCHANGED <<world, delivery, handling, review, queue, aside, told, cut>>

\* What one run takes: at most MaxDrain rows, and as many as there are.
Batches(c) ==
  {R \in SUBSET Rows(c) : Cardinality(R) = MaxDrain \/ (R = Rows(c) /\ Cardinality(R) < MaxDrain)}

\* queue_consumer_node reads a batch and may pause again; what it leaves waits
\* for that pause, or for nobody.
Drain(c) ==
  /\ c \in resumed
  /\ resumed' = resumed \ {c}
  /\ \E R \in Batches(c), pauses \in BOOLEAN :
       /\ queue' = queue \ R
       /\ review' = [review EXCEPT ![c] = IF pauses /\ @ = "none" THEN "paused" ELSE @]
       /\ aside' = IF pauses \/ Blocked(c) THEN aside ELSE aside \union (Rows(c) \ R)
  /\ UNCHANGED <<world, delivery, handling, told, cut>>

\* The run ends after the approval is committed and before it reads: it raises,
\* or the guard, run again, hands an order that has become too risky to support.
RunEndsUnread(c) ==
  /\ c \in resumed
  /\ resumed' = resumed \ {c}
  /\ aside' = aside \union Rows(c)
  /\ UNCHANGED <<world, delivery, handling, review, queue, told, cut>>

Escalate(c) ==
  /\ review[c] = "paused"
  /\ review' = [review EXCEPT ![c] = "escalated"]
  /\ UNCHANGED <<world, delivery, handling, resumed, queue, aside, told, cut>>
------------------------------------------------------------------------------
\* The process restarts: requests, tasks, runs and permits are gone, the
\* tables stay.
Restart ==
  /\ world.restarts
  /\ cut' = cut \union {d \in Deliveries : task[d] \notin {"none", "over"} \/ hook[d] = "spawn"}
  /\ hook' = [d \in Deliveries |-> IF hook[d] = "none" THEN "none" ELSE "over"]
  /\ task' = [d \in Deliveries |-> IF task[d] = "none" THEN "none" ELSE "over"]
  /\ free' = MaxTurns
  /\ aside' = aside \union UNION {Rows(c) : c \in resumed}
  /\ resumed' = {}
  /\ world' = [world EXCEPT !.restarts = FALSE]
  /\ reply' = [d \in Deliveries |-> "none"]
  /\ UNCHANGED <<tries, heard, recorded, sends, review, queue, told>>

Webhook(d) == Check(d) \/ Record(d) \/ Spawn(d) \/ Ack(d)

Handle(d) ==
  \/ PlainReply(d) \/ Gateway(d) \/ PutInQueue(d) \/ Permit(d) \/ Overflow(d)
  \/ TurnEnds(d) \/ TurnPauses(d) \/ TurnFails(d)
  \/ Send(d) \/ SendFails(d)

IngressNext ==
  \/ \E u \in Updates : Deliver(u) \/ TooOld(u) \/ Ask(u)
  \/ \E d \in Deliveries : Webhook(d) \/ Handle(d)
  \/ \E c \in Chats : ReviewApproved(c) \/ ReviewEndsUnread(c) \/ Drain(c) \/ RunEndsUnread(c)
                      \/ Escalate(c)
  \/ Restart

IngressSpec == IngressInit /\ [][IngressNext]_ingress

\* The event loop goes on with every request and every task; a resumed run
\* reads its queue or raises.  Nothing obliges Telegram, the customers or the
\* administrators.
Fairness ==
  /\ \A d \in Deliveries : WF_ingress(Webhook(d) \/ Handle(d))
  /\ \A c \in Chats : WF_ingress(Drain(c) \/ RunEndsUnread(c))

LiveSpec == IngressSpec /\ Fairness
------------------------------------------------------------------------------
IngressTypeOK ==
  /\ world \in World
  /\ tries \in [Updates -> 0 .. MaxDeliveries]
  /\ heard \subseteq Updates
  /\ hook \in [Deliveries -> {"none", "check", "record", "spawn", "ack", "over"}]
  /\ recorded \subseteq Updates
  /\ task \in [Deliveries -> {"none", "start", "enqueue", "permit", "turn", "send", "over"}]
  /\ reply \in [Deliveries -> {"none", "plain", "noted", "holding", "answer", "pending", "error"}]
  /\ sends \in [Deliveries -> 0 .. MaxSends]
  /\ free \in 0 .. MaxTurns
  /\ review \in [Chats -> {"none", "paused", "escalated"}]
  /\ resumed \subseteq Chats
  /\ queue \subseteq Deliveries
  /\ told \subseteq Deliveries
  /\ aside \subseteq Deliveries
  /\ cut \subseteq Deliveries

\* The holding message of an overflow means that MaxTurns turns were running:
\* no failed turn, restart or paused session uses up the cap.
OverflowNeedsFullHouse ==
  [][\A d \in Deliveries :
       reply[d] = "none" /\ reply'[d] = "holding" => Cardinality(Running) = MaxTurns]_ingress

\* A queued message that no review and no resumed run will read was put there
\* by an overflow, came in after its review was over, was more than a run takes,
\* or its review ended without a run that reads: rejected, or broken off.
StrandedNeedsMishap ==
  \A d \in queue : Blocked(Chat(d)) \/ Chat(d) \in resumed \/ d \in aside

Given(u) == \E d \in Deliveries : d[1] = u /\ (d \in told \/ d \in cut \/ sends[d] = MaxSends)

\* An update that is recorded is replied to, unless a restart ends its task or
\* every attempt to send the reply fails.
UpdateAnswered == \A u \in Updates : u \in recorded ~> Given(u)
------------------------------------------------------------------------------
(****************************************************************************)
(* What the documents promise and the code does not keep.                   *)
(****************************************************************************)
\* docs/specs/006-telegram-docker/spec.md:127 and :158
ProcessedOnce ==
  \A d, e \in Deliveries : task[d] # "none" /\ task[e] # "none" /\ d[1] = e[1] => d = e

\* docs/specs/006-telegram-docker/tasks.md:357, SC-011: no message is lost.
NothingLost == \A u \in Updates : u \in recorded ~> \E d \in told : d[1] = u

\* services/resilience.py:258: the shop follows up a message it put off.
PutOffIsRead == \A d \in Deliveries : d \in queue ~> d \notin queue \/ Blocked(Chat(d))
==============================================================================
