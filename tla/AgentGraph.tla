----------------------------- MODULE AgentGraph ------------------------------
(***************************************************************************)
(* One session's thread of the agent graph at the level of LangGraph's     *)
(* super-steps: the nodes that are due read one snapshot of the channels,  *)
(* their writes are applied together, and every edge of a finished node is *)
(* followed, the goto of its Command as well as its static and conditional *)
(* edges. A node is one action; what it finds out from the message, a      *)
(* model or the database is a nondeterministic choice.                     *)
(***************************************************************************)
EXTENDS Naturals, FiniteSets

CONSTANTS
  Asked,      \* the intents customers have, a subset of Intents
  Quota,      \* CLARIFY_MAX_ROUNDS
  MaxCount,   \* HITL_MAX_ESCALATION_COUNT
  Limit       \* AGENT_RECURSION_LIMIT

\* "INFO" stands for INFO_QUERY, AVAILABILITY and COMPARISON.
Intents == {"INFO", "PRICING", "ORDER", "NEGOTIATION", "COMPLAINT",
            "CANCEL", "SMALLTALK", "FOLLOW_UP", "OTHER"}
Hard == {"COMPLAINT", "NEGOTIATION"}          \* _ESCALATION_INTENTS
HesitationFlip == {"ORDER", "NEGOTIATION"}    \* HESITATION_FLIP_SOURCES
ContextReset == {"ORDER", "CANCEL", "COMPLAINT", "NEGOTIATION", "SMALLTALK"}
Borderline == {"INFO", "PRICING"}
Transactional == {"ORDER"} \cup Hard          \* _STRANGE_TRANSITIONS
\* Below SHIFT_KEEP_CONFIDENCE, in between, at least SHIFT_ACCEPT_CONFIDENCE.
Certainty == {"keep", "mid", "accept"}

ASSUME AskedAssumption == Asked \subseteq Intents
ASSUME QuotaAssumption == Quota \in Nat /\ MaxCount \in Nat /\ Limit \in Nat

Nodes == {"router", "retrieval", "memory", "confidence", "clarify", "escalation",
          "guard", "queue", "fresh", "execute", "cancel", "support", "answer"}

VARIABLES
  ch,         \* the channels of the last checkpoint
  due,        \* nodes of the current super-step that have not finished
  wrote,      \* the finished ones' pending writes, [by, set]
  sent,       \* the targets of their edges
  phase,      \* "idle", "run", "paused": the guard's interrupt
  steps,      \* super-steps of this invocation
  confirmed,  \* the session has a confirmed order in the database
  backlog,    \* unprocessed queued messages
  verdict,    \* history: the last verdict of this turn on its order
  placed,     \* history: orders placed in this turn
  asked,      \* history: the intent the last turn asked to clarify
  broken      \* history: the last turn was aborted

run == <<due, wrote, sent, phase, steps>>
history == <<verdict, placed, asked, broken>>
vars == <<ch, run, confirmed, backlog, history>>

\* Channels of f, and of g where f has none.
f ++ g == [c \in DOMAIN f \cup DOMAIN g |-> IF c \in DOMAIN f THEN f[c] ELSE g[c]]

Answers == {"none", "refusal", "question", "contact", "unknown", "mismatch",
            "confirmed", "sold", "expired", "cancelled", "handoff", "edited", "said"}

\* Cross-turn channels, and those make_initial_state resets.
CrossTurn == {"intent", "doubts", "awaiting", "rounds", "parked", "exhausted"}
PerTurn ==
  [hard |-> FALSE, response |-> "none", declined |-> FALSE, error |-> FALSE,
   sim |-> "low", cached |-> FALSE, resolved |-> FALSE, memory |-> FALSE,
   clarify |-> FALSE, loop |-> FALSE, order |-> "none", contact |-> FALSE,
   mismatch |-> FALSE, approved |-> FALSE, count |-> 0]
NewThread ==
  [intent |-> "none", doubts |-> 0, awaiting |-> FALSE, rounds |-> 0,
   parked |-> FALSE, exhausted |-> FALSE]

Nothing == [c \in {} |-> FALSE]     \* no channel set

Init ==
  /\ ch = NewThread ++ PerTurn
  /\ due = {} /\ wrote = Nothing /\ sent = {} /\ phase = "idle" /\ steps = 0
  /\ confirmed = FALSE /\ backlog = FALSE
  /\ verdict = "none" /\ placed = 0 /\ asked = "none" /\ broken = FALSE

\* What a node returns: the channels it sets and where its Command goes.
Returns(set, goto) == [set |-> set, goto |-> goto]
-----------------------------------------------------------------------------
(* router_node                                                               *)

\* _with_context_reset: a shift to an actionable intent drops the pending
\* question.
Reset(intent, shift) ==
  IF shift /\ intent \in ContextReset THEN [awaiting |-> FALSE, rounds |-> 0] ELSE Nothing

Classified(intent, hard, doubts, shift) ==
  Reset(intent, shift) ++ [intent |-> intent, hard |-> hard, doubts |-> doubts]
\* The paths that call no model: the intent is taken as it is.
Plain(intent) == Classified(intent, FALSE, 0, ch.intent \notin {"none", intent})

\* apply_transition
Transition(intent, hard, conf) ==
  IF ch.intent \in {"none", intent} THEN Classified(intent, hard, 0, FALSE)
  ELSE IF ch.doubts + 1 >= 2 THEN Classified(intent, hard, 0, TRUE)
  ELSE IF conf = "keep"
       THEN Classified(ch.intent, hard \/ intent \in Hard, ch.doubts + 1, FALSE)
  ELSE IF intent = "SMALLTALK" /\ ch.intent \in Transactional /\ conf = "mid"
       THEN Classified("FOLLOW_UP", FALSE, ch.doubts + 1, FALSE)
  ELSE Classified(intent, hard, 0, TRUE)

\* normalize_priority: a COMPLAINT or NEGOTIATION stays secondary only to an
\* intent of higher rank.
Ranked(r) == r.hard => r.intent \in {"CANCEL", "COMPLAINT"}
\* What the classifier reads in the message, or the fallback: the intent,
\* whether a secondary one is hard, how certain it is.
Readings == {r \in [intent : Asked, hard : BOOLEAN, conf : Certainty] : Ranked(r)}

\* _get_next_node
NextNode(c) ==
  IF c.intent = "CANCEL" THEN "cancel"
  ELSE IF c.intent = "ORDER" THEN "retrieval"
  ELSE IF c.intent \in Hard \/ c.hard THEN "escalation"
  ELSE IF c.intent = "SMALLTALK" THEN "answer"
  ELSE IF c.intent = "FOLLOW_UP" THEN "memory"
  ELSE "retrieval"

\* The reply names the phone or the address: the parked order goes on.
SlotResume ==
  {Returns(Plain("ORDER") ++ [order |-> "draft", contact |-> c], {"guard"}) : c \in BOOLEAN}

\* The fast path of small talk and the whitelist of keywords.
FastPaths ==
  {Returns(Plain(i), {NextNode(Plain(i))}) : i \in Asked \cap {"SMALLTALK", "INFO", "PRICING"}}

Router ==
  {Returns([intent |-> "OTHER", hard |-> FALSE, response |-> "refusal"], {"answer"}) :
     x \in Asked \cap {"OTHER"}}                           \* input guard
  \cup {Returns(Plain(i), {"cancel"}) : i \in Asked \cap {"CANCEL"}}  \* words of a cancellation
  \cup {Returns(Classified("CANCEL", FALSE, 0, TRUE), {"cancel"}) :    \* hesitation
          i \in Asked \cap HesitationFlip \cap {ch.intent}}
  \cup (IF ch.parked THEN SlotResume ELSE {})
  \cup FastPaths
  \cup {LET c == Transition(r.intent, r.hard, r.conf) IN Returns(c, {NextNode(c)}) : r \in Readings}
-----------------------------------------------------------------------------
(* From retrieval to the answer                                              *)

\* A reply is merged into the query it was asked about; anything else ends
\* the clarification.
Merges == ch.awaiting /\ ch.intent # "ORDER"
Merged ==
  IF Merges THEN [awaiting |-> FALSE]
  ELSE IF ch.awaiting \/ ch.rounds > 0 THEN [awaiting |-> FALSE, rounds |-> 0]
  ELSE Nothing

\* Mutant: a merged query is not resolved.
ResolvedRecalled == BOOLEAN
\* What the customer meant: the query with what was asked about, or with the
\* product a pronoun, a number or "the one of yesterday" stands for.
Resolved == IF Merges THEN {TRUE} ELSE BOOLEAN

\* Declined below the threshold of the first layer; found, as a whole or in
\* parts; in the cache, with a similarity of 1; or the search failed.
Found ==
  {f \in [sim : {"low", "mid", "high"}, declined : BOOLEAN, cached : BOOLEAN] :
     (f.declined <=> f.sim = "low") /\ (f.cached => f.sim = "high")}
SearchFailed == [sim |-> "low", declined |-> TRUE, cached |-> FALSE, error |-> TRUE]
Retrieval ==
  {Returns(f ++ ([resolved |-> r] ++ Merged), {}) :
     f \in Found \cup {SearchFailed}, r \in Resolved}

\* Mutant: what memory holds lifts any refusal.
MemoryLifts ==
  {Returns([memory |-> m] ++ IF m THEN [declined |-> FALSE] ELSE Nothing, {}) : m \in BOOLEAN}
Memory ==
  {Returns([memory |-> m] ++ IF m /\ ch.intent = "FOLLOW_UP" THEN [declined |-> FALSE]
                             ELSE Nothing, {}) :
     m \in IF ch.intent = "SMALLTALK" THEN {FALSE} ELSE BOOLEAN}

\* Recall replaces what the customer meant, or nothing was searched.
MemoryResolved == ch.resolved \/ ch.intent = "FOLLOW_UP"

MayAsk(tie) ==
  /\ ch.sim # "high" /\ ch.intent \notin {"ORDER", "FOLLOW_UP", "PRICING"}
  /\ ~MemoryResolved /\ ch.rounds < Quota
  /\ ch.intent = "INFO" => tie
OutOfQuestions == ch.sim = "mid" /\ ch.rounds >= Quota /\ ch.intent = "INFO"

HandOver == [declined |-> FALSE, clarify |-> FALSE, exhausted |-> TRUE, loop |-> TRUE]
Scored(declined, clarify) == [declined |-> declined, clarify |-> clarify]

\* Two candidates an ORDER does not tell apart, one that is not what was asked
\* for, or the order, with the contact the session already gave.
FoundOrder(tie) ==
  IF ch.order # "none" \/ ch.sim = "low" THEN {Scored(FALSE, FALSE)}
  ELSE IF tie /\ ch.rounds < Quota THEN {Scored(FALSE, TRUE)}
  ELSE IF tie THEN {HandOver}
  ELSE {[mismatch |-> TRUE] ++ Scored(FALSE, FALSE)}
       \cup {[order |-> "draft", contact |-> c] ++ Scored(FALSE, FALSE) : c \in BOOLEAN}

Judged(tie) ==
  IF ch.declined THEN {[declined |-> TRUE]}
  ELSE IF MayAsk(tie) THEN {Scored(FALSE, TRUE)}
  ELSE IF OutOfQuestions THEN {HandOver}
  ELSE IF ch.intent = "ORDER" THEN FoundOrder(tie)
  ELSE {Scored(/\ ch.sim # "high" /\ ~(MemoryResolved /\ ch.memory)
               /\ ch.intent \notin Borderline \cup {"FOLLOW_UP"}, FALSE)}
Confidence == {Returns(w, {}) : w \in UNION {Judged(t) : t \in BOOLEAN}}

Clarify == {Returns([response |-> "question", declined |-> FALSE, awaiting |-> TRUE,
                     rounds |-> ch.rounds + 1], {})}
Escalation == {Returns(Nothing, {})}

\* Mutant: a model answers although a node has.
AnswerAnew ==
  {Returns([response |-> "said", declined |-> d], {}) : d \in BOOLEAN}
\* Path 0 repeats what another node answered; the others are a template, the
\* cache or a refusal, or a generation, which also judges itself.
Answer ==
  IF ch.response # "none" THEN {Returns([response |-> ch.response], {})}
  ELSE IF ch.declined \/ ch.error \/ ch.cached \/ ch.intent \in {"FOLLOW_UP", "SMALLTALK"}
  THEN {Returns([response |-> "said"], {})}
  ELSE {Returns([response |-> "said", declined |-> d], {}) : d \in BOOLEAN}
-----------------------------------------------------------------------------
(* The order branch: OrderPipeline and DraftOrders have the content of the   *)
(* order and its rows, HitlReview the review; here it is where they lead.    *)

\* The reason for a hand-over replaces the one of an exhausted clarification.
ToSupport(set) == Returns([exhausted |-> FALSE] ++ set, {"support"})

\* A message of the guard itself, or the tiers of the risk.
GuardReplies ==
  IF ch.mismatch THEN {Returns([response |-> "mismatch"], {"answer"})}
  ELSE IF ch.order = "none" THEN {Returns([response |-> "unknown"], {"answer"})}
  ELSE IF ~ch.contact THEN {Returns([response |-> "contact", parked |-> TRUE], {"answer"})}
  ELSE {}
Tier3 == ToSupport([parked |-> FALSE])
Tier1 == IF ch.intent = "ORDER"
         THEN Returns([approved |-> TRUE, parked |-> FALSE], {"queue"})
         ELSE Returns(Nothing, {"answer"})
\* Mutant: an approval of this turn is forgotten.
GuardForgets ==
  IF ch.intent = "ORDER" /\ GuardReplies # {} THEN GuardReplies
  ELSE {Tier1, Tier3} \cup (IF ch.count >= MaxCount THEN {ToSupport(Nothing)} ELSE {})
\* Tier 2, a price to negotiate or an expensive context: a review, if there
\* were not too many.
Guard ==
  IF ch.approved THEN {Returns(Nothing, {"answer"})}
  ELSE IF ch.intent = "ORDER" /\ GuardReplies # {} THEN GuardReplies
  ELSE (IF ch.intent = "NEGOTIATION" /\ ch.order # "none" THEN {} ELSE {Tier1, Tier3})
       \cup (IF ch.count >= MaxCount THEN {ToSupport(Nothing)} ELSE {})
MayPause ==
  ~ch.approved /\ (ch.intent = "ORDER" => GuardReplies = {}) /\ ch.count < MaxCount

\* _handle_resume
Approve == Returns([approved |-> TRUE, parked |-> FALSE], {"queue"})
Reject == ToSupport([count |-> ch.count + 1, parked |-> FALSE])
ResumeFails == Returns([error |-> TRUE], {"answer"})

Re == [approved |-> FALSE, count |-> ch.count + 1]
\* Mutant: a changed order goes on.
QueueGoesOn ==
  IF ~backlog THEN {Returns(Nothing, {"fresh"})}
  ELSE {Returns(Nothing, {"fresh"}), Returns(Nothing, {"cancel"}), Returns(Re, {"fresh"})}
\* What the queued messages ask for: nothing that changes the order; a
\* cancellation; an offer or an unclear message; a change, which may need the
\* contact again.
Drained ==
  {Returns(Nothing, {"fresh"}), Returns(Nothing, {"cancel"}), Returns(Re, {"guard"})}
    \cup (IF ch.order = "none" THEN {}
          ELSE {Returns(Re ++ [response |-> "edited", contact |-> c], {"guard"}) :
                  c \in {ch.contact, FALSE}})
Queue == IF backlog THEN Drained ELSE {Returns(Nothing, {"fresh"})}

\* Mutant: a moved price withdraws the approval.
FreshWithdraws ==
  IF ch.order = "none" THEN {Returns(Nothing, {"answer"})}
  ELSE {Returns([approved |-> FALSE], {"guard"}), Returns(Nothing, {"execute"})}
Fresh ==
  IF ch.order = "none" THEN {Returns(Nothing, {"answer"})}
  ELSE {ToSupport(Nothing),              \* the product is gone or out of stock
        Returns(Nothing, {"guard"}),     \* its price moved
        Returns(Nothing, {"execute"})}

ExecutionFails == ToSupport([error |-> TRUE])      \* _fail
SoldOut == ToSupport(Nothing)
Placed == Returns([response |-> "confirmed", order |-> "confirmed"], {"answer"})
Execute ==
  IF ch.order = "none" THEN {Returns([error |-> TRUE], {"answer"})}
  ELSE IF ch.order = "confirmed" THEN {Returns([response |-> "confirmed"], {"answer"})}
  ELSE {ExecutionFails, SoldOut, Placed,
        Returns([response |-> "expired", order |-> "expired"], {"answer"})}

OpenOrder == IF ch.order \in {"none", "confirmed", "cancelled", "expired"} THEN Nothing
             ELSE [order |-> "cancelled"]
CancelHandedOver == ToSupport([parked |-> FALSE])
Withdrawn == Returns([response |-> "cancelled", parked |-> FALSE] ++ OpenOrder, {"answer"})
\* A confirmed order is for a human to cancel, a failure too.
Cancel ==
  {CancelHandedOver} \cup IF confirmed \/ ch.order = "confirmed" THEN {} ELSE {Withdrawn}

Support == {Returns([response |-> "handoff"], {"answer"})}
-----------------------------------------------------------------------------
(* Edges                                                                     *)

RouteAfterRouter(c) ==
  IF c.intent \in Hard \/ c.hard THEN {"escalation"}
  ELSE IF c.intent = "SMALLTALK" THEN {"answer"}
  ELSE IF c.intent = "FOLLOW_UP" THEN {"memory"}
  ELSE {"retrieval"}

RouteAfterConfidence(c) ==
  IF c.clarify THEN {"clarify"}
  ELSE IF c.exhausted /\ c.loop THEN {"support"}
  ELSE IF c.intent = "ORDER" THEN {"guard"}
  ELSE IF c.intent \in {"FOLLOW_UP", "SMALLTALK"} \/ c.declined \/ c.sim = "high" THEN {"answer"}
  ELSE IF c.intent \in Borderline THEN {"escalation"}
  ELSE {"guard"}

\* The edges of build_graph. They are followed whatever a Command says.
Edges(n, c) ==
  IF n = "router" THEN RouteAfterRouter(c)
  ELSE IF n = "retrieval" THEN {"memory"}
  ELSE IF n = "memory" THEN {"confidence"}
  ELSE IF n = "confidence" THEN RouteAfterConfidence(c)
  ELSE IF n \in {"clarify", "escalation", "execute", "cancel"} THEN {"answer"}
  ELSE {}
-----------------------------------------------------------------------------
(* The super-step                                                            *)

\* make_initial_state overwrites every channel but the cross-turn ones.
Start ==
  /\ phase = "idle"
  /\ ch' = PerTurn ++ ch
  /\ due' = {"router"} /\ wrote' = Nothing /\ sent' = {} /\ phase' = "run" /\ steps' = 0
  /\ verdict' = "none" /\ placed' = 0 /\ broken' = FALSE
  /\ UNCHANGED <<confirmed, backlog, asked>>

\* A node returns: its writes wait for the others, its edges see them.
Return(n, o) ==
  /\ n \in due
  /\ due' = due \ {n}
  /\ wrote' = [m \in {n} |-> o.set] ++ wrote
  /\ sent' = sent \cup o.goto \cup Edges(n, o.set ++ ch)
  /\ UNCHANGED <<ch, asked, broken>>

Runs(n, outcomes) ==
  /\ phase = "run" /\ phase' = "run"
  /\ \E o \in outcomes : Return(n, o)
  /\ UNCHANGED <<steps, confirmed, backlog, verdict, placed>>

RouterNode == Runs("router", Router)
RetrievalNode == Runs("retrieval", Retrieval)
MemoryNode == Runs("memory", Memory)
ConfidenceNode == Runs("confidence", Confidence)
ClarifyNode == Runs("clarify", Clarify)
EscalationNode == Runs("escalation", Escalation)
AnswerNode == Runs("answer", Answer)
FreshNode == Runs("fresh", Fresh)
CancelNode == Runs("cancel", Cancel)
SupportNode == Runs("support", Support)

Judges(o) == IF "queue" \in o.goto THEN "passed" ELSE verdict
GuardNode ==
  /\ phase = "run" /\ phase' = "run"
  /\ \E o \in Guard : Return("guard", o) /\ verdict' = Judges(o)
  /\ UNCHANGED <<steps, confirmed, backlog, placed>>

\* interrupt(): the other nodes of the super-step finish first, and keep what
\* they wrote for the resumption.
Interrupt ==
  /\ phase = "run" /\ due = {"guard"} /\ MayPause
  /\ phase' = "paused"
  /\ UNCHANGED <<ch, due, wrote, sent, steps, confirmed, backlog, history>>

\* The administrator's decision re-runs the guard, and only the guard, in an
\* invocation of its own. From its start: the tiers of the risk come first, and
\* may let the order pass or hand it over with the decision unread.
Resume ==
  /\ phase = "paused" /\ phase' = "run" /\ steps' = 0
  /\ \/ Return("guard", Approve) /\ verdict' = "passed"
     \/ Return("guard", Reject) /\ verdict' = "rejected"
     \/ Return("guard", ResumeFails) /\ UNCHANGED verdict
     \/ \E o \in Guard : Return("guard", o) /\ verdict' = Judges(o)
  /\ UNCHANGED <<confirmed, backlog, placed>>

QueueNode ==
  /\ phase = "run" /\ phase' = "run"
  /\ \E o \in Queue :
       /\ Return("queue", o)
       /\ verdict' = IF "approved" \in DOMAIN o.set THEN "none" ELSE verdict
  /\ backlog' = FALSE
  /\ UNCHANGED <<steps, confirmed, placed>>

ExecuteNode ==
  /\ phase = "run" /\ phase' = "run"
  /\ \E o \in Execute :
       /\ Return("execute", o)
       /\ IF o = Placed THEN confirmed' = TRUE /\ placed' = placed + 1
                        ELSE UNCHANGED <<confirmed, placed>>
  /\ UNCHANGED <<steps, backlog, verdict>>

\* Two nodes of a super-step set the same channel, none of which has a reducer.
Clash(m, n) == m # n /\ DOMAIN wrote[m] \cap DOMAIN wrote[n] # {}
Clashes == \E m, n \in DOMAIN wrote : Clash(m, n)
Value(c) ==
  LET by == {n \in DOMAIN wrote : c \in DOMAIN wrote[n]}
  IN IF by = {} THEN ch[c] ELSE wrote[CHOOSE n \in by : TRUE][c]
Barrier == phase = "run" /\ due = {}
Applied == ch' = [c \in DOMAIN ch |-> Value(c)]

Step ==
  /\ Barrier /\ ~Clashes /\ sent # {} /\ steps < Limit
  /\ Applied
  /\ due' = sent /\ sent' = {} /\ wrote' = Nothing /\ steps' = steps + 1
  /\ UNCHANGED <<phase, confirmed, backlog, history>>

End ==
  /\ Barrier /\ ~Clashes /\ sent = {}
  /\ Applied
  /\ wrote' = Nothing /\ phase' = "idle" /\ steps' = 0
  /\ asked' = IF ch'.response = "question" THEN ch'.intent ELSE "none"
  /\ UNCHANGED <<due, sent, confirmed, backlog, verdict, placed, broken>>

\* The invocation raises: the thread stays at its last checkpoint.
Abort ==
  /\ due' = {} /\ wrote' = Nothing /\ sent' = {} /\ phase' = "idle" /\ steps' = 0
  /\ asked' = "none" /\ broken' = TRUE
  /\ UNCHANGED <<ch, confirmed, backlog, verdict, placed>>
\* InvalidUpdateError. GraphRecursionError, at Limit, is never raised: WithinLimit.
Collide == Barrier /\ Clashes /\ Abort
\* A node raises, or the process stops.
Die == phase = "run" /\ due # {} /\ Abort

\* The session is paused or all turns are taken: the message is queued.
Enqueue ==
  /\ phase \in {"idle", "paused"} /\ ~backlog
  /\ backlog' = TRUE
  /\ UNCHANGED <<ch, run, confirmed, history>>

Node ==
  \/ RouterNode \/ RetrievalNode \/ MemoryNode \/ ConfidenceNode \/ ClarifyNode
  \/ EscalationNode \/ GuardNode \/ QueueNode \/ FreshNode \/ ExecuteNode
  \/ CancelNode \/ SupportNode \/ AnswerNode
Next == Start \/ Node \/ Interrupt \/ Resume \/ Step \/ End \/ Collide \/ Die \/ Enqueue

Spec == Init /\ [][Next]_vars
-----------------------------------------------------------------------------
(* Properties                                                                *)

ChType ==
  [intent : Intents \cup {"none"}, doubts : 0..1, awaiting : BOOLEAN, rounds : 0..Quota,
   parked : BOOLEAN, exhausted : BOOLEAN, hard : BOOLEAN, response : Answers,
   declined : BOOLEAN, error : BOOLEAN, sim : {"low", "mid", "high"}, cached : BOOLEAN,
   resolved : BOOLEAN, memory : BOOLEAN, clarify : BOOLEAN, loop : BOOLEAN,
   order : {"none", "draft", "confirmed", "cancelled", "expired"}, contact : BOOLEAN,
   mismatch : BOOLEAN, approved : BOOLEAN, count : 0..MaxCount + 1]

\* Types of the channels and of the super-step (core/agent/state.py); the
\* clarification rounds stay within their quota, a thread is not left within a
\* super-step.
TypeOK ==
  /\ ch \in ChType
  /\ due \subseteq Nodes /\ sent \subseteq Nodes /\ DOMAIN wrote \subseteq Nodes
  /\ phase \in {"idle", "run", "paused"} /\ steps \in 0..Limit
  /\ {confirmed, backlog, broken} \subseteq BOOLEAN
  /\ phase = "idle" => due = {} /\ sent = {} /\ DOMAIN wrote = {}

\* The reply to a clarifying question is not answered with another one, unless
\* the customer came to an order, a cancellation or a complaint: what is pending
\* between two turns is merged, spent or dropped, by router or retrieval.
AskedOnce ==
  [][phase = "run" /\ phase' = "idle" /\ asked # "none" /\ asked' # "none"
       => asked' \in ContextReset]_vars

\* However the two chains of a turn interleave and however often its guard
\* runs, a turn places one order, and does not send it to execution again.
OneOrderPerTurn == placed <= 1 /\ ("execute" \in due => placed = 0)

\* A turn that placed an order and ends, ends with its confirmation: nothing
\* that runs beside the order branch overwrites it.
PlacedIsConfirmed ==
  phase = "idle" /\ placed > 0 /\ ~broken => ch.response = "confirmed"

\* What the way from the router to the confidence writes beside the order
\* branch clashes with it in one case only: the search failed, and so did the
\* resumption of the guard beside it, and both set `error`. Otherwise only two
\* replies to the customer can abort a turn this way.
SearchClashesOnFailure ==
  \A m, n \in DOMAIN wrote :
    Clash(m, n) /\ m \in {"router", "retrieval", "memory", "confidence", "clarify"} =>
      /\ m = "retrieval" /\ n = "guard"
      /\ DOMAIN wrote[m] \cap DOMAIN wrote[n] = {"error"}

\* No path of the graph comes near the recursion limit, so that a turn always
\* ends by itself.
WithinLimit == steps < Limit

\* An order is placed only on a verdict of this turn, which no change the
\* customer queued has revoked since.
PlacedOnVerdict == [][placed' > placed => verdict = "passed"]_vars
-----------------------------------------------------------------------------
(* What the source says of the graph and its composition does not keep.      *)

\* router.py: "the actual routing execution uses Command(goto=...)".
RoutedOnce == Cardinality(due \cup DOMAIN wrote) <= 1

\* order_execution.py, _fail: the customer is told and handed to support.
HandOverIsTold == Barrier => ~Clashes

\* cancellation.py: "Respond with what happened".
CancelAnswered ==
  phase = "idle" /\ ~broken /\ ch.intent = "CANCEL" =>
    ch.response \in {"none", "cancelled", "handoff"}

\* confidence.py: "2 rounds for in-catalog ambiguity, then handoff".
SecondRound ==
  [][("confidence" \in due \ due' /\ ch.intent = "OTHER" /\ ~ch.declined /\ ch.sim = "mid"
      /\ ch.rounds \in 1..(Quota - 1)) => wrote'["confidence"].clarify]_vars

\* confidence.py: "Ask ONE clarifying question instead. Anti-loop".
OrderAskedOnce ==
  [][phase = "run" /\ phase' = "idle" /\ asked = "ORDER" => asked' # "ORDER"]_vars

\* router.py: a refused message "gets a fixed refusal".
RefusalStands ==
  [][ch.response = "refusal" /\ phase = "run" => ch'.response = "refusal"]_vars

\* hitl_guard.py: a rejection goes to support; it is not reviewed again.
RejectedIsFinal ==
  [][phase # "paused" /\ phase' = "paused" => verdict # "rejected"]_vars
=============================================================================
