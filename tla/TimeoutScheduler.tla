-------------------------- MODULE TimeoutScheduler --------------------------
(***************************************************************************)
(* The background loop that looks for reviews nobody answers: a warning to *)
(* the customer after 30 minutes, the hand-over to support after 60.  Each *)
(* API worker runs the loop.  A pass is one READ COMMITTED transaction     *)
(* whose object writes wait for a flush.                                   *)
(***************************************************************************)
EXTENDS Naturals, FiniteSets

CONSTANTS
  Session,
  Worker,      \* processes that run the loop
  MaxPauses,   \* bound: reviews of a session
  MaxAborts,   \* bound: passes and rejections that fail
  SendFails    \* may Telegram refuse a message?

ASSUME BoundAssumption == MaxPauses \in Nat \ {0} /\ MaxAborts \in Nat
ASSUME SendFailsAssumption == SendFails \in BOOLEAN

Pause == Session \X (1..MaxPauses)

VARIABLES
  status,    \* HITLMetadata.status of every pause, "none" before it exists
  age,       \* 0, 1 past HITL_TIMEOUT_WARN_MIN, 2 past HITL_TIMEOUT_ESCALATE_MIN
  deciding,  \* pauses whose row an uncommitted decision has written and holds
  rejecting, \* how far the rejection of a pause is, see Reject
  marked,    \* pauses with a timeout_notified_at
  support,   \* sessions with a row in support_queue
  pc,        \* where each worker is
  old,       \* pauses that were past the second limit when the pass began
  warn,      \* to_warn, what is left of it
  noted,     \* warned in this pass
  over,      \* to_escalate, what is left of it
  escaped,   \* updates to "escalated" in this transaction
  entered,   \* inserts into support_queue in this transaction
  written,   \* noted pauses the transaction has written
  aborts,    \* history: passes and rejections that failed
  sent,      \* history: warnings a customer got for a pause, counted up to two
  crossed    \* history: a pass began beside another, or was rolled back

reviews == <<deciding, rejecting>>
database == <<status, age, reviews, marked, support>>
pass == <<old, warn, noted, over, escaped, entered, written>>
history == <<sent, crossed>>
vars == <<database, pc, pass, aborts, history>>

Init ==
  /\ status = [p \in Pause |-> "none"] /\ age = [p \in Pause |-> 0]
  /\ deciding = {} /\ marked = {} /\ support = {}
  /\ rejecting = [p \in Pause |-> "no"]
  /\ pc = [w \in Worker |-> "sleep"]
  /\ old = [w \in Worker |-> {}] /\ warn = [w \in Worker |-> {}]
  /\ noted = [w \in Worker |-> {}] /\ over = [w \in Worker |-> {}]
  /\ escaped = [w \in Worker |-> {}] /\ entered = [w \in Worker |-> {}]
  /\ written = [w \in Worker |-> {}]
  /\ sent = [p \in Pause |-> 0] /\ crossed = FALSE /\ aborts = 0

\* Rows a transaction has written keep others from writing them.
Held(w) == escaped[w] \cup written[w]
Free(w, P) == /\ deciding \cap P = {}
              /\ \A v \in Worker \ {w} : Held(v) \cap P = {}
-----------------------------------------------------------------------------
(* _process_timeouts.                                                        *)

\* Mutant: who was warned already is not asked.
WarnDueAnyway == {p \in Pause : status[p] = "paused" /\ age[p] >= 1}
WarnDue == {p \in Pause : status[p] = "paused" /\ age[p] >= 1 /\ p \notin marked}

BeginPass(w) ==
  /\ pc[w] = "sleep" /\ pc' = [pc EXCEPT ![w] = "warn"]
  /\ old' = [old EXCEPT ![w] = {p \in Pause : age[p] = 2}]
  /\ warn' = [warn EXCEPT ![w] = WarnDue]
  /\ crossed' = (crossed \/ \E v \in Worker : pc[v] # "sleep")
  /\ UNCHANGED <<database, noted, over, escaped, entered, written, aborts, sent>>

\* Whatever becomes of the message, the pause is noted as warned.
Warn(w, p) ==
  /\ pc[w] = "warn" /\ p \in warn[w]
  /\ warn' = [warn EXCEPT ![w] = @ \ {p}]
  /\ noted' = [noted EXCEPT ![w] = @ \cup {p}]
  /\ \/ sent' = [sent EXCEPT ![p] = IF @ < 2 THEN @ + 1 ELSE @]
     \/ SendFails /\ UNCHANGED sent
  /\ UNCHANGED <<database, pc, old, over, escaped, entered, written, aborts, crossed>>

\* Mutant: those warned in this pass are looked at again.
ReadOverWarned(w) ==
  /\ pc[w] = "warn" /\ warn[w] = {}
  /\ over' = [over EXCEPT ![w] = {p \in old[w] \cap noted[w] : status[p] = "paused"}]
  /\ pc' = [pc EXCEPT ![w] = "write"]
  /\ UNCHANGED <<database, old, warn, noted, escaped, entered, written, aborts, history>>
ReadOver(w) ==
  /\ pc[w] = "warn" /\ warn[w] = {}
  /\ over' = [over EXCEPT ![w] = {p \in old[w] : status[p] = "paused"}]
  /\ pc' = [pc EXCEPT ![w] = "write"]
  /\ UNCHANGED <<database, old, warn, noted, escaped, entered, written, aborts, history>>

\* Mutant: the row is written by its key alone.
PausedOfAnyway(s) == {p \in Pause : p[1] = s /\ status[p] \notin {"none", "escalated"}}
\* escalate_to_support updates what is paused in the session, and enters the
\* session in the support queue in any case.
PausedOf(s) == {p \in Pause : p[1] = s /\ status[p] = "paused"}
\* Mutant: one entry a pass.
EnterFirst(w, s) == entered' = [entered EXCEPT ![w] = IF @ = {} THEN {s} ELSE @]
Enter(w, s) == entered' = [entered EXCEPT ![w] = @ \cup {s}]

MayEscalate(w) == entered[w] = {} \/ written[w] = noted[w]
\* The unique key makes who enters a session wait for another's uncommitted row.
Entering(s) == \E p \in Pause : p[1] = s /\ rejecting[p] \in {"entered", "written"}
CanEnter(w, s) == /\ Free(w, PausedOf(s)) /\ ~Entering(s)
                  /\ \A v \in Worker \ {w} : s \notin entered[v]

Escalate(w, p) ==
  /\ pc[w] = "write" /\ p \in over[w] /\ MayEscalate(w)
  /\ CanEnter(w, p[1])
  /\ over' = [over EXCEPT ![w] = @ \ {p}]
  /\ escaped' = [escaped EXCEPT ![w] = @ \cup PausedOf(p[1])]
  /\ Enter(w, p[1])
  /\ UNCHANGED <<database, pc, old, warn, noted, written, aborts, history>>

\* The noted pauses are written when the first escalation flushes, or at last.
Flushing(w) == pc[w] = "write" /\ (entered[w] # {} \/ over[w] = {})
Flush(w, p) ==
  /\ Flushing(w) /\ p \in noted[w] \ written[w] /\ Free(w, {p})
  /\ written' = [written EXCEPT ![w] = @ \cup {p}]
  /\ UNCHANGED <<database, pc, old, warn, noted, over, escaped, entered, aborts, history>>

\* The end of a pass, with its writes or without.
EndPass(w) ==
  /\ pc' = [pc EXCEPT ![w] = "sleep"]
  /\ old' = [old EXCEPT ![w] = {}] /\ warn' = [warn EXCEPT ![w] = {}]
  /\ noted' = [noted EXCEPT ![w] = {}] /\ over' = [over EXCEPT ![w] = {}]
  /\ escaped' = [escaped EXCEPT ![w] = {}] /\ entered' = [entered EXCEPT ![w] = {}]
  /\ written' = [written EXCEPT ![w] = {}]

Commit(w) ==
  /\ pc[w] = "write" /\ written[w] = noted[w] /\ over[w] = {}
  /\ status' = [p \in Pause |-> IF p \in escaped[w] THEN "escalated" ELSE status[p]]
  /\ marked' = marked \cup noted[w]
  /\ support' = support \cup entered[w]
  /\ EndPass(w)
  /\ UNCHANGED <<age, reviews, aborts, history>>

\* An exception in the pass, or the end of the process: it is rolled back.
RollBack(w) == EndPass(w) /\ crossed' = TRUE /\ UNCHANGED <<database, sent>>
Abort(w) ==
  /\ pc[w] \in {"warn", "write"} /\ aborts < MaxAborts
  /\ aborts' = aborts + 1 /\ RollBack(w)

\* PostgreSQL ends one of two transactions that wait for one another: two workers,
\* or a worker that has the row of a review and a rejection that has the queue's.
Blocked(w) ==
  \/ Flushing(w) /\ \E p \in noted[w] \ written[w] : ~Free(w, {p})
  \/ pc[w] = "write" /\ MayEscalate(w) /\ \E p \in over[w] : ~CanEnter(w, p[1])
Victim(w) ==
  /\ Blocked(w)
  /\ (\E v \in Worker \ {w} : Blocked(v)) \/ (\E p \in over[w] : rejecting[p] = "entered")
  /\ RollBack(w) /\ UNCHANGED aborts
-----------------------------------------------------------------------------
(* The rest of the system, as far as this loop can see it.                   *)

others == <<marked, support, pc, pass, history>>

\* A session pauses anew once its last review is over.
PauseSession(s, n) ==
  /\ status[<<s, n>>] = "none"
  /\ \A m \in 1..(n - 1) : status[<<s, m>>] = "decided"
  /\ status' = [status EXCEPT ![<<s, n>>] = "paused"]
  /\ UNCHANGED <<age, reviews, aborts, others>>

Unwritten(p) == p \notin deciding /\ \A w \in Worker : p \notin Held(w)

\* An approval writes the row at once and holds it until the resumed run commits,
\* or it fails and the review is given back.
Approve(p) ==
  /\ status[p] = "paused" /\ rejecting[p] = "no" /\ Unwritten(p)
  /\ deciding' = deciding \cup {p}
  /\ UNCHANGED <<status, age, rejecting, aborts, others>>
Decided(p, st) ==
  /\ p \in deciding /\ rejecting[p] = "no" /\ deciding' = deciding \ {p}
  /\ status' = [status EXCEPT ![p] = st]
  /\ UNCHANGED <<age, rejecting, aborts, others>>
Resumed(p) == Decided(p, "decided")
GiveBack(p) == Decided(p, "paused")

\* A rejection leaves the row alone while its run is under way, and the review
\* "paused" to everybody else.  customer_support_node enters the session in the
\* queue and then writes the row, whatever its status is by now; the request
\* commits both.
Reject(p) ==
  /\ status[p] = "paused" /\ rejecting[p] = "no" /\ p \notin deciding
  /\ rejecting' = [rejecting EXCEPT ![p] = "run"]
  /\ UNCHANGED <<status, age, deciding, aborts, others>>
RejectEnters(p) ==
  /\ rejecting[p] = "run"
  /\ ~Entering(p[1]) /\ \A w \in Worker : p[1] \notin entered[w]
  /\ rejecting' = [rejecting EXCEPT ![p] = "entered"]
  /\ UNCHANGED <<status, age, deciding, aborts, others>>
RejectWrites(p) ==
  /\ rejecting[p] = "entered" /\ Unwritten(p)
  /\ rejecting' = [rejecting EXCEPT ![p] = "written"]
  /\ deciding' = deciding \cup {p}
  /\ UNCHANGED <<status, age, aborts, others>>
Rejected(p) ==
  /\ rejecting[p] = "written"
  /\ rejecting' = [rejecting EXCEPT ![p] = "no"] /\ deciding' = deciding \ {p}
  /\ status' = [status EXCEPT ![p] = "decided"]
  /\ support' = support \cup {p[1]}
  /\ UNCHANGED <<age, marked, pc, pass, aborts, history>>

\* The rejection raises, or is the victim of a deadlock with a worker's pass.
Unreject(p) ==
  /\ rejecting[p] # "no"
  /\ rejecting' = [rejecting EXCEPT ![p] = "no"] /\ deciding' = deciding \ {p}
  /\ UNCHANGED <<status, age, others>>
RejectAborts(p) == aborts < MaxAborts /\ aborts' = aborts + 1 /\ Unreject(p)
RejectVictim(p) ==
  /\ rejecting[p] = "entered" /\ \E w \in Worker : p \in over[w] /\ Blocked(w)
  /\ Unreject(p) /\ UNCHANGED aborts

GetOlder(p) ==
  /\ status[p] = "paused" /\ age[p] < 2
  /\ age' = [age EXCEPT ![p] = @ + 1]
  /\ UNCHANGED <<status, reviews, aborts, others>>

Rejection(p) == RejectEnters(p) \/ RejectWrites(p) \/ Rejected(p) \/ RejectVictim(p)

Others ==
  \/ \E s \in Session, n \in 1..MaxPauses : PauseSession(s, n)
  \/ \E p \in Pause : Approve(p) \/ Resumed(p) \/ GiveBack(p) \/ GetOlder(p)
  \/ \E p \in Pause : Reject(p) \/ Rejection(p) \/ RejectAborts(p)

Step(w) == \/ BeginPass(w) \/ ReadOver(w) \/ Commit(w) \/ Victim(w)
           \/ \E p \in Pause : Warn(w, p) \/ Escalate(w, p) \/ Flush(w, p)

Next == Others \/ \E w \in Worker : Step(w) \/ Abort(w)
Spec == Init /\ [][Next]_vars
\* Every loop and every decision goes on; who waits for a row gets it before a
\* worker that begins its pass anew, a poll interval later.
LiveSpec ==
  /\ Spec
  /\ \A p \in Pause : WF_vars(Resumed(p) \/ GiveBack(p)) /\ WF_vars(Rejection(p))
  /\ \A w \in Worker :
       /\ WF_vars(Step(w)) /\ SF_vars(Commit(w))
       /\ \A p \in Pause : SF_vars(Escalate(w, p)) /\ SF_vars(Flush(w, p))
-----------------------------------------------------------------------------
(* Properties.                                                               *)

\* A worker holds a row only in the writing part of a pass; rows and history
\* have their types.
TypeOK ==
  /\ status \in [Pause -> {"none", "paused", "decided", "escalated"}]
  /\ age \in [Pause -> 0..2] /\ deciding \subseteq Pause /\ marked \subseteq Pause
  /\ rejecting \in [Pause -> {"no", "run", "entered", "written"}]
  /\ support \subseteq Session
  /\ pc \in [Worker -> {"sleep", "warn", "write"}]
  /\ \A w \in Worker : pc[w] # "write" => Held(w) = {} /\ entered[w] = {}
  /\ \A w \in Worker : warn[w] \cup noted[w] \cup over[w] \cup escaped[w] \subseteq Pause
  /\ sent \in [Pause -> 0..2] /\ crossed \in BOOLEAN /\ aborts \in 0..MaxAborts

\* Who is handed over to support is in its queue: the status and the row come
\* together or not at all.
EscalatedIsQueued ==
  \A p \in Pause : status[p] = "escalated" => p[1] \in support

HandedOver(p) == status[p] # "escalated" /\ status'[p] = "escalated"

\* A review is not handed over while an approval, or the end of a rejection, holds
\* its row, nor once it is decided.
AnsweredStays ==
  [][\A p \in Pause : HandedOver(p) => p \notin deciding /\ status[p] # "decided"]_vars

\* A review that is being rejected is not handed over (it is: a rejection writes
\* the row when its run has ended).
RejectedStays == [][\A p \in Pause : HandedOver(p) => rejecting[p] = "no"]_vars

\* A customer is warned at most once about a review, unless two workers' passes
\* overlapped or a pass was rolled back after its messages had gone.
WarnedOnceApart == (\E p \in Pause : sent[p] > 1) => crossed

\* A customer is warned at most once about a review, whatever the workers do.
NotifiedOnce == \A p \in Pause : sent[p] <= 1

\* A review that is handed over was announced to the customer before.
EscalatedWasWarned == \A p \in Pause : status[p] = "escalated" => sent[p] >= 1

\* Only reviews past the second limit are handed over.
EscalatedWasOld == \A p \in Pause : status[p] = "escalated" => age[p] = 2

\* Only sessions whose review timed out are entered in the support queue.
QueuedWasEscalated ==
  \A s \in support :
    \E p \in Pause : p[1] = s /\ status[p] = "escalated"

\* A review nobody decides does not wait for ever.
NobodyForgotten ==
  \A p \in Pause : (status[p] = "paused" /\ age[p] = 2) ~> status[p] # "paused"
=============================================================================
