--------------------------- MODULE CustomerMemory ---------------------------
(***************************************************************************)
(* What is remembered of one customer: the checkpoint a turn writes, its   *)
(* episodic event, the intent the background task records once the answer  *)
(* is out, the administrator's change of the intent's status, and the      *)
(* erasure of it all.  An action is a commit or a statement of a READ      *)
(* COMMITTED transaction: it sees what is committed, waits for rows others *)
(* have written, and what it writes itself others see at the commit.       *)
(***************************************************************************)
EXTENDS Naturals, FiniteSets

CONSTANTS
  Thread,     \* the customer's threads
  Turn,       \* messages the customer writes
  ThreadOf,   \* the thread of each
  Env         \* what the environment may do, a subset of Features

Features ==
  { "overlap",   \* turns of one thread may overlap
    "pause",     \* orders wait for a human
    "patch",     \* an administrator sets the status of an intent
    "erase",     \* an administrator erases the customer
    "fail" }     \* a task, a statement or a process may fail

ASSUME ThreadOfAssumption == ThreadOf \in [Turn -> Thread]
ASSUME EnvAssumption == Env \subseteq Features

VARIABLES
  checkpoint,  \* the turns whose messages a thread's newest checkpoint holds
  events,      \* turns with a row in episodic_events
  logs,        \* turns with a row in sales_intent_logs
  version,     \* intent_tracking.version, 0 if the thread has no row
  pc,          \* where each turn or its background task is
  seen,        \* the turns in the state of a running graph
  patch,       \* threads whose row an open PATCH has updated
  erase,       \* the erasing transaction
  erased,      \* history: turns that were over when an erasure alone began
  crossed      \* history: a log was committed between two of its statements

memory == <<checkpoint, events, logs, version>>
history == <<erased, crossed>>
vars == <<memory, pc, seen, patch, erase, history>>

TurnPc == {"new", "running", "recorded", "answered", "upserted", "paused", "done"}
\* What it has deleted and not committed; alone: history, no turn ran beside it.
Erasure == [pc : {"idle", "logs", "rows", "events", "wipe", "commit"},
            threads : SUBSET Thread, logs : SUBSET Turn, rows : SUBSET Thread,
            events : SUBSET Turn, wiped : SUBSET Thread, alone : BOOLEAN]
NoErasure == [pc |-> "idle", threads |-> {}, logs |-> {}, rows |-> {},
              events |-> {}, wiped |-> {}, alone |-> TRUE]

In(th, S) == {t \in Turn : ThreadOf[t] = th /\ pc[t] \in S}
Goto(t, l) == pc' = [pc EXCEPT ![t] = l]
\* The threads with a row in intent_tracking.
Rows == {th \in Thread : version[th] > 0}

Init ==
  /\ checkpoint = [th \in Thread |-> {}] /\ version = [th \in Thread |-> 0]
  /\ events = {} /\ logs = {}
  /\ pc = [t \in Turn |-> "new"] /\ seen = [t \in Turn |-> {}]
  /\ patch = {} /\ erase = NoErasure
  /\ erased = {} /\ crossed = FALSE
-----------------------------------------------------------------------------
(* A turn of the graph.                                                      *)

\* A checkpoint written now is not among the rows an open erasure has deleted.
Save(th, S) ==
  /\ checkpoint' = [checkpoint EXCEPT ![th] = S]
  /\ erase' = [erase EXCEPT !.wiped = @ \ {th}, !.alone = (erase.pc = "idle")]

\* The gateway lets a message in unless the thread waits for a human; the graph
\* loads the newest checkpoint and saves it with the message.
StartTurn(t) ==
  LET th == ThreadOf[t] IN
  /\ pc[t] = "new" /\ In(th, {"paused"}) = {}
  /\ "overlap" \in Env \/ In(th, {"running", "recorded"}) = {}
  /\ seen' = [seen EXCEPT ![t] = checkpoint[th] \cup {t}]
  /\ Save(th, checkpoint[th] \cup {t})
  /\ Goto(t, "running")
  /\ UNCHANGED <<events, logs, version, patch, erased, crossed>>

\* record_event, from answer_node: business answers, cached and generated ones.
Record(t) ==
  /\ pc[t] = "running" /\ Goto(t, "recorded")
  /\ events' = events \cup {t}
  /\ UNCHANGED <<checkpoint, logs, version, seen, patch, erase, history>>

\* FOLLOW_UP, SMALLTALK and OTHER are not worth an extraction.
AfterAnswer == {"answered", "done"}

\* The run ends with its answer appended to the messages it holds, and the
\* background task is started.
Answer(t) ==
  /\ pc[t] \in {"running", "recorded"} /\ \E l \in AfterAnswer : Goto(t, l)
  /\ Save(ThreadOf[t], seen[t])
  /\ seen' = [seen EXCEPT ![t] = {}]
  /\ UNCHANGED <<events, logs, version, patch, erased, crossed>>

\* An interrupt: no background task is started.
Pause(t) ==
  /\ "pause" \in Env
  /\ pc[t] = "running" /\ Goto(t, "paused")
  /\ seen' = [seen EXCEPT ![t] = {}]
  /\ UNCHANGED <<memory, patch, erase, history>>

\* The decision resumes the thread if it still has a checkpoint.
Decide(t) ==
  LET th == ThreadOf[t] IN
  /\ pc[t] = "paused" /\ Goto(t, "done")
  /\ IF checkpoint[th] = {} THEN UNCHANGED <<checkpoint, events, erase>>
     ELSE Save(th, checkpoint[th]) /\ \E E \in SUBSET {t} : events' = events \cup E
  /\ UNCHANGED <<logs, version, seen, patch, erased, crossed>>

\* The run raises, or its process dies.
TurnFails(t) ==
  /\ "fail" \in Env
  /\ pc[t] \in {"running", "recorded"} /\ Goto(t, "done")
  /\ seen' = [seen EXCEPT ![t] = {}]
  /\ UNCHANGED <<memory, patch, erase, history>>
-----------------------------------------------------------------------------
(* post_turn_tasks: intent extraction.  No summary ever comes of it:        *)
(* summarize takes the messages for dictionaries, which they are not.       *)

\* INSERT ... ON CONFLICT DO UPDATE waits for the row's other writers.
Upsert(t) ==
  LET th == ThreadOf[t] IN
  /\ pc[t] = "answered" /\ Goto(t, "upserted")
  /\ In(th, {"upserted"}) = {} /\ th \notin patch \cup erase.rows
  /\ UNCHANGED <<memory, seen, patch, erase, history>>

\* Mutant: the upsert starts the version anew.
CommitLogReset(t) ==
  /\ pc[t] = "upserted" /\ Goto(t, "done")
  /\ logs' = logs \cup {t}
  /\ version' = [version EXCEPT ![ThreadOf[t]] = 1]
  /\ crossed' = (crossed \/ erase.pc = "rows")
  /\ UNCHANGED <<checkpoint, events, seen, patch, erase, erased>>

\* The log joins the row in one commit.
CommitLog(t) ==
  /\ pc[t] = "upserted" /\ Goto(t, "done")
  /\ logs' = logs \cup {t}
  /\ version' = [version EXCEPT ![ThreadOf[t]] = @ + 1]
  /\ crossed' = (crossed \/ erase.pc = "rows")
  /\ UNCHANGED <<checkpoint, events, seen, patch, erase, erased>>

\* The model or a statement fails, or the process dies: the session rolls back.
TaskFails(t) ==
  /\ "fail" \in Env
  /\ pc[t] \in {"answered", "upserted"} /\ Goto(t, "done")
  /\ UNCHANGED <<memory, seen, patch, erase, history>>
-----------------------------------------------------------------------------
(* PATCH /memory/intent/{customer_id}/status.                                *)

\* update_status, by the customer alone: with one thread at that version the
\* answer carries the new one, with several it is an error.
Patch(v) ==
  LET R == {th \in Thread : version[th] = v} IN
  /\ "patch" \in Env /\ patch = {} /\ R # {}
  /\ \A th \in R : In(th, {"upserted"}) = {} /\ th \notin erase.rows
  /\ patch' = R
  /\ UNCHANGED <<memory, pc, seen, erase, history>>

\* Mutant: the session stays open.
PatchLeftOpen == FALSE

\* get_db closes the session, which nobody has committed.
PatchClose ==
  /\ patch # {} /\ patch' = {}
  /\ UNCHANGED <<memory, pc, seen, erase, history>>
-----------------------------------------------------------------------------
(* DELETE /memory/customer/{customer_id}: one transaction.                   *)

\* The threads any of the tables knows.
Recorded == Rows \cup {ThreadOf[t] : t \in logs \cup events}

Collect ==
  /\ "erase" \in Env /\ erase.pc = "idle"
  /\ erase' = [erase EXCEPT !.pc = "logs", !.threads = Recorded,
                             !.alone = \A t \in Turn : pc[t] \in {"new", "paused", "done"}]
  /\ UNCHANGED <<memory, pc, seen, patch, history>>

EraseLogs ==
  /\ erase.pc = "logs"
  /\ erase' = [erase EXCEPT !.pc = "rows", !.logs = logs]
  /\ UNCHANGED <<memory, pc, seen, patch, history>>

\* A DELETE waits for rows others have updated, not for those they insert.
EraseRows ==
  /\ erase.pc = "rows"
  /\ \A th \in Rows : In(th, {"upserted"}) = {} /\ th \notin patch
  /\ erase' = [erase EXCEPT !.pc = "events", !.rows = Rows]
  /\ UNCHANGED <<memory, pc, seen, patch, history>>

EraseEvents ==
  /\ erase.pc = "events"
  /\ erase' = [erase EXCEPT !.pc = "wipe", !.events = events]
  /\ UNCHANGED <<memory, pc, seen, patch, history>>

\* Mutant: the checkpoint tables are left alone.
EraseNoCheckpoints ==
  /\ erase.pc = "wipe" /\ erase' = [erase EXCEPT !.pc = "commit"]
  /\ UNCHANGED <<memory, pc, seen, patch, history>>

EraseCheckpoints ==
  /\ erase.pc = "wipe"
  /\ erase' = [erase EXCEPT !.pc = "commit", !.wiped = erase.threads]
  /\ UNCHANGED <<memory, pc, seen, patch, history>>

CommitErase ==
  /\ erase.pc = "commit" /\ erase' = NoErasure
  /\ logs' = logs \ erase.logs
  /\ events' = events \ erase.events
  /\ version' = [th \in Thread |-> IF th \in erase.rows THEN 0 ELSE version[th]]
  /\ checkpoint' = [th \in Thread |-> IF th \in erase.wiped THEN {} ELSE checkpoint[th]]
  /\ erased' = erased \cup
       {t \in Turn : erase.alone /\ pc[t] = "done" /\ ThreadOf[t] \in erase.threads}
  /\ UNCHANGED <<pc, seen, patch, crossed>>

EraseFails ==
  /\ "fail" \in Env
  /\ erase.pc # "idle" /\ erase' = NoErasure
  /\ UNCHANGED <<memory, pc, seen, patch, history>>
-----------------------------------------------------------------------------
Graph(t) == \/ StartTurn(t) \/ Record(t) \/ Answer(t) \/ Pause(t) \/ Decide(t)
            \/ TurnFails(t)
Task(t) == Upsert(t) \/ CommitLog(t)
Eraser == \/ EraseLogs \/ EraseRows \/ EraseEvents \/ EraseCheckpoints
          \/ CommitErase
Next ==
  \/ \E t \in Turn : Graph(t) \/ Task(t) \/ TaskFails(t)
  \/ (\E v \in 1..Cardinality(Turn) : Patch(v)) \/ PatchClose
  \/ Collect \/ Eraser \/ EraseFails
Spec == Init /\ [][Next]_vars

\* The event loop goes on with every task, and PostgreSQL hands a row to those
\* who wait for it in turn.
LiveSpec ==
  /\ Spec
  /\ \A t \in Turn : SF_vars(Task(t))
  /\ WF_vars(PatchClose) /\ SF_vars(Eraser)
-----------------------------------------------------------------------------
(* Properties.                                                               *)

\* Tables, checkpoints and transactions keep their shape.
TypeOK ==
  /\ checkpoint \in [Thread -> SUBSET Turn]
  /\ events \subseteq Turn /\ logs \subseteq Turn /\ erased \subseteq Turn
  /\ version \in [Thread -> Nat]
  /\ pc \in [Turn -> TurnPc] /\ seen \in [Turn -> SUBSET Turn]
  /\ patch \subseteq Thread /\ erase \in Erasure
  /\ crossed \in BOOLEAN

LogsOf(th) == {t \in logs : ThreadOf[t] = th}

\* The version of a thread's intent counts its logged extractions: no update is
\* lost or skipped, however tasks overlap, fail, wait for an administrator, or
\* meet an erasure; except one between whose deletions a log was committed.
VersionCountsLogs ==
  ~crossed => \A th \in Thread : version[th] = Cardinality(LogsOf(th))

Remembered == events \cup logs \cup UNION {checkpoint[th] : th \in Thread}

\* What a completed erasure took is gone for good, from every table and from the
\* checkpoints later turns load, if no turn ran beside it.
ErasedStaysGone == erased \cap Remembered = {}

\* Background tasks end, also those that wait for a row an erasure or a status
\* change holds: time and again none is left.
TasksEnd == []<>(\A t \in Turn : pc[t] \notin {"answered", "upserted"})

\* Also a turn that runs beside an erasure brings nothing back.
ErasedGone ==
  [][\A t \in Turn : pc[t] = "done" /\ t \notin Remembered => t \notin Remembered']_vars

\* After an erasure with nothing beside it no thread has a checkpoint.
NothingLeft ==
  [][CommitErase /\ erase.alone => \A th \in Thread : checkpoint'[th] = {}]_vars

\* An order that waits for a human keeps the checkpoint it is resumed from.
PausedHasCheckpoint ==
  \A t \in Turn : pc[t] = "paused" => t \in checkpoint[ThreadOf[t]]

\* A log belongs to a tracked intent.
LogHasRow == \A t \in logs : version[ThreadOf[t]] > 0

\* When the session of a PATCH is closed, the version it answered is in the table.
PatchSticks ==
  [][\A th \in Thread : patch = {th} /\ patch' = {} =>
       version'[th] = version[th] + 1]_vars

\* Without erasures, a thread remembers every message it has answered.
HistoryKept ==
  \A t \in Turn : pc[t] = "answered" \/ pc[t] = "done" => t \in checkpoint[ThreadOf[t]]
=============================================================================
