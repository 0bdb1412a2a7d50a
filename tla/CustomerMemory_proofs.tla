------------------------ MODULE CustomerMemory_proofs -----------------------
(***************************************************************************)
(* Theorems about CustomerMemory, for every value of its constants.        *)
(***************************************************************************)
EXTENDS CustomerMemory, FiniteSetTheorems, TLAPS

USE ThreadOfAssumption

\* Only turns that are over have logged, and only such logs were deleted.
LogsAreDone ==
  /\ IsFiniteSet(logs)
  /\ \A t \in logs \cup erase.logs : pc[t] = "done"

\* A row that was deleted has no other writer.
NoOtherWriter ==
  /\ erase.pc \in {"idle", "logs", "rows"} => erase.rows = {}
  /\ \A t \in Turn : pc[t] = "upserted" => ThreadOf[t] \notin erase.rows

\* Unless a log was committed between the two, the rows deleted and the logs
\* deleted are those of the same threads.
SameThreads ==
  ~crossed =>
    /\ erase.pc = "rows" => logs = erase.logs
    /\ erase.pc \in {"events", "wipe", "commit"} =>
         \A t \in logs : t \in erase.logs <=> ThreadOf[t] \in erase.rows

IInv == TypeOK /\ LogsAreDone /\ NoOtherWriter /\ SameThreads /\ VersionCountsLogs
-----------------------------------------------------------------------------
LEMMA InitInv == Init => IInv
PROOF
<1> SUFFICES ASSUME Init PROVE IInv
  OBVIOUS
<1>1. TypeOK
  BY DEF Init, TypeOK, NoErasure, Erasure, TurnPc
<1>2. LogsAreDone
  BY FS_EmptySet DEF Init, LogsAreDone, NoErasure
<1>3. NoOtherWriter /\ SameThreads
  BY DEF Init, NoOtherWriter, SameThreads, NoErasure
<1>4. VersionCountsLogs
  <2>1. \A th \in Thread : LogsOf(th) = {} /\ version[th] = 0
    BY DEF Init, LogsOf
  <2> QED  BY <2>1, FS_EmptySet DEF VersionCountsLogs
<1> QED  BY <1>1, <1>2, <1>3, <1>4 DEF IInv
-----------------------------------------------------------------------------
(* Types.                                                                    *)

\* A saved checkpoint and the mark it takes from an open erasure are typed.
LEMMA SaveType ==
  ASSUME TypeOK, NEW th \in Thread, NEW S \in SUBSET Turn, Save(th, S)
  PROVE  checkpoint' \in [Thread -> SUBSET Turn] /\ erase' \in Erasure
BY DEF TypeOK, Save, Erasure

LEMMA GraphType ==
  ASSUME TypeOK, NEW t \in Turn, Graph(t)
  PROVE  TypeOK'
PROOF
<1> USE DEF TypeOK, TurnPc, Goto
<1>1. ThreadOf[t] \in Thread
  OBVIOUS
<1>2. CASE StartTurn(t)
  <2>1. checkpoint[ThreadOf[t]] \cup {t} \in SUBSET Turn
    BY <1>1
  <2>2. checkpoint' \in [Thread -> SUBSET Turn] /\ erase' \in Erasure
    BY <1>1, <1>2, <2>1, SaveType DEF StartTurn
  <2> QED  BY <1>2, <2>1, <2>2 DEF StartTurn
<1>3. CASE Record(t)
  BY <1>3 DEF Record, history
<1>4. CASE Answer(t)
  <2>1. checkpoint' \in [Thread -> SUBSET Turn] /\ erase' \in Erasure
    BY <1>1, <1>4, SaveType DEF Answer
  <2> QED  BY <1>4, <2>1 DEF Answer, AfterAnswer
<1>5. CASE Pause(t) \/ TurnFails(t)
  BY <1>5 DEF Pause, TurnFails, memory, history
<1>6. CASE Decide(t)
  <2>1. checkpoint' \in [Thread -> SUBSET Turn] /\ erase' \in Erasure
    BY <1>1, <1>6, SaveType DEF Decide
  <2>2. events' \subseteq Turn
    BY <1>6 DEF Decide
  <2> QED  BY <1>6, <2>1, <2>2 DEF Decide
<1> QED  BY <1>2, <1>3, <1>4, <1>5, <1>6 DEF Graph

LEMMA TaskType ==
  ASSUME TypeOK, NEW t \in Turn, Task(t) \/ TaskFails(t)
  PROVE  TypeOK'
PROOF
<1> USE DEF TypeOK, TurnPc, Goto
<1>1. CASE Upsert(t) \/ TaskFails(t)
  BY <1>1 DEF Upsert, TaskFails, memory, history
<1>2. CASE CommitLog(t)
  <2>1. crossed' \in BOOLEAN
    BY <1>2 DEF CommitLog
  <2>2. version' \in [Thread -> Nat]
    BY <1>2 DEF CommitLog
  <2> QED  BY <1>2, <2>1, <2>2 DEF CommitLog
<1> QED  BY <1>1, <1>2 DEF Task

LEMMA PatchType ==
  ASSUME TypeOK, (\E v \in 1..Cardinality(Turn) : Patch(v)) \/ PatchClose
  PROVE  TypeOK'
BY DEF TypeOK, Patch, PatchClose, memory, history

LEMMA ErasureType ==
  ASSUME TypeOK, Collect \/ Eraser \/ EraseFails
  PROVE  TypeOK'
PROOF
<1> USE DEF TypeOK, memory, history
<1>1. CASE Collect
  <2>1. Recorded \subseteq Thread
    BY DEF Recorded, Rows
  <2> DEFINE alone == \A t \in Turn : pc[t] \in {"new", "paused", "done"}
  <2>2. alone \in BOOLEAN
    OBVIOUS
  <2>3. erase' = [erase EXCEPT !.pc = "logs", !.threads = Recorded, !.alone = alone]
    BY <1>1 DEF Collect
  <2> HIDE DEF alone
  <2>4. erase' \in Erasure
    BY <2>1, <2>2, <2>3 DEF Erasure
  <2> QED  BY <1>1, <2>4 DEF Collect
<1>2. CASE EraseLogs \/ EraseRows \/ EraseEvents \/ EraseCheckpoints
  <2>1. erase' \in Erasure
    <3>1. CASE EraseLogs
      BY <3>1 DEF EraseLogs, Erasure
    <3>2. CASE EraseRows
      BY <3>2 DEF EraseRows, Rows, Erasure
    <3>3. CASE EraseEvents
      BY <3>3 DEF EraseEvents, Erasure
    <3>4. CASE EraseCheckpoints
      BY <3>4 DEF EraseCheckpoints, Erasure
    <3> QED  BY <1>2, <3>1, <3>2, <3>3, <3>4
  <2> QED  BY <1>2, <2>1 DEF EraseLogs, EraseRows, EraseEvents, EraseCheckpoints
<1>3. CASE CommitErase
  BY <1>3 DEF CommitErase, NoErasure, Erasure
<1>4. CASE EraseFails
  BY <1>4 DEF EraseFails, NoErasure, Erasure
<1> QED  BY <1>1, <1>2, <1>3, <1>4 DEF Eraser
-----------------------------------------------------------------------------
(* Steps that neither log nor touch a version.                               *)

\* What the invariant says beyond types depends on the logs, the versions, the
\* erasure's rows and on who has an upsert open.
Aside ==
  /\ UNCHANGED <<logs, version, crossed>>
  /\ erase'.pc = erase.pc /\ erase'.logs = erase.logs /\ erase'.rows = erase.rows
  /\ \A t \in Turn : /\ pc[t] = "done" => pc'[t] = "done"
                     /\ pc'[t] = "upserted" => ThreadOf[t] \notin erase.rows

LEMMA AsideKeeps ==
  ASSUME IInv, Aside
  PROVE  (LogsAreDone /\ NoOtherWriter /\ SameThreads /\ VersionCountsLogs)'
PROOF
<1>1. LogsAreDone'
  BY DEF IInv, TypeOK, Erasure, LogsAreDone, Aside
<1>2. NoOtherWriter' /\ SameThreads'
  BY DEF IInv, NoOtherWriter, SameThreads, Aside
<1>3. VersionCountsLogs'
  BY DEF IInv, VersionCountsLogs, LogsOf, Aside
<1> QED  BY <1>1, <1>2, <1>3

\* Turns, failing tasks, upserts and status changes are such steps.
LEMMA GraphAside ==
  ASSUME IInv, NEW t \in Turn, Graph(t)
  PROVE  Aside
PROOF
<1>1. \A u \in Turn : pc[u] = "upserted" => ThreadOf[u] \notin erase.rows
  BY DEF IInv, NoOtherWriter
<1>2. pc \in [Turn -> TurnPc] /\ erase \in Erasure
  BY DEF IInv, TypeOK
<1>3. /\ UNCHANGED <<logs, version, crossed>>
      /\ \E l \in TurnPc \ {"upserted"} : Goto(t, l) /\ pc[t] # "done"
  BY DEF Graph, StartTurn, Record, Answer, AfterAnswer, Pause, Decide, TurnFails,
         TurnPc, memory, history
<1>4. erase'.pc = erase.pc /\ erase'.logs = erase.logs /\ erase'.rows = erase.rows
  BY <1>2 DEF Graph, StartTurn, Record, Answer, Pause, Decide, TurnFails, Save, Erasure
<1> QED  BY <1>1, <1>2, <1>3, <1>4 DEF Aside, Goto

LEMMA TaskAside ==
  ASSUME IInv, NEW t \in Turn, Upsert(t) \/ TaskFails(t)
  PROVE  Aside
PROOF
<1>1. \A u \in Turn : pc[u] = "upserted" => ThreadOf[u] \notin erase.rows
  BY DEF IInv, NoOtherWriter
<1>2. pc \in [Turn -> TurnPc]
  BY DEF IInv, TypeOK
<1> QED  BY <1>1, <1>2 DEF Upsert, TaskFails, Goto, Aside, memory, history

LEMMA PatchAside ==
  ASSUME IInv, (\E v \in 1..Cardinality(Turn) : Patch(v)) \/ PatchClose
  PROVE  Aside
BY DEF IInv, NoOtherWriter, Patch, PatchClose, Aside, memory, history
-----------------------------------------------------------------------------
(* The commit of a log.                                                      *)

LEMMA CommitLogKeeps ==
  ASSUME IInv, NEW t \in Turn, CommitLog(t)
  PROVE  (LogsAreDone /\ NoOtherWriter /\ SameThreads /\ VersionCountsLogs)'
PROOF
<1>0. /\ pc \in [Turn -> TurnPc] /\ logs \subseteq Turn /\ erase \in Erasure
      /\ version \in [Thread -> Nat] /\ crossed \in BOOLEAN
  BY DEF IInv, TypeOK
<1>1. t \notin logs /\ t \notin erase.logs /\ ThreadOf[t] \notin erase.rows
  BY DEF IInv, LogsAreDone, NoOtherWriter, CommitLog
<1>2. LogsAreDone'
  <2>1. IsFiniteSet(logs')
    BY FS_AddElement DEF IInv, LogsAreDone, CommitLog
  <2> QED  BY <1>0, <2>1 DEF IInv, LogsAreDone, CommitLog, Goto, Erasure
<1>3. NoOtherWriter'
  BY <1>0 DEF IInv, NoOtherWriter, CommitLog, Goto
<1>4. SameThreads'
  BY <1>0, <1>1 DEF IInv, SameThreads, CommitLog
<1>5. VersionCountsLogs'
  <2> SUFFICES ASSUME ~crossed, NEW th \in Thread
               PROVE  version'[th] = Cardinality(LogsOf(th)')
    BY <1>0 DEF VersionCountsLogs, CommitLog
  <2>1. version[th] = Cardinality(LogsOf(th)) /\ IsFiniteSet(LogsOf(th))
    <3>1. LogsOf(th) \subseteq logs
      BY DEF LogsOf
    <3> QED  BY <3>1, FS_Subset DEF IInv, VersionCountsLogs, LogsAreDone
  <2>2. CASE th = ThreadOf[t]
    <3>1. LogsOf(th)' = LogsOf(th) \cup {t} /\ t \notin LogsOf(th)
      BY <1>1, <2>2 DEF LogsOf, CommitLog
    <3>2. Cardinality(LogsOf(th)') = Cardinality(LogsOf(th)) + 1
      BY <2>1, <3>1, FS_AddElement
    <3> QED  BY <1>0, <2>1, <2>2, <3>2 DEF CommitLog
  <2>3. CASE th # ThreadOf[t]
    <3>1. LogsOf(th)' = LogsOf(th)
      BY <2>3 DEF LogsOf, CommitLog
    <3> QED  BY <1>0, <2>1, <2>3, <3>1 DEF CommitLog
  <2> QED  BY <2>2, <2>3
<1> QED  BY <1>2, <1>3, <1>4, <1>5
-----------------------------------------------------------------------------
(* The erasure.                                                              *)

\* A statement of the erasure changes no table.
LEMMA StatementKeepsCount ==
  ASSUME IInv, UNCHANGED <<logs, version, crossed>>
  PROVE  VersionCountsLogs'
BY DEF IInv, VersionCountsLogs, LogsOf

\* A logged turn has a row in intent_tracking.
LEMMA LoggedHasRow ==
  ASSUME IInv, ~crossed, NEW t \in logs
  PROVE  ThreadOf[t] \in Rows
PROOF
<1>1. t \in Turn /\ ThreadOf[t] \in Thread
  BY DEF IInv, TypeOK
<1>2. IsFiniteSet(LogsOf(ThreadOf[t])) /\ t \in LogsOf(ThreadOf[t])
  <2>1. LogsOf(ThreadOf[t]) \subseteq logs
    BY DEF LogsOf
  <2> QED  BY <2>1, FS_Subset DEF IInv, LogsAreDone, LogsOf
<1>3. Cardinality(LogsOf(ThreadOf[t])) # 0 /\ Cardinality(LogsOf(ThreadOf[t])) \in Nat
  BY <1>2, FS_EmptySet, FS_CardinalityType
<1>4. version[ThreadOf[t]] = Cardinality(LogsOf(ThreadOf[t]))
  BY <1>1 DEF IInv, VersionCountsLogs
<1> QED  BY <1>1, <1>3, <1>4 DEF Rows

LEMMA StatementKeeps ==
  ASSUME IInv, Collect \/ EraseLogs \/ EraseRows \/ EraseEvents \/ EraseCheckpoints
  PROVE  (LogsAreDone /\ NoOtherWriter /\ SameThreads /\ VersionCountsLogs)'
PROOF
<1>0. pc \in [Turn -> TurnPc] /\ logs \subseteq Turn /\ erase \in Erasure
  BY DEF IInv, TypeOK
<1>1. UNCHANGED <<logs, version, crossed, pc>>
  BY DEF Collect, EraseLogs, EraseRows, EraseEvents, EraseCheckpoints, memory, history
<1>2. VersionCountsLogs'
  BY <1>1, StatementKeepsCount
<1>3. CASE Collect \/ EraseEvents \/ EraseCheckpoints
  <2>1. /\ erase'.logs = erase.logs /\ erase'.rows = erase.rows
        /\ \/ erase'.pc = "logs" /\ erase.pc = "idle"
           \/ erase.pc \in {"events", "wipe"} /\ erase'.pc \in {"wipe", "commit"}
    BY <1>0, <1>3 DEF Collect, EraseEvents, EraseCheckpoints, Erasure
  <2> QED  BY <1>1, <1>2, <2>1 DEF IInv, LogsAreDone, NoOtherWriter, SameThreads
<1>4. CASE EraseLogs
  <2>1. /\ erase.pc = "logs" /\ erase'.pc = "rows"
        /\ erase'.logs = logs /\ erase'.rows = erase.rows
    BY <1>0, <1>4 DEF EraseLogs, Erasure
  <2> QED  BY <1>1, <1>2, <2>1 DEF IInv, LogsAreDone, NoOtherWriter, SameThreads
<1>5. CASE EraseRows
  <2>1. /\ erase.pc = "rows" /\ erase'.pc = "events"
        /\ erase'.logs = erase.logs /\ erase'.rows = Rows
        /\ \A th \in Rows : In(th, {"upserted"}) = {}
    BY <1>0, <1>5 DEF EraseRows, Erasure
  <2>2. LogsAreDone'
    BY <1>1, <2>1 DEF IInv, LogsAreDone
  <2>3. NoOtherWriter'
    BY <1>1, <2>1 DEF NoOtherWriter, In
  <2>4. SameThreads'
    BY <1>1, <2>1, LoggedHasRow DEF IInv, SameThreads
  <2> QED  BY <1>2, <2>2, <2>3, <2>4
<1> QED  BY <1>3, <1>4, <1>5

LEMMA EndOfErasureKeeps ==
  ASSUME IInv, CommitErase \/ EraseFails
  PROVE  (LogsAreDone /\ NoOtherWriter /\ SameThreads /\ VersionCountsLogs)'
PROOF
<1>0. /\ logs \subseteq Turn /\ crossed' = crossed /\ pc' = pc
      /\ erase'.pc = "idle" /\ erase'.logs = {} /\ erase'.rows = {}
  BY DEF IInv, TypeOK, CommitErase, EraseFails, NoErasure, memory, history
<1>1. logs' \subseteq logs
  BY DEF CommitErase, EraseFails, memory
<1>2. LogsAreDone'
  BY <1>0, <1>1, FS_Subset DEF IInv, LogsAreDone
<1>3. NoOtherWriter' /\ SameThreads'
  BY <1>0 DEF NoOtherWriter, SameThreads
<1>4. CASE EraseFails
  <2>1. UNCHANGED <<logs, version, crossed>>
    BY <1>4 DEF EraseFails, memory, history
  <2> QED  BY <1>2, <1>3, <2>1, StatementKeepsCount
<1>5. CASE CommitErase
  <2>1. VersionCountsLogs'
    <3> SUFFICES ASSUME ~crossed, NEW th \in Thread
                 PROVE  version'[th] = Cardinality(LogsOf(th)')
      BY <1>0 DEF VersionCountsLogs
    <3>1. \A t \in logs : t \in erase.logs <=> ThreadOf[t] \in erase.rows
      BY <1>5 DEF IInv, SameThreads, CommitErase
    <3>2. CASE th \in erase.rows
      <4>1. LogsOf(th)' = {}
        BY <1>5, <3>1, <3>2 DEF LogsOf, CommitErase
      <4>2. version'[th] = 0
        BY <1>5, <3>2 DEF CommitErase
      <4> QED  BY <4>1, <4>2, FS_EmptySet
    <3>3. CASE th \notin erase.rows
      <4>1. LogsOf(th)' = LogsOf(th)
        BY <1>5, <3>1, <3>3 DEF LogsOf, CommitErase
      <4>2. version'[th] = version[th]
        BY <1>5, <3>3 DEF CommitErase
      <4> QED  BY <4>1, <4>2 DEF IInv, VersionCountsLogs
    <3> QED  BY <3>2, <3>3
  <2> QED  BY <1>2, <1>3, <2>1
<1> QED  BY <1>4, <1>5
-----------------------------------------------------------------------------
LEMMA Inductive == IInv /\ [Next]_vars => IInv'
PROOF
<1> SUFFICES ASSUME IInv, [Next]_vars  PROVE IInv'
  OBVIOUS
<1>0. TypeOK
  BY DEF IInv
<1>1. ASSUME NEW t \in Turn, Graph(t)  PROVE IInv'
  BY <1>0, <1>1, GraphType, GraphAside, AsideKeeps DEF IInv
<1>2. ASSUME NEW t \in Turn, Upsert(t) \/ TaskFails(t)  PROVE IInv'
  BY <1>0, <1>2, TaskType, TaskAside, AsideKeeps DEF IInv, Task
<1>3. ASSUME NEW t \in Turn, CommitLog(t)  PROVE IInv'
  BY <1>0, <1>3, TaskType, CommitLogKeeps DEF IInv, Task
<1>4. CASE (\E v \in 1..Cardinality(Turn) : Patch(v)) \/ PatchClose
  BY <1>0, <1>4, PatchType, PatchAside, AsideKeeps DEF IInv
<1>5. CASE Collect \/ EraseLogs \/ EraseRows \/ EraseEvents \/ EraseCheckpoints
  BY <1>0, <1>5, ErasureType, StatementKeeps DEF IInv, Eraser
<1>6. CASE CommitErase \/ EraseFails
  BY <1>0, <1>6, ErasureType, EndOfErasureKeeps DEF IInv, Eraser
<1>7. CASE UNCHANGED vars
  <2>1. TypeOK'
    BY <1>0, <1>7 DEF TypeOK, vars, memory, history
  <2>2. Aside
    BY <1>7 DEF IInv, NoOtherWriter, Aside, vars, memory, history
  <2> QED  BY <2>1, <2>2, AsideKeeps DEF IInv
<1> QED  BY <1>1, <1>2, <1>3, <1>4, <1>5, <1>6, <1>7 DEF Next, Task, Eraser

LEMMA InvariantHolds == Spec => []IInv
BY InitInv, Inductive, PTL DEF Spec

\* Tables, checkpoints and transactions keep their shape, for any number of
\* threads and turns.
THEOREM TypeCorrect == Spec => []TypeOK
PROOF
<1>1. IInv => TypeOK
  BY DEF IInv
<1> QED  BY <1>1, InvariantHolds, PTL

\* The version of every thread's intent counts its logged extractions, whatever
\* tasks, failures, status changes and erasures do, until a log is committed
\* between an erasure's deletion of the logs and of the rows.
THEOREM VersionsCountLogs == Spec => []VersionCountsLogs
PROOF
<1>1. IInv => VersionCountsLogs
  BY DEF IInv
<1> QED  BY <1>1, InvariantHolds, PTL
-----------------------------------------------------------------------------
(* What an erasure that ran alone has taken does not come back.              *)

\* A thread's messages are its own, and only a running graph holds any.
ThreadsApart ==
  /\ \A th \in Thread : \A t \in checkpoint[th] : ThreadOf[t] = th
  /\ \A u \in Turn : \A t \in seen[u] :
       ThreadOf[t] = ThreadOf[u] /\ pc[u] \in {"running", "recorded"}

\* While an erasure runs alone, nothing is added behind its statements.
NothingBehind ==
  erase.alone /\ erase.pc # "idle" =>
    /\ \A t \in Turn : pc[t] \in {"new", "paused", "done"}
    /\ erase.pc \in {"rows", "events", "wipe", "commit"} => logs = erase.logs
    /\ erase.pc \in {"wipe", "commit"} => events = erase.events
    /\ erase.pc = "commit" => erase.wiped = erase.threads

\* An erased turn is over and in nobody's memory, nor in a running graph's.
Gone ==
  \A t \in erased :
    /\ pc[t] = "done" /\ t \notin events /\ t \notin logs
    /\ \A th \in Thread : t \notin checkpoint[th]
    /\ \A u \in Turn : t \notin seen[u]

GInv == TypeOK /\ ThreadsApart /\ NothingBehind /\ Gone

LEMMA InitGone == Init => GInv
BY InitInv DEF IInv, Init, GInv, ThreadsApart, NothingBehind, Gone, NoErasure

\* What a save does to the erasure.
LEMMA SaveMarks ==
  ASSUME TypeOK, NEW th \in Thread, NEW S \in SUBSET Turn, Save(th, S)
  PROVE  /\ \A o \in Thread : checkpoint'[o] = IF o = th THEN S ELSE checkpoint[o]
         /\ erase'.pc = erase.pc /\ (erase'.alone => erase'.pc = "idle")
BY DEF TypeOK, Erasure, Save

LEMMA GraphGone ==
  ASSUME GInv, NEW t \in Turn, Graph(t)
  PROVE  (ThreadsApart /\ NothingBehind /\ Gone)'
PROOF
<1> USE DEF GInv
<1>0. /\ pc \in [Turn -> TurnPc] /\ seen \in [Turn -> SUBSET Turn]
      /\ checkpoint \in [Thread -> SUBSET Turn] /\ events \subseteq Turn
      /\ erased \subseteq Turn /\ ThreadOf[t] \in Thread
  BY DEF TypeOK
<1>1. CASE StartTurn(t)
  <2>1. checkpoint[ThreadOf[t]] \cup {t} \in SUBSET Turn
    BY <1>0
  <2>2. Save(ThreadOf[t], checkpoint[ThreadOf[t]] \cup {t})
    BY <1>1 DEF StartTurn
  <2>3. /\ \A o \in Thread : checkpoint'[o] = IF o = ThreadOf[t]
               THEN checkpoint[ThreadOf[t]] \cup {t} ELSE checkpoint[o]
        /\ erase'.alone => erase'.pc = "idle"
    BY <1>0, <2>1, <2>2, SaveMarks
  <2>4. /\ pc[t] = "new" /\ UNCHANGED <<events, logs, erased>>
        /\ pc' = [pc EXCEPT ![t] = "running"]
        /\ seen' = [seen EXCEPT ![t] = checkpoint[ThreadOf[t]] \cup {t}]
    BY <1>1 DEF StartTurn, Goto
  <2>5. ThreadsApart'
    BY <1>0, <2>3, <2>4 DEF ThreadsApart
  <2>6. NothingBehind'
    BY <2>3 DEF NothingBehind
  <2>7. Gone'
    BY <1>0, <2>3, <2>4 DEF Gone
  <2> QED  BY <2>5, <2>6, <2>7
<1>2. CASE Record(t)
  <2>1. /\ pc[t] = "running" /\ pc' = [pc EXCEPT ![t] = "recorded"]
        /\ events' = events \cup {t} /\ UNCHANGED <<checkpoint, seen, erase, logs, erased>>
    BY <1>2 DEF Record, Goto, history
  <2> QED  BY <1>0, <2>1 DEF ThreadsApart, NothingBehind, Gone
<1>3. CASE Answer(t)
  <2>1. seen[t] \in SUBSET Turn /\ Save(ThreadOf[t], seen[t])
    BY <1>0, <1>3 DEF Answer
  <2>2. /\ \A o \in Thread : checkpoint'[o] = IF o = ThreadOf[t] THEN seen[t]
                                                               ELSE checkpoint[o]
        /\ erase'.alone => erase'.pc = "idle"
    BY <1>0, <2>1, SaveMarks
  <2>3. /\ pc[t] # "done" /\ UNCHANGED <<events, logs, erased>>
        /\ \E l \in AfterAnswer : pc' = [pc EXCEPT ![t] = l]
        /\ seen' = [seen EXCEPT ![t] = {}]
    BY <1>3 DEF Answer, Goto
  <2>4. ThreadsApart'
    BY <1>0, <2>2, <2>3 DEF ThreadsApart
  <2>5. NothingBehind'
    BY <2>2 DEF NothingBehind
  <2>6. Gone'
    BY <1>0, <2>2, <2>3 DEF Gone
  <2> QED  BY <2>4, <2>5, <2>6
<1>4. CASE Pause(t) \/ TurnFails(t)
  <2>1. /\ pc[t] \in {"running", "recorded"}
        /\ \E l \in {"paused", "done"} : pc' = [pc EXCEPT ![t] = l]
        /\ seen' = [seen EXCEPT ![t] = {}]
        /\ UNCHANGED <<checkpoint, events, logs, erase, erased>>
    BY <1>4 DEF Pause, TurnFails, Goto, memory, history
  <2> QED  BY <1>0, <2>1 DEF ThreadsApart, NothingBehind, Gone
<1>5. CASE Decide(t)
  <2>1. /\ pc[t] = "paused" /\ pc' = [pc EXCEPT ![t] = "done"]
        /\ UNCHANGED <<seen, logs, erased>>
    BY <1>5 DEF Decide, Goto
  <2>2. CASE checkpoint[ThreadOf[t]] = {}
    <3>1. UNCHANGED <<checkpoint, events, erase>>
      BY <1>5, <2>2 DEF Decide
    <3> QED  BY <1>0, <2>1, <3>1 DEF ThreadsApart, NothingBehind, Gone
  <2>3. CASE checkpoint[ThreadOf[t]] # {}
    <3>1. Save(ThreadOf[t], checkpoint[ThreadOf[t]]) /\ events' \subseteq events \cup {t}
      BY <1>5, <2>3 DEF Decide
    <3>2. /\ \A o \in Thread : checkpoint'[o] = checkpoint[o]
          /\ erase'.alone => erase'.pc = "idle"
      BY <1>0, <3>1, SaveMarks
    <3>3. ThreadsApart'
      BY <1>0, <2>1, <3>2 DEF ThreadsApart
    <3>4. NothingBehind'
      BY <3>2 DEF NothingBehind
    <3>5. Gone'
      BY <1>0, <2>1, <3>1, <3>2 DEF Gone
    <3> QED  BY <3>3, <3>4, <3>5
  <2> QED  BY <2>2, <2>3
<1> QED  BY <1>1, <1>2, <1>3, <1>4, <1>5 DEF Graph

LEMMA TaskGone ==
  ASSUME GInv, NEW t \in Turn, Task(t) \/ TaskFails(t)
  PROVE  (ThreadsApart /\ NothingBehind /\ Gone)'
PROOF
<1>0. pc \in [Turn -> TurnPc] /\ erased \subseteq Turn
  BY DEF GInv, TypeOK
<1>1. /\ pc[t] \in {"answered", "upserted"}
      /\ \E l \in {"upserted", "done"} : pc' = [pc EXCEPT ![t] = l]
      /\ logs' \subseteq logs \cup {t}
      /\ UNCHANGED <<checkpoint, events, seen, erase, erased>>
  BY DEF Task, Upsert, CommitLog, TaskFails, Goto, memory, history
<1>2. ThreadsApart'
  BY <1>0, <1>1 DEF GInv, ThreadsApart
<1>3. NothingBehind'
  BY <1>0, <1>1 DEF GInv, NothingBehind
<1>4. Gone'
  BY <1>0, <1>1 DEF GInv, Gone
<1> QED  BY <1>2, <1>3, <1>4

\* The statements of an erasure change no table and no graph.
LEMMA StatementGone ==
  ASSUME GInv, Collect \/ EraseLogs \/ EraseRows \/ EraseEvents \/ EraseCheckpoints
  PROVE  (ThreadsApart /\ NothingBehind /\ Gone)'
PROOF
<1>0. erase \in Erasure
  BY DEF GInv, TypeOK
<1>1. UNCHANGED <<checkpoint, events, logs, seen, pc, erased>>
  BY DEF Collect, EraseLogs, EraseRows, EraseEvents, EraseCheckpoints, memory, history
<1>2. ThreadsApart' /\ Gone'
  BY <1>1 DEF GInv, ThreadsApart, Gone
<1>3. NothingBehind'
  <2>1. CASE Collect
    <3>1. /\ erase'.pc = "logs"
          /\ erase'.alone => \A t \in Turn : pc[t] \in {"new", "paused", "done"}
      BY <1>0, <2>1 DEF Collect, Erasure
    <3> QED  BY <1>1, <3>1 DEF NothingBehind
  <2>2. CASE EraseLogs
    BY <1>0, <1>1, <2>2 DEF GInv, NothingBehind, EraseLogs, Erasure
  <2>3. CASE EraseRows
    BY <1>0, <1>1, <2>3 DEF GInv, NothingBehind, EraseRows, Erasure
  <2>4. CASE EraseEvents
    BY <1>0, <1>1, <2>4 DEF GInv, NothingBehind, EraseEvents, Erasure
  <2>5. CASE EraseCheckpoints
    BY <1>0, <1>1, <2>5 DEF GInv, NothingBehind, EraseCheckpoints, Erasure
  <2> QED  BY <2>1, <2>2, <2>3, <2>4, <2>5
<1> QED  BY <1>2, <1>3

LEMMA EndGone ==
  ASSUME GInv, CommitErase \/ EraseFails
  PROVE  (ThreadsApart /\ NothingBehind /\ Gone)'
PROOF
<1>0. /\ checkpoint \in [Thread -> SUBSET Turn] /\ erased \subseteq Turn
      /\ seen \in [Turn -> SUBSET Turn]
  BY DEF GInv, TypeOK
<1>1. erase'.pc = "idle" /\ UNCHANGED <<pc, seen>>
  BY DEF CommitErase, EraseFails, NoErasure
<1>2. NothingBehind'
  BY <1>1 DEF NothingBehind
<1>3. CASE EraseFails
  <2>1. UNCHANGED <<checkpoint, events, logs, erased>>
    BY <1>3 DEF EraseFails, memory, history
  <2> QED  BY <1>1, <1>2, <2>1 DEF GInv, ThreadsApart, Gone
<1>4. CASE CommitErase
  <2>1. \A th \in Thread : checkpoint'[th] = IF th \in erase.wiped THEN {}
                                                             ELSE checkpoint[th]
    BY <1>4 DEF CommitErase
  <2>2. ThreadsApart'
    BY <1>1, <2>1 DEF GInv, ThreadsApart
  <2>3. events' \subseteq events /\ logs' \subseteq logs
    BY <1>4 DEF CommitErase
  <2>4. ASSUME NEW t \in erased', t \notin erased
        PROVE  /\ pc'[t] = "done" /\ t \notin events' /\ t \notin logs'
               /\ \A th \in Thread : t \notin checkpoint'[th]
               /\ \A u \in Turn : t \notin seen'[u]
    <3>1. /\ t \in Turn /\ erase.alone /\ erase.pc = "commit"
          /\ pc[t] = "done" /\ ThreadOf[t] \in erase.threads
      BY <1>4, <2>4 DEF CommitErase
    <3>2. /\ \A u \in Turn : pc[u] \in {"new", "paused", "done"}
          /\ logs = erase.logs /\ events = erase.events /\ erase.wiped = erase.threads
      BY <3>1 DEF GInv, NothingBehind
    <3>3. t \notin events' /\ t \notin logs'
      BY <1>4, <3>2 DEF CommitErase
    <3>4. \A th \in Thread : t \notin checkpoint'[th]
      BY <2>1, <3>1, <3>2 DEF GInv, ThreadsApart
    <3>5. \A u \in Turn : t \notin seen'[u]
      BY <1>1, <3>2 DEF GInv, ThreadsApart
    <3> QED  BY <1>1, <3>1, <3>3, <3>4, <3>5
  <2>5. Gone'
    BY <1>1, <2>1, <2>3, <2>4 DEF GInv, Gone
  <2> QED  BY <1>2, <2>2, <2>5
<1> QED  BY <1>3, <1>4

LEMMA GoneInductive == GInv /\ [Next]_vars => GInv'
PROOF
<1> SUFFICES ASSUME GInv, [Next]_vars  PROVE GInv'
  OBVIOUS
<1>0. TypeOK
  BY DEF GInv
<1>1. ASSUME NEW t \in Turn, Graph(t)  PROVE GInv'
  BY <1>0, <1>1, GraphType, GraphGone DEF GInv
<1>2. ASSUME NEW t \in Turn, Task(t) \/ TaskFails(t)  PROVE GInv'
  BY <1>0, <1>2, TaskType, TaskGone DEF GInv
<1>3. CASE (\E v \in 1..Cardinality(Turn) : Patch(v)) \/ PatchClose
  <2>1. UNCHANGED <<checkpoint, events, logs, seen, pc, erase, erased>>
    BY <1>3 DEF Patch, PatchClose, memory, history
  <2>2. (ThreadsApart /\ NothingBehind /\ Gone)'
    BY <2>1 DEF GInv, ThreadsApart, NothingBehind, Gone
  <2> QED  BY <1>0, <1>3, <2>2, PatchType DEF GInv
<1>4. CASE Collect \/ EraseLogs \/ EraseRows \/ EraseEvents \/ EraseCheckpoints
  BY <1>0, <1>4, ErasureType, StatementGone DEF GInv, Eraser
<1>5. CASE CommitErase \/ EraseFails
  BY <1>0, <1>5, ErasureType, EndGone DEF GInv, Eraser
<1>6. CASE UNCHANGED vars
  <2>1. TypeOK'
    BY <1>0, <1>6 DEF TypeOK, vars, memory, history
  <2> QED  BY <1>6, <2>1 DEF GInv, ThreadsApart, NothingBehind, Gone, vars, memory, history
<1> QED  BY <1>1, <1>2, <1>3, <1>4, <1>5, <1>6 DEF Next, Eraser

\* What an erasure took while no turn and no task ran beside it is gone for good
\* from the tables and from every checkpoint, for any number of later turns and
\* erasures.
THEOREM ErasureIsFinal == Spec => []ErasedStaysGone
PROOF
<1>1. Spec => []GInv
  BY InitGone, GoneInductive, PTL DEF Spec
<1>2. GInv => ErasedStaysGone
  BY DEF GInv, Gone, ErasedStaysGone, Remembered
<1> QED  BY <1>1, <1>2, PTL
=============================================================================
