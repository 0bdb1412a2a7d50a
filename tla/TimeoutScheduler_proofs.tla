---------------------- MODULE TimeoutScheduler_proofs -----------------------
(***************************************************************************)
(* Theorems about TimeoutScheduler, for any number of workers, sessions    *)
(* and reviews of a session.                                               *)
(***************************************************************************)
EXTENDS TimeoutScheduler, TLAPS

USE BoundAssumption, SendFailsAssumption
-----------------------------------------------------------------------------
(* The inductive invariant.                                                  *)

PassType ==
  /\ old \in [Worker -> SUBSET Pause] /\ warn \in [Worker -> SUBSET Pause]
  /\ noted \in [Worker -> SUBSET Pause] /\ over \in [Worker -> SUBSET Pause]
  /\ escaped \in [Worker -> SUBSET Pause] /\ written \in [Worker -> SUBSET Pause]
  /\ entered \in [Worker -> SUBSET Session]

\* What a worker has at each place of its pass.
PassStages ==
  \A w \in Worker :
    /\ pc[w] # "warn" => warn[w] = {}
    /\ pc[w] = "sleep" => noted[w] = {}

Types == TypeOK /\ PassType /\ PassStages

\* A review has one writer at a time: a decision that holds its row, or one
\* worker's transaction.  Who approves it found it "paused".
OneWriter ==
  /\ \A p \in deciding : status[p] = "paused" \/ rejecting[p] = "written"
  /\ \A p \in Pause : rejecting[p] = "written" => p \in deciding
  /\ \A w \in Worker : \A p \in escaped[w] :
       /\ status[p] = "paused" /\ p \notin deciding /\ p[1] \in entered[w]
       /\ \A v \in Worker \ {w} : p \notin escaped[v]

\* While passes have kept apart: one worker at most is in a pass, a review it
\* is to warn was not warned of yet, and one that was is marked or noted.
Apart ==
  ~crossed =>
    /\ \A v, w \in Worker : pc[v] # "sleep" /\ pc[w] # "sleep" => v = w
    /\ \A p \in Pause :
         /\ sent[p] <= 1
         /\ sent[p] = 1 => p \in marked \/ \E w \in Worker : p \in noted[w]
         /\ \A w \in Worker : p \in warn[w] => sent[p] = 0

IInv == Types /\ OneWriter /\ EscalatedIsQueued /\ Apart
-----------------------------------------------------------------------------
(* Types.                                                                    *)

LEMMA InitTypes ==
  ASSUME Init
  PROVE  Types
PROOF
<1>1. PassType /\ PassStages
  BY DEF Init, PassType, PassStages
<1>2. \A w \in Worker : Held(w) = {} /\ entered[w] = {}
  BY DEF Init, Held
<1>3. aborts \in 0..MaxAborts
  BY DEF Init
<1>4. /\ status \in [Pause -> {"none", "paused", "decided", "escalated"}]
      /\ age \in [Pause -> 0..2] /\ sent \in [Pause -> 0..2]
      /\ pc \in [Worker -> {"sleep", "warn", "write"}]
  BY DEF Init
<1> QED  BY <1>1, <1>2, <1>3, <1>4 DEF Init, Types, TypeOK, PassType

LEMMA PausedOfType ==
  ASSUME NEW s
  PROVE  PausedOf(s) \in SUBSET Pause
BY DEF PausedOf

LEMMA FirstInSession ==
  ASSUME NEW p \in Pause
  PROVE  p[1] \in Session
BY DEF Pause

\* The end of a pass leaves the worker with nothing.
LEMMA EndPassTypes ==
  ASSUME Types, NEW w \in Worker, EndPass(w)
  PROVE  /\ PassType' /\ PassStages'
         /\ pc' \in [Worker -> {"sleep", "warn", "write"}]
         /\ \A v \in Worker : pc'[v] # "write" => Held(v)' = {} /\ entered'[v] = {}
PROOF
<1>1. PassType'
  BY DEF Types, PassType, EndPass
<1>2. PassStages'
  BY DEF Types, TypeOK, PassType, PassStages, EndPass
<1>3. pc' \in [Worker -> {"sleep", "warn", "write"}]
  BY DEF Types, TypeOK, EndPass
<1>4. \A v \in Worker : pc'[v] # "write" => Held(v)' = {} /\ entered'[v] = {}
  BY DEF Types, TypeOK, PassType, EndPass, Held
<1> QED  BY <1>1, <1>2, <1>3, <1>4

LEMMA StepTypes ==
  ASSUME Types, [Next]_vars
  PROVE  Types'
PROOF
<1> USE DEF database, pass, history, reviews
<1>1. ASSUME NEW w \in Worker, BeginPass(w)  PROVE Types'
  <2>1. WarnDue \in SUBSET Pause /\ {p \in Pause : age[p] = 2} \in SUBSET Pause
    BY DEF WarnDue
  <2>2. PassType'
    BY <1>1, <2>1 DEF BeginPass, Types, PassType
  <2>3. PassStages'
    BY <1>1 DEF BeginPass, Types, TypeOK, PassType, PassStages
  <2>4. \A v \in Worker : pc'[v] # "write" => Held(v)' = {} /\ entered'[v] = {}
    BY <1>1 DEF BeginPass, Types, TypeOK, Held
  <2>5. pc' \in [Worker -> {"sleep", "warn", "write"}] /\ crossed' \in BOOLEAN
    BY <1>1 DEF BeginPass, Types, TypeOK
  <2> QED  BY <1>1, <2>2, <2>3, <2>4, <2>5 DEF BeginPass, Types, TypeOK, PassType
<1>2. ASSUME NEW w \in Worker, NEW p \in Pause, Warn(w, p)  PROVE Types'
  <2>1. PassType'
    BY <1>2 DEF Warn, Types, PassType
  <2>2. PassStages'
    BY <1>2 DEF Warn, Types, PassType, PassStages
  <2>3. \A v \in Worker : pc'[v] # "write" => Held(v)' = {} /\ entered'[v] = {}
    BY <1>2 DEF Warn, Types, TypeOK, Held
  <2>4. sent' \in [Pause -> 0..2]
    BY <1>2 DEF Warn, Types, TypeOK
  <2> QED  BY <1>2, <2>1, <2>2, <2>3, <2>4 DEF Warn, Types, TypeOK, PassType
<1>3. ASSUME NEW w \in Worker, ReadOver(w)  PROVE Types'
  <2>1. {p \in old[w] : status[p] = "paused"} \in SUBSET Pause
    BY DEF Types, PassType
  <2>2. PassType'
    BY <1>3, <2>1 DEF ReadOver, Types, PassType
  <2>3. PassStages'
    BY <1>3 DEF ReadOver, Types, TypeOK, PassType, PassStages
  <2>4. \A v \in Worker : pc'[v] # "write" => Held(v)' = {} /\ entered'[v] = {}
    BY <1>3 DEF ReadOver, Types, TypeOK, Held
  <2> QED  BY <1>3, <2>2, <2>3, <2>4 DEF ReadOver, Types, TypeOK, PassType
<1>4. ASSUME NEW w \in Worker, NEW p \in Pause, Escalate(w, p)  PROVE Types'
  <2>1. PassType'
    BY <1>4, PausedOfType, FirstInSession DEF Escalate, Enter, Types, PassType
  <2>2. PassStages'
    BY <1>4 DEF Escalate, Types, PassStages
  <2>3. \A v \in Worker : pc'[v] # "write" => Held(v)' = {} /\ entered'[v] = {}
    BY <1>4 DEF Escalate, Enter, Types, TypeOK, PassType, Held
  <2> QED  BY <1>4, <2>1, <2>2, <2>3 DEF Escalate, Types, TypeOK, PassType
<1>5. ASSUME NEW w \in Worker, NEW p \in Pause, Flush(w, p)  PROVE Types'
  <2>1. PassType'
    BY <1>5 DEF Flush, Types, PassType
  <2>2. PassStages'
    BY <1>5 DEF Flush, Types, PassStages
  <2>3. \A v \in Worker : pc'[v] # "write" => Held(v)' = {} /\ entered'[v] = {}
    BY <1>5 DEF Flush, Flushing, Types, TypeOK, PassType, Held
  <2> QED  BY <1>5, <2>1, <2>2, <2>3 DEF Flush, Types, TypeOK, PassType
<1>6. ASSUME NEW w \in Worker, Commit(w)  PROVE Types'
  <2>1. EndPass(w)
    BY <1>6 DEF Commit
  <2>2. status' \in [Pause -> {"none", "paused", "decided", "escalated"}]
    BY <1>6 DEF Commit, Types, TypeOK
  <2>3. marked' \subseteq Pause /\ support' \subseteq Session
    BY <1>6 DEF Commit, Types, TypeOK, PassType
  <2> QED  BY <1>6, <2>1, <2>2, <2>3, EndPassTypes DEF Commit, Types, TypeOK, PassType
<1>7. ASSUME NEW w \in Worker, RollBack(w), aborts' \in 0..MaxAborts  PROVE Types'
  <2>1. EndPass(w)
    BY <1>7 DEF RollBack
  <2> QED  BY <1>7, <2>1, EndPassTypes DEF RollBack, Types, TypeOK, PassType
<1>8. ASSUME NEW w \in Worker, Abort(w) \/ Victim(w)  PROVE Types'
  <2>1. RollBack(w) /\ aborts' \in 0..MaxAborts
    BY <1>8 DEF Abort, Victim, Types, TypeOK
  <2> QED  BY <2>1, <1>7
<1>9. CASE Others
  <2> DEFINE Rows == /\ status' \in [Pause -> {"none", "paused", "decided", "escalated"}]
                     /\ age' \in [Pause -> 0..2] /\ deciding' \subseteq Pause
                     /\ rejecting' \in [Pause -> {"no", "run", "entered", "written"}]
                     /\ support' \subseteq Session /\ aborts' \in 0..MaxAborts
                     /\ UNCHANGED <<marked, pc, pass, history>>
  <2> USE DEF reviews, others
  <2>1. ASSUME NEW s \in Session, NEW n \in 1..MaxPauses, PauseSession(s, n)  PROVE Rows
    BY <2>1 DEF PauseSession, Types, TypeOK
  <2>2. ASSUME NEW p \in Pause, Approve(p)  PROVE Rows
    BY <2>2 DEF Approve, Types, TypeOK
  <2>3. ASSUME NEW p \in Pause, Resumed(p) \/ GiveBack(p)  PROVE Rows
    BY <2>3 DEF Resumed, GiveBack, Decided, Types, TypeOK
  <2>4. ASSUME NEW p \in Pause, GetOlder(p)  PROVE Rows
    BY <2>4 DEF GetOlder, Types, TypeOK
  <2>5. ASSUME NEW p \in Pause, Reject(p) \/ RejectEnters(p) \/ RejectWrites(p)  PROVE Rows
    BY <2>5 DEF Reject, RejectEnters, RejectWrites, Types, TypeOK
  <2>6. ASSUME NEW p \in Pause, Rejected(p)  PROVE Rows
    BY <2>6, FirstInSession DEF Rejected, Types, TypeOK
  <2>7. ASSUME NEW p \in Pause, RejectAborts(p) \/ RejectVictim(p)  PROVE Rows
    BY <2>7 DEF RejectAborts, RejectVictim, Unreject, Types, TypeOK
  <2>8. Rows
    BY <1>9, <2>1, <2>2, <2>3, <2>4, <2>5, <2>6, <2>7 DEF Others, Rejection
  <2>9. PassType' /\ PassStages' /\ \A w \in Worker : Held(w)' = Held(w)
    BY <2>8 DEF Types, PassType, PassStages, Held
  <2> QED  BY <2>8, <2>9 DEF Types, TypeOK
<1>10. CASE UNCHANGED vars
  BY <1>10 DEF vars, Types, TypeOK, PassType, PassStages, Held
<1> QED
  BY <1>1, <1>2, <1>3, <1>4, <1>5, <1>6, <1>8, <1>9, <1>10 DEF Next, Step

-----------------------------------------------------------------------------
(* One writer of a review.                                                   *)

\* What a step that commits nothing may do to the rows and to the transactions.
LEMMA OneWriterKept ==
  ASSUME Types, OneWriter,
         NEW w \in Worker,
         UNCHANGED <<status, deciding, rejecting>>,
         \A v \in Worker \ {w} : escaped'[v] = escaped[v] /\ entered'[v] = entered[v],
         escaped'[w] = {} \/ (escaped'[w] = escaped[w] /\ entered'[w] = entered[w])
  PROVE  OneWriter'
PROOF
<1>1. /\ \A p \in deciding' : status'[p] = "paused" \/ rejecting'[p] = "written"
      /\ \A p \in Pause : rejecting'[p] = "written" => p \in deciding'
  BY DEF OneWriter
<1>2. ASSUME NEW v \in Worker, NEW p \in escaped'[v]
      PROVE  /\ p \in escaped[v] /\ p[1] \in entered'[v]
             /\ status'[p] = "paused" /\ p \notin deciding'
  BY <1>2 DEF OneWriter
<1>3. ASSUME NEW v \in Worker, NEW p \in escaped'[v], NEW u \in Worker \ {v}
      PROVE  p \notin escaped'[u]
  <2>1. escaped'[u] = {} \/ escaped'[u] = escaped[u]
    OBVIOUS
  <2> QED  BY <1>2, <2>1 DEF OneWriter
<1> QED  BY <1>1, <1>2, <1>3 DEF OneWriter

LEMMA EscalateOneWriter ==
  ASSUME Types, OneWriter, NEW w \in Worker, NEW p \in Pause, Escalate(w, p)
  PROVE  OneWriter'
PROOF
<1> DEFINE E == PausedOf(p[1])
<1>1. /\ escaped' = [escaped EXCEPT ![w] = @ \cup E]
      /\ entered' = [entered EXCEPT ![w] = @ \cup {p[1]}]
      /\ deciding \cap E = {} /\ \A v \in Worker \ {w} : escaped[v] \cap E = {}
      /\ UNCHANGED <<status, deciding, rejecting>>
  BY DEF Escalate, Enter, CanEnter, Free, Held, database, reviews
<1>2. \A q \in E : q[1] = p[1] /\ status[q] = "paused" /\ q \in Pause
  BY DEF PausedOf
<1>3. escaped \in [Worker -> SUBSET Pause] /\ entered \in [Worker -> SUBSET Session]
  BY DEF Types, PassType
<1>4. ASSUME NEW v \in Worker, NEW q \in escaped'[v]
      PROVE  /\ status[q] = "paused" /\ q \notin deciding /\ q[1] \in entered'[v]
  BY <1>1, <1>2, <1>3, <1>4 DEF OneWriter
<1>5. ASSUME NEW v \in Worker, NEW q \in escaped'[v], NEW u \in Worker \ {v}
      PROVE  q \notin escaped'[u]
  <2>1. CASE v = w
    BY <1>1, <1>3, <2>1 DEF OneWriter
  <2>2. CASE v # w
    BY <1>1, <1>3, <2>2 DEF OneWriter
  <2> QED  BY <2>1, <2>2
<1> HIDE DEF E
<1> QED  BY <1>1, <1>4, <1>5 DEF OneWriter

LEMMA CommitOneWriter ==
  ASSUME Types, OneWriter, NEW w \in Worker, Commit(w)
  PROVE  OneWriter'
PROOF
<1>1. /\ \A p \in Pause : p \notin escaped[w] => status'[p] = status[p]
      /\ escaped'[w] = {} /\ UNCHANGED <<deciding, rejecting>>
      /\ \A v \in Worker \ {w} : escaped'[v] = escaped[v] /\ entered'[v] = entered[v]
  BY DEF Commit, EndPass, reviews, Types, PassType
<1>2. deciding \subseteq Pause /\ \A v \in Worker : escaped[v] \subseteq Pause
  BY DEF Types, TypeOK, PassType
<1>3. /\ \A p \in deciding' : status'[p] = "paused" \/ rejecting'[p] = "written"
      /\ \A p \in Pause : rejecting'[p] = "written" => p \in deciding'
  BY <1>1, <1>2 DEF OneWriter
<1>4. ASSUME NEW v \in Worker, NEW p \in escaped'[v]
      PROVE  /\ status'[p] = "paused" /\ p \notin deciding' /\ p[1] \in entered'[v]
             /\ \A u \in Worker \ {v} : p \notin escaped'[u]
  <2>1. v # w /\ p \in escaped[v]
    BY <1>1, <1>4
  <2>2. p \in Pause /\ p \notin escaped[w]
    BY <1>2, <2>1 DEF OneWriter
  <2> QED  BY <1>1, <2>1, <2>2 DEF OneWriter
<1> QED  BY <1>3, <1>4 DEF OneWriter

LEMMA OthersOneWriter ==
  ASSUME Types, OneWriter, Others
  PROVE  OneWriter'
PROOF
<1> USE DEF reviews, others, pass
<1>1. UNCHANGED <<escaped, entered>>
  BY DEF Others, PauseSession, Approve, Resumed, GiveBack, Decided, GetOlder, Reject, Rejection,
         RejectEnters, RejectWrites, Rejected, RejectAborts, RejectVictim, Unreject
<1>2. /\ deciding \subseteq Pause /\ \A v \in Worker : escaped[v] \subseteq Pause
      /\ status \in [Pause -> {"none", "paused", "decided", "escalated"}]
      /\ rejecting \in [Pause -> {"no", "run", "entered", "written"}]
  BY DEF Types, TypeOK, PassType
<1>3. ASSUME NEW s \in Session, NEW n \in 1..MaxPauses, PauseSession(s, n)  PROVE OneWriter'
  <2>1. \A p \in Pause : status[p] = "paused" => status'[p] = "paused"
    BY <1>2, <1>3 DEF PauseSession
  <2> QED  BY <1>1, <1>2, <1>3, <2>1 DEF PauseSession, OneWriter
<1>4. ASSUME NEW p \in Pause, Approve(p)  PROVE OneWriter'
  BY <1>1, <1>4 DEF Approve, Unwritten, Held, OneWriter
\* Who has written the row gives it up, and nobody else had.
<1>5. ASSUME NEW p \in deciding, deciding' = deciding \ {p},
             \A q \in Pause : q # p => status'[q] = status[q] /\ rejecting'[q] = rejecting[q],
             rejecting'[p] # "written"
      PROVE  OneWriter'
  <2>1. \A v \in Worker : p \notin escaped[v]
    BY DEF OneWriter
  <2>2. /\ \A q \in deciding' : status'[q] = "paused" \/ rejecting'[q] = "written"
        /\ \A q \in Pause : rejecting'[q] = "written" => q \in deciding'
    BY <1>2, <1>5 DEF OneWriter
  <2> QED  BY <1>1, <1>2, <1>5, <2>1, <2>2 DEF OneWriter
<1>6. ASSUME NEW p \in Pause, Resumed(p) \/ GiveBack(p)  PROVE OneWriter'
  BY <1>2, <1>5, <1>6 DEF Resumed, GiveBack, Decided
<1>7. ASSUME NEW p \in Pause, GetOlder(p)  PROVE OneWriter'
  BY <1>1, <1>7 DEF GetOlder, OneWriter
<1>8. ASSUME NEW p \in Pause, Reject(p) \/ RejectEnters(p)  PROVE OneWriter'
  <2>1. /\ UNCHANGED <<status, deciding>> /\ rejecting[p] \in {"no", "run"}
        /\ \E x \in {"run", "entered"} : rejecting' = [rejecting EXCEPT ![p] = x]
    BY <1>8 DEF Reject, RejectEnters
  <2>2. \A q \in Pause : rejecting'[q] = "written" <=> rejecting[q] = "written"
    BY <1>2, <2>1
  <2> QED  BY <1>1, <1>2, <2>1, <2>2 DEF OneWriter
<1>9. ASSUME NEW p \in Pause, RejectWrites(p)  PROVE OneWriter'
  <2>1. /\ UNCHANGED status /\ deciding' = deciding \cup {p}
        /\ rejecting' = [rejecting EXCEPT ![p] = "written"]
        /\ \A w \in Worker : p \notin escaped[w]
    BY <1>9 DEF RejectWrites, Unwritten, Held
  <2> QED  BY <1>1, <1>2, <2>1 DEF OneWriter
<1>10. ASSUME NEW p \in Pause, Rejected(p)  PROVE OneWriter'
  <2>1. p \in deciding
    BY <1>10 DEF Rejected, OneWriter
  <2> QED  BY <1>2, <1>5, <1>10, <2>1 DEF Rejected
<1>11. ASSUME NEW p \in Pause, RejectAborts(p) \/ RejectVictim(p)  PROVE OneWriter'
  <2>1. /\ UNCHANGED status /\ deciding' = deciding \ {p} /\ rejecting[p] # "no"
        /\ rejecting' = [rejecting EXCEPT ![p] = "no"]
    BY <1>11 DEF RejectAborts, RejectVictim, Unreject
  <2>2. CASE p \in deciding
    BY <1>2, <1>5, <2>1, <2>2
  <2>3. CASE p \notin deciding
    <3>1. deciding' = deciding /\ rejecting[p] # "written"
      BY <2>1, <2>3 DEF OneWriter
    <3> QED  BY <1>1, <1>2, <2>1, <2>3, <3>1 DEF OneWriter
  <2> QED  BY <2>2, <2>3
<1> QED
  BY <1>3, <1>4, <1>6, <1>7, <1>8, <1>9, <1>10, <1>11 DEF Others, Rejection

LEMMA StepOneWriter ==
  ASSUME Types, OneWriter, [Next]_vars
  PROVE  OneWriter'
PROOF
<1> USE DEF database, pass, reviews
<1>1. ASSUME NEW w \in Worker, BeginPass(w)  PROVE OneWriter'
  BY <1>1, OneWriterKept DEF BeginPass
<1>2. ASSUME NEW w \in Worker, NEW p \in Pause, Warn(w, p) \/ Flush(w, p)  PROVE OneWriter'
  BY <1>2, OneWriterKept DEF Warn, Flush
<1>3. ASSUME NEW w \in Worker, ReadOver(w)  PROVE OneWriter'
  BY <1>3, OneWriterKept DEF ReadOver
<1>4. ASSUME NEW w \in Worker, Abort(w) \/ Victim(w)  PROVE OneWriter'
  <2>1. /\ UNCHANGED <<status, deciding, rejecting>> /\ escaped'[w] = {}
        /\ \A v \in Worker \ {w} : escaped'[v] = escaped[v] /\ entered'[v] = entered[v]
    BY <1>4 DEF Abort, Victim, RollBack, EndPass, Types, PassType
  <2> QED  BY <2>1, OneWriterKept
<1>5. CASE UNCHANGED vars
  BY <1>5 DEF vars, OneWriter
<1> QED
  BY <1>1, <1>2, <1>3, <1>4, <1>5, EscalateOneWriter, CommitOneWriter, OthersOneWriter
     DEF Next, Step
-----------------------------------------------------------------------------
(* What a hand-over leaves.                                                  *)

\* Only a commit hands a review over, and only one its transaction wrote.
LEMMA EscalatedByCommit ==
  ASSUME Types, [Next]_vars, NEW p \in Pause,
         status[p] # "escalated", status'[p] = "escalated"
  PROVE  \E w \in Worker : Commit(w) /\ p \in escaped[w]
PROOF
<1> USE DEF database
<1>1. ASSUME NEW w \in Worker, UNCHANGED status  PROVE FALSE
  BY <1>1
<1>2. ASSUME NEW w \in Worker, Step(w) \/ Abort(w)
      PROVE  UNCHANGED status \/ Commit(w)
  BY <1>2 DEF Step, BeginPass, Warn, ReadOver, Escalate, Flush, Victim, Abort, RollBack
<1>3. ASSUME NEW w \in Worker, Commit(w)  PROVE p \in escaped[w]
  BY <1>3 DEF Commit
<1>4. CASE Others
  <2>1. ASSUME NEW s \in Session, NEW n \in 1..MaxPauses, PauseSession(s, n)  PROVE FALSE
    BY <2>1 DEF PauseSession, Types, TypeOK
  <2>2. ASSUME NEW q \in Pause, UNCHANGED status  PROVE FALSE
    BY <2>2
  <2>3. ASSUME NEW q \in Pause, Resumed(q) \/ GiveBack(q)  PROVE FALSE
    BY <2>3 DEF Resumed, GiveBack, Decided, Types, TypeOK
  <2>4. ASSUME NEW q \in Pause, Rejected(q)  PROVE FALSE
    BY <2>4 DEF Rejected, Types, TypeOK
  <2> QED
    BY <1>4, <2>1, <2>2, <2>3, <2>4
       DEF Others, Approve, GetOlder, Reject, Rejection, RejectEnters, RejectWrites,
           RejectAborts, RejectVictim, Unreject
<1>5. CASE UNCHANGED vars
  BY <1>5 DEF vars
<1> QED  BY <1>1, <1>2, <1>3, <1>4, <1>5 DEF Next

LEMMA SupportGrows ==
  ASSUME [Next]_vars
  PROVE  support \subseteq support'
PROOF
<1>1. ASSUME NEW w \in Worker, Step(w) \/ Abort(w)  PROVE support \subseteq support'
  BY <1>1 DEF Step, BeginPass, Warn, ReadOver, Escalate, Flush, Commit, Victim, Abort,
              RollBack, database
<1>2. CASE Others
  BY <1>2 DEF Others, PauseSession, Approve, Resumed, GiveBack, Decided, GetOlder, Reject,
              Rejection, RejectEnters, RejectWrites, Rejected, RejectAborts, RejectVictim,
              Unreject, others
<1> QED  BY <1>1, <1>2 DEF Next, vars, database

\* What was handed over has its row in support_queue after any step.
LEMMA QueuedInductive ==
  ASSUME Types, OneWriter, EscalatedIsQueued, [Next]_vars
  PROVE  EscalatedIsQueued'
PROOF
<1> SUFFICES ASSUME NEW p \in Pause, status'[p] = "escalated"
             PROVE  p[1] \in support'
  BY DEF EscalatedIsQueued
<1>1. CASE status[p] = "escalated"
  BY <1>1, SupportGrows DEF EscalatedIsQueued
<1>2. CASE status[p] # "escalated"
  <2>1. PICK w \in Worker : Commit(w) /\ p \in escaped[w]
    BY <1>2, EscalatedByCommit
  <2>2. p[1] \in entered[w]
    BY <2>1 DEF OneWriter
  <2> QED  BY <2>1, <2>2 DEF Commit
<1> QED  BY <1>1, <1>2

-----------------------------------------------------------------------------
(* Warnings.                                                                 *)

LEMMA PassApart ==
  ASSUME Types, Apart, ~crossed, NEW w \in Worker, pc[w] # "sleep"
  PROVE  \A v \in Worker \ {w} : pc[v] = "sleep" /\ warn[v] = {} /\ noted[v] = {}
BY DEF Apart, Types, PassStages

LEMMA BeginApart ==
  ASSUME Types, Apart, NEW w \in Worker, BeginPass(w)
  PROVE  Apart'
PROOF
<1> SUFFICES ASSUME ~crossed'
             PROVE  Apart'
  BY DEF Apart
<1>1. /\ ~crossed /\ \A v \in Worker : pc[v] = "sleep"
      /\ \A v \in Worker : noted[v] = {} /\ warn[v] = {}
  BY DEF BeginPass, Types, PassStages
<1>2. \A v \in Worker : pc'[v] # "sleep" => v = w
  BY <1>1 DEF BeginPass, Types, TypeOK
<1>3. \A v \in Worker : warn'[v] = IF v = w THEN WarnDue ELSE {}
  BY <1>1 DEF BeginPass, Types, PassType
<1>4. \A p \in WarnDue : p \in Pause /\ p \notin marked
  BY DEF WarnDue
<1>5. /\ sent \in [Pause -> 0..2]
      /\ UNCHANGED <<sent, marked, noted>>
  BY DEF BeginPass, Types, TypeOK, database
<1>6. ASSUME NEW p \in Pause
      PROVE  /\ sent'[p] <= 1
             /\ sent'[p] = 1 => p \in marked'
             /\ \A v \in Worker : p \in warn'[v] => sent'[p] = 0
  <2>1. sent[p] \in 0..2 /\ sent[p] <= 1 /\ (sent[p] = 1 => p \in marked)
    BY <1>1, <1>5 DEF Apart
  <2> QED  BY <1>3, <1>4, <1>5, <2>1
<1> QED  BY <1>2, <1>6 DEF Apart

LEMMA WarnApart ==
  ASSUME Types, Apart, NEW w \in Worker, NEW p \in Pause, Warn(w, p)
  PROVE  Apart'
PROOF
<1> SUFFICES ASSUME ~crossed'
             PROVE  Apart'
  BY DEF Apart
<1>1. ~crossed /\ UNCHANGED <<pc, marked>> /\ pc[w] # "sleep" /\ p \in warn[w]
  BY DEF Warn, database
<1>2. /\ warn' = [warn EXCEPT ![w] = @ \ {p}]
      /\ noted' = [noted EXCEPT ![w] = @ \cup {p}]
  BY DEF Warn
<1>3. warn \in [Worker -> SUBSET Pause] /\ noted \in [Worker -> SUBSET Pause]
      /\ sent \in [Pause -> 0..2]
  BY DEF Types, TypeOK, PassType
<1>4. /\ \A q \in Pause : q # p => sent'[q] = sent[q]
      /\ sent'[p] \in {0, 1}
  <2>1. sent[p] = 0
    BY <1>1 DEF Apart
  <2> QED  BY <1>3, <2>1 DEF Warn
<1>5. \A v \in Worker : p \notin warn'[v]
  BY <1>1, <1>2, <1>3, PassApart
<1>6. \A v \in Worker : noted[v] \subseteq noted'[v] /\ warn'[v] \subseteq warn[v]
  BY <1>2, <1>3
<1>7. p \in noted'[w]
  BY <1>2, <1>3
<1>8. ASSUME NEW q \in Pause
      PROVE  /\ sent'[q] <= 1
             /\ sent'[q] = 1 => q \in marked' \/ \E v \in Worker : q \in noted'[v]
             /\ \A v \in Worker : q \in warn'[v] => sent'[q] = 0
  <2>1. CASE q = p
    BY <1>4, <1>5, <1>7, <2>1
  <2>2. CASE q # p
    BY <1>1, <1>4, <1>6, <2>2 DEF Apart
  <2> QED  BY <2>1, <2>2
<1>9. \A u, v \in Worker : pc'[u] # "sleep" /\ pc'[v] # "sleep" => u = v
  BY <1>1 DEF Apart
<1> QED  BY <1>8, <1>9 DEF Apart

LEMMA CommitApart ==
  ASSUME Types, Apart, NEW w \in Worker, Commit(w)
  PROVE  Apart'
PROOF
<1> SUFFICES ASSUME ~crossed'
             PROVE  Apart'
  BY DEF Apart
<1>1. /\ ~crossed /\ pc[w] # "sleep" /\ marked' = marked \cup noted[w]
      /\ UNCHANGED sent
  BY DEF Commit, history
<1>2. /\ \A v \in Worker : warn'[v] \subseteq warn[v]
      /\ \A v \in Worker : pc'[v] # "sleep" => pc[v] # "sleep"
  BY DEF Commit, EndPass, Types, TypeOK, PassType
<1>3. \A q \in Pause : (\E v \in Worker : q \in noted[v]) => q \in marked'
  BY <1>1, PassApart
<1>4. ASSUME NEW q \in Pause
      PROVE  /\ sent'[q] <= 1
             /\ sent'[q] = 1 => q \in marked'
             /\ \A v \in Worker : q \in warn'[v] => sent'[q] = 0
  BY <1>1, <1>2, <1>3 DEF Apart
<1>5. \A u, v \in Worker : pc'[u] # "sleep" /\ pc'[v] # "sleep" => u = v
  BY <1>1, <1>2 DEF Apart
<1> QED  BY <1>4, <1>5 DEF Apart

LEMMA ApartInductive ==
  ASSUME Types, Apart, [Next]_vars
  PROVE  Apart'
PROOF
<1>1. ASSUME NEW w \in Worker, ReadOver(w)  PROVE Apart'
  <2>1. \A v \in Worker : pc'[v] # "sleep" => pc[v] # "sleep"
    BY <1>1 DEF ReadOver, Types, TypeOK
  <2> QED  BY <1>1, <2>1 DEF ReadOver, Apart, database, history
<1>2. ASSUME NEW w \in Worker, NEW p \in Pause, Escalate(w, p) \/ Flush(w, p)  PROVE Apart'
  BY <1>2 DEF Escalate, Flush, Apart, database, history
<1>3. ASSUME NEW w \in Worker, Abort(w) \/ Victim(w)  PROVE Apart'
  BY <1>3 DEF Abort, Victim, RollBack, Apart
<1>4. CASE Others
  <2>1. UNCHANGED <<marked, pc, pass, history>>
    BY <1>4 DEF Others, PauseSession, Approve, Resumed, GiveBack, Decided, GetOlder, Reject,
                Rejection, RejectEnters, RejectWrites, Rejected, RejectAborts, RejectVictim,
                Unreject, others
  <2> QED  BY <2>1 DEF Apart, pass, history
<1>5. CASE UNCHANGED vars
  BY <1>5 DEF vars, Apart, database, pass, history
<1> QED
  BY <1>1, <1>2, <1>3, <1>4, <1>5, BeginApart, WarnApart, CommitApart DEF Next, Step
-----------------------------------------------------------------------------
(* The theorems.                                                             *)

LEMMA InvariantHolds == Spec => []IInv
PROOF
<1>1. Init => IInv
  <2> SUFFICES ASSUME Init PROVE IInv
    OBVIOUS
  <2>1. \A p \in Pause : sent[p] = 0
    BY DEF Init
  <2>2. Apart
    BY <2>1 DEF Init, Apart
  <2> QED  BY <2>2, InitTypes DEF Init, IInv, OneWriter, EscalatedIsQueued
<1>2. IInv /\ [Next]_vars => IInv'
  BY StepTypes, StepOneWriter, QueuedInductive, ApartInductive DEF IInv
<1> QED  BY <1>1, <1>2, PTL DEF Spec

\* A worker holds rows only in the writing part of a pass, and every variable
\* keeps its type (run_timeout_scheduler, _process_timeouts).
THEOREM TypeCorrect == Spec => []TypeOK
PROOF
<1>1. IInv => TypeOK
  BY DEF IInv, Types
<1> QED  BY <1>1, InvariantHolds, PTL

\* The status and the row in support_queue come together or not at all
\* (escalate_to_support).
THEOREM HandOverIsWhole == Spec => []EscalatedIsQueued
PROOF
<1>1. IInv => EscalatedIsQueued
  BY DEF IInv
<1> QED  BY <1>1, InvariantHolds, PTL

\* A review is not handed over while an approval, or the end of a rejection, holds
\* its row, nor once it is decided (process_approve and customer_support_node
\* against escalate_to_support).
THEOREM DecidedIsNotHandedOver == Spec => AnsweredStays
PROOF
<1> DEFINE Stays == \A p \in Pause :
                      HandedOver(p) => p \notin deciding /\ status[p] # "decided"
<1>1. IInv /\ [Next]_vars => [Stays]_vars
  <2> SUFFICES ASSUME IInv, [Next]_vars, NEW p \in Pause, HandedOver(p)
               PROVE  p \notin deciding /\ status[p] # "decided"
    OBVIOUS
  <2>1. PICK w \in Worker : Commit(w) /\ p \in escaped[w]
    BY EscalatedByCommit DEF HandedOver, IInv
  <2> QED  BY <2>1 DEF IInv, OneWriter
<1> HIDE DEF Stays
<1>2. Spec => [][Stays]_vars
  BY <1>1, InvariantHolds, PTL DEF Spec
<1> QED  BY <1>2 DEF AnsweredStays, Stays

\* A customer is warned at most once about a review, unless passes overlapped or
\* one was rolled back after its messages had gone (_process_timeouts).
THEOREM WarnedOnceWhileApart == Spec => []WarnedOnceApart
PROOF
<1>1. IInv => WarnedOnceApart
  <2> SUFFICES ASSUME IInv, NEW p \in Pause, sent[p] > 1
               PROVE  crossed
    BY DEF WarnedOnceApart
  <2>1. sent[p] \in 0..2
    BY DEF IInv, Types, TypeOK
  <2> QED  BY <2>1 DEF IInv, Apart
<1> QED  BY <1>1, InvariantHolds, PTL
=============================================================================
