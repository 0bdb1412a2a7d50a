-------------------------- MODULE HitlReview_proofs -------------------------
(***************************************************************************)
(* Theorems about HitlReview, for every value of its constants.            *)
(***************************************************************************)
EXTENDS HitlReview, WellFoundedInduction, TLAPS

USE SessionOfAssumption, MaxPausesAssumption, DraftCapAssumption
-----------------------------------------------------------------------------
\* A nonempty set of naturals below a bound has a greatest element (what
\* ORDER BY paused_at DESC LIMIT 1 returns on a nonempty result).
LEMMA GreatestExists ==
  ASSUME NEW I \in SUBSET Index, I # {}
  PROVE  \E i \in I : \A j \in I : j <= i
PROOF
<1> DEFINE T == {n \in Nat : MaxPauses - n \in I}
<1>1. T # {}
  <2>1. PICK i \in I : TRUE
    OBVIOUS
  <2>2. MaxPauses - i \in Nat /\ MaxPauses - (MaxPauses - i) = i
    BY DEF Index
  <2> QED  BY <2>1, <2>2
<1>2. \E n \in T : \A k \in T : ~(<<k, n>> \in OpToRel(<, Nat))
  BY <1>1, NatLessThanWellFounded, WFMin
<1>3. PICK n \in T : \A k \in T : ~(k < n)
  BY <1>2 DEF OpToRel
<1>4. ASSUME NEW j \in I  PROVE j <= MaxPauses - n
  <2>1. j \in 1..MaxPauses /\ MaxPauses - j \in Nat /\ MaxPauses - (MaxPauses - j) = j
    BY DEF Index
  <2>2. MaxPauses - j \in T
    BY <2>1
  <2> QED  BY <1>3, <2>1, <2>2
<1> QED  BY <1>3, <1>4

LEMMA LatestType ==
  ASSUME NEW I \in SUBSET Index
  PROVE  /\ Latest(I) \in 0..MaxPauses
         /\ I # {} => Latest(I) \in I
         /\ Latest(I) # None => Latest(I) \in Index
PROOF
<1>1. CASE I = {}
  BY <1>1 DEF Latest, None
<1>2. CASE I # {}
  <2>1. Latest(I) \in I
    BY <1>2, GreatestExists DEF Latest
  <2>2. Latest(I) \in Index
    BY <2>1
  <2>3. \A i \in Index : i \in 0..MaxPauses /\ i # None
    BY DEF Index, None
  <2> QED  BY <1>2, <2>1, <2>2, <2>3
<1> QED  BY <1>1, <1>2
-----------------------------------------------------------------------------
(* Type correctness.                                                         *)

Requests == [Reviewer -> Request \cup {NoRequest}]

LEMMA HeldDraftType ==
  ASSUME TypeOK, NEW s \in Session
  PROVE  HeldDraft(s) \in 0..MaxPauses
PROOF
<1>1. cp[s].held \in 0..MaxPauses
  BY DEF TypeOK, Checkpoint
<1>2. {i \in Index : draft[<<s, i>>] = "pending"} \in SUBSET Index
  OBVIOUS
<1> QED  BY <1>1, <1>2, LatestType DEF HeldDraft

LEMMA InFlightRequest ==
  ASSUME TypeOK, NEW r \in Reviewer, req[r].pc # "idle"
  PROVE  req[r] \in Request
BY DEF TypeOK, NoRequest

LEMMA LeaveType ==
  ASSUME TypeOK, NEW r \in Reviewer, Leave(r)
  PROVE  req' \in Requests
BY DEF TypeOK, Leave, Requests

LEMMA GotoType ==
  ASSUME TypeOK, NEW r \in Reviewer, req[r] \in Request,
         NEW pc \in {"acquire", "readver", "locked", "guarded", "running", "finishing"},
         Goto(r, pc)
  PROVE  req' \in Requests
PROOF
<1>1. [req[r] EXCEPT !.pc = pc] \in Request
  BY DEF Request
<1> QED  BY <1>1 DEF TypeOK, Goto, Requests

LEMMA ResumeType ==
  ASSUME TypeOK, NEW r \in Reviewer, req[r] \in Request,
         NEW pc \in Resumed, NEW path \in {"order", "support"},
         NEW target \in 0..MaxPauses, NEW held \in 0..MaxPauses,
         Resume(r, pc, path, target, held)
  PROVE  req' \in Requests
PROOF
<1>1. [req[r] EXCEPT !.pc = pc, !.path = path,
                    !.target = target, !.held = held] \in Request
  BY DEF Request, Resumed
<1>2. req' = [req EXCEPT ![r] = [req[r] EXCEPT !.pc = pc, !.path = path,
                                   !.target = target, !.held = held]]
  BY DEF Resume, TypeOK
<1> QED  BY <1>1, <1>2 DEF TypeOK, Requests

LEMMA RunCheckpointType ==
  ASSUME TypeOK, NEW r \in Reviewer, req[r] \in Request,
         NEW path \in {"order", "support"},
         NEW target \in 0..MaxPauses, NEW held \in 0..MaxPauses,
         RunCheckpoint(r, path, target, held)
  PROVE  cp' \in [Session -> Checkpoint]
PROOF
<1>1. [at |-> "midrun", path |-> path, target |-> target, held |-> held]
        \in Checkpoint
  BY DEF Checkpoint
<1> QED  BY <1>1 DEF RunCheckpoint, TypeOK

LEMMA CommitType ==
  ASSUME TypeOK, NEW r \in Reviewer, req[r] \in Request, CommitDecision(r)
  PROVE  /\ done' \subseteq Decision
         /\ version' \in [Session -> Nat]
         /\ rowLock' \in [Session -> SUBSET Reviewer]
PROOF
<1>1. Entry(req[r]) \in Decision
  BY DEF Entry, Request, Decision
<1>2. req[r].session \in Session
  BY DEF Request
<1>3. done' \subseteq Decision
  BY <1>1 DEF TypeOK, CommitDecision
<1>4. version' \in [Session -> Nat]
  BY <1>2 DEF TypeOK, CommitDecision
<1>5. rowLock' \in [Session -> SUBSET Reviewer]
  BY <1>2 DEF TypeOK, CommitDecision, Unlock
<1> QED  BY <1>3, <1>4, <1>5

LEMMA IdleCheckpoint ==
  ASSUME NEW h \in 0..MaxPauses
  PROVE  /\ Idle \in Checkpoint /\ Turn \in Checkpoint
         /\ [Idle EXCEPT !.held = h] \in Checkpoint
         /\ Interrupted(h) \in Checkpoint /\ Interrupted(None) \in Checkpoint
PROOF
<1>1. None \in 0..MaxPauses
  BY DEF None
<1>2. Idle \in Checkpoint
  BY <1>1 DEF Idle, Checkpoint
<1>3. ASSUME NEW at \in {"interrupted", "turn", "idle"}, NEW g \in 0..MaxPauses
      PROVE  /\ [Idle EXCEPT !.at = at] \in Checkpoint
             /\ [Idle EXCEPT !.held = g] \in Checkpoint
             /\ [Idle EXCEPT !.at = at, !.held = g] \in Checkpoint
  BY <1>2 DEF Checkpoint
<1> QED  BY <1>1, <1>2, <1>3 DEF Turn, Interrupted

LEMMA OpenPauseType ==
  ASSUME TypeOK, NEW s \in Session, NEW drafts \in [Pause -> DraftStatus],
         NEW d \in DraftStatus, OpenPause(s, drafts, d)
  PROVE  /\ made' \in [Session -> 0..MaxPauses]
         /\ status' \in [Pause -> PauseStatus]
         /\ draft' \in [Pause -> DraftStatus]
         /\ made[s] + 1 \in Index
PROOF
<1>1. made[s] + 1 \in 1..MaxPauses
  BY DEF TypeOK, OpenPause
<1>2. made' \in [Session -> 0..MaxPauses]
  BY <1>1 DEF TypeOK, OpenPause
<1>3. status' \in [Pause -> PauseStatus]
  BY DEF TypeOK, OpenPause, PauseStatus
<1>4. draft' \in [Pause -> DraftStatus]
  BY DEF OpenPause
<1> QED  BY <1>1, <1>2, <1>3, <1>4 DEF Index

LEMMA SupersedingType ==
  ASSUME TypeOK, NEW s \in Session, NEW h \in 0..MaxPauses, NEW A
  PROVE  Superseding(s, h, A) \in [Pause -> DraftStatus]
BY DEF TypeOK, Superseding, DraftStatus

LEMMA OpenDraftedType ==
  ASSUME TypeOK, NEW s \in Session, NEW h \in 0..MaxPauses, NEW U, OpenDrafted(s, h, U)
  PROVE  /\ made' \in [Session -> 0..MaxPauses]
         /\ status' \in [Pause -> PauseStatus]
         /\ draft' \in [Pause -> DraftStatus]
         /\ made[s] + 1 \in Index
PROOF
<1>1. PICK A \in ReadActive(s, h, U) : OpenPause(s, Superseding(s, h, A), "pending")
  BY DEF OpenDrafted
<1>2. "pending" \in DraftStatus
  BY DEF DraftStatus
<1>3. Superseding(s, h, A) \in [Pause -> DraftStatus]
  BY SupersedingType
<1> QED  BY <1>1, <1>2, <1>3, OpenPauseType

LEMMA RestatusType ==
  ASSUME TypeOK, NEW s \in Session, NEW S, NEW t \in PauseStatus
  PROVE  Restatus(s, S, t) \in [Pause -> PauseStatus]
BY DEF TypeOK, Restatus

LEMMA CancelType ==
  ASSUME TypeOK, NEW s \in Session, Cancel(s)
  PROVE  status' \in [Pause -> PauseStatus] /\ draft' \in [Pause -> DraftStatus]
PROOF
<1>1. draft' \in [Pause -> DraftStatus]
  BY DEF Cancel, TypeOK, DraftStatus
<1>2. "cancelled" \in PauseStatus
  BY DEF PauseStatus
<1> QED  BY <1>1, <1>2, RestatusType DEF Cancel

LEMMA DrainType ==
  ASSUME TypeOK, NEW s \in Session, Drain(s)
  PROVE  msg' \in [Msg -> MsgState]
BY DEF TypeOK, Drain, MsgState

LEMMA CustomerType ==
  ASSUME TypeOK, NEW m \in Msg, Customer(m)
  PROVE  TypeOK'
PROOF
<1>s. SessionOf[m] \in Session
  OBVIOUS
<1>n. None \in 0..MaxPauses
  BY DEF None
<1>c. Turn \in Checkpoint /\ Idle \in Checkpoint /\ Interrupted(None) \in Checkpoint
  BY <1>n, IdleCheckpoint
<1>1. CASE Gateway(m)
  BY <1>1, <1>s, <1>c DEF Gateway, TypeOK, MsgState, dbVars
<1>2. CASE Enqueue(m)
  BY <1>2 DEF Enqueue, TypeOK, MsgState, dbVars
<1>3. CASE TurnAnswer(m) \/ TurnSupport(m) \/ TurnOrder(m) \/ TurnCancel(m)
  <2>1. TurnEnds(m)
    BY <1>3 DEF TurnAnswer, TurnSupport, TurnOrder, TurnCancel
  <2>2. msg' \in [Msg -> MsgState] /\ cp' \in [Session -> Checkpoint]
    BY <2>1, <1>s, <1>c DEF TurnEnds, TypeOK, MsgState
  <2>3. /\ status' \in [Pause -> PauseStatus] /\ draft' \in [Pause -> DraftStatus]
        /\ direct' \subseteq Session /\ support' \subseteq Session
    <3>1. CASE TurnCancel(m)
      BY <3>1, <1>s, CancelType DEF TurnCancel, TypeOK
    <3> QED  BY <1>3, <1>s, <3>1 DEF TurnAnswer, TurnSupport, TurnOrder, TypeOK
  <2> QED  BY <2>1, <2>2, <2>3 DEF TurnEnds, TypeOK
<1>4. CASE TurnLookup(m)
  BY <1>4, <1>s, <1>c DEF TurnLookup, TypeOK, MsgState, dbVars
<1>5. CASE TurnInsert(m)
  <2>1. OpenDrafted(SessionOf[m], None, Reviewer)
    BY <1>5 DEF TurnInsert
  <2>3. /\ made' \in [Session -> 0..MaxPauses]
        /\ status' \in [Pause -> PauseStatus]
        /\ draft' \in [Pause -> DraftStatus]
    BY <1>s, <1>n, <2>1, OpenDraftedType
  <2>4. version' \in [Session -> Nat]
    BY <1>5, <1>s DEF TurnInsert, UpsertVersion, TypeOK
  <2>5. cp' \in [Session -> Checkpoint]
    BY <1>5, <1>s, <1>c DEF TurnInsert, TypeOK
  <2>6. msg' \in [Msg -> MsgState]
    BY <1>5 DEF TurnInsert, TypeOK, MsgState
  <2> QED  BY <1>5, <2>3, <2>4, <2>5, <2>6 DEF TurnInsert, TypeOK
<1> QED  BY <1>1, <1>2, <1>3, <1>4, <1>5 DEF Customer, Turns

LEMMA ClientType ==
  ASSUME TypeOK, NEW r \in Reviewer, Client(r)
  PROVE  TypeOK'
PROOF
<1>n. None \in 0..MaxPauses
  BY DEF None
<1>1. ASSUME NEW chan \in {"rest", "telegram"}, NEW s \in Session, NEW i \in Index,
             NEW a \in Act, NEW k \in DecisionKey, NEW v \in Nat
      PROVE  NewRequest("gate", chan, s, i, a, k, v) \in Request
  BY <1>n DEF NewRequest, Request
<1>2. ASSUME NEW s \in Session, NEW i \in Index, NEW a \in Act, NEW k \in Key,
             NEW v \in 0..version[s], SubmitRest(r, s, i, a, k, v)
      PROVE  TypeOK'
  <2>1. v \in Nat /\ k \in DecisionKey
    BY DEF TypeOK, DecisionKey
  <2>2. NewRequest("gate", "rest", s, i, a, k, v) \in Request
    BY <1>1, <2>1
  <2> QED  BY <1>2, <2>2 DEF SubmitRest, TypeOK, dbVars
<1>3. ASSUME NEW s \in Session, NEW i \in Index, NEW a \in Act, TapButton(r, s, i, a)
      PROVE  TypeOK'
  <2>1. <<s, i, a>> \in DecisionKey
    BY DEF DecisionKey
  <2>2. NewRequest("gate", "telegram", s, i, a, <<s, i, a>>, 0) \in Request
    BY <1>1, <2>1
  <2> QED  BY <1>3, <2>2 DEF TapButton, TypeOK, dbVars
<1> QED  BY <1>2, <1>3 DEF Client

LEMMA TransactionType ==
  ASSUME TypeOK, NEW r \in Reviewer, Transaction(r)
  PROVE  TypeOK'
PROOF
<1> DEFINE q == req[r]
<1> DEFINE s == q.session
<1>q. ASSUME q.pc # "idle"
      PROVE  /\ q \in Request /\ s \in Session /\ q.idx \in Index
             /\ <<s, q.idx>> \in Pause
  BY <1>q, InFlightRequest DEF Request, Pause
<1>1. CASE Gate(r)
  <2>1. q \in Request
    BY <1>1, <1>q DEF Gate
  <2>2. req' \in Requests
    BY <1>1, <2>1, LeaveType, GotoType DEF Gate
  <2> QED  BY <1>1, <2>2 DEF Gate, TypeOK, dbVars, Requests
<1>2. CASE ReadVersion(r)
  <2>1. q \in Request /\ version[s] \in Nat
    BY <1>2, <1>q DEF ReadVersion, TypeOK
  <2>2. [q EXCEPT !.pc = "acquire", !.ver = version[s]] \in Request
    BY <2>1 DEF Request
  <2>3. req' = [req EXCEPT ![r] = [q EXCEPT !.pc = "acquire", !.ver = version[s]]]
    BY <1>2 DEF ReadVersion, TypeOK
  <2> QED  BY <1>2, <2>2, <2>3 DEF ReadVersion, TypeOK, dbVars
<1>3. CASE TurnedAway(r)
  <2>1. req' \in Requests
    BY <1>3, LeaveType DEF TurnedAway
  <2> QED  BY <1>3, <2>1 DEF TurnedAway, TypeOK, dbVars, Requests
<1>4. CASE TakeLock(r)
  <2>1. q \in Request /\ s \in Session
    BY <1>4, <1>q DEF TakeLock
  <2>2. req' \in Requests
    BY <1>4, <2>1, GotoType DEF TakeLock
  <2>3. rowLock' \in [Session -> SUBSET Reviewer]
    BY <1>4, <2>1 DEF TakeLock, TypeOK
  <2> QED  BY <1>4, <2>2, <2>3 DEF TakeLock, TypeOK, Requests
<1>5. CASE Rollback(r)
  <2>1. s \in Session
    BY <1>5, <1>q DEF Rollback
  <2>2. req' \in Requests
    BY <1>5, LeaveType DEF Rollback
  <2>3. rowLock' \in [Session -> SUBSET Reviewer]
    BY <1>5, <2>1 DEF Rollback, Unlock, TypeOK
  <2> QED  BY <1>5, <2>2, <2>3 DEF Rollback, TypeOK, Requests
<1>o. ASSUME NEW z \in Session, NEW S  PROVE PausesIn(z, S) \in SUBSET Index
  BY DEF PausesIn
<1>z. None \in 0..MaxPauses
  BY DEF None
<1>6. CASE ResumeApprove(r)
  <2> DEFINE p == Latest(PausesIn(s, Open) \cup {q.idx})
  <2>1. q \in Request /\ s \in Session /\ q.idx \in Index
    BY <1>6, <1>q DEF ResumeApprove, Reruns
  <2>2. p \in 0..MaxPauses
    <3>1. PausesIn(s, Open) \cup {q.idx} \in SUBSET Index
      BY <1>o, <2>1
    <3> QED  BY <3>1, LatestType
  <2>3. HeldDraft(s) \in 0..MaxPauses
    BY <2>1, HeldDraftType
  <2>4. Resume(r, "guarded", "order", p, HeldDraft(s)) /\ CommitDecision(r)
    BY <1>6 DEF ResumeApprove
  <2>5. req' \in Requests
    <3>1. "guarded" \in Resumed
      BY DEF Resumed
    <3> QED  BY <2>1, <2>2, <2>3, <2>4, <3>1, ResumeType
  <2>6. /\ done' \subseteq Decision
        /\ version' \in [Session -> Nat]
        /\ rowLock' \in [Session -> SUBSET Reviewer]
    BY <2>1, <2>4, CommitType
  <2>7. status' \in [Pause -> PauseStatus]
    BY <1>6 DEF ResumeApprove, TypeOK, PauseStatus
  <2> QED  BY <1>6, <2>5, <2>6, <2>7 DEF ResumeApprove, TypeOK, Requests
<1>7. CASE ResumeReject(r)
  <2> DEFINE p == Latest(PausesIn(s, Open))
  <2>1. q \in Request /\ s \in Session
    BY <1>7, <1>q DEF ResumeReject, Reruns
  <2>2. p \in 0..MaxPauses
    BY <1>o, <2>1, LatestType
  <2>3. HeldDraft(s) \in 0..MaxPauses
    BY <2>1, HeldDraftType
  <2>4. Resume(r, "guarded", "support", p, HeldDraft(s)) /\ CommitDecision(r)
    BY <1>7 DEF ResumeReject
  <2>5. req' \in Requests
    <3>1. "guarded" \in Resumed
      BY DEF Resumed
    <3> QED  BY <2>1, <2>2, <2>3, <2>4, <3>1, ResumeType
  <2>6. /\ done' \subseteq Decision
        /\ version' \in [Session -> Nat]
        /\ rowLock' \in [Session -> SUBSET Reviewer]
    BY <2>1, <2>4, CommitType
  <2>7. draft' \in [Pause -> DraftStatus]
    BY <1>7 DEF ResumeReject, TypeOK, DraftStatus
  <2> QED  BY <1>7, <2>5, <2>6, <2>7 DEF ResumeReject, TypeOK, Requests
<1>8. CASE ResumeRejectFresh(r)
  <2>1. q \in Request /\ s \in Session /\ cp[s].held \in 0..MaxPauses
    BY <1>8, <1>q DEF ResumeRejectFresh, Reruns, TypeOK, Checkpoint
  <2>4. /\ made' \in [Session -> 0..MaxPauses]
        /\ status' \in [Pause -> PauseStatus]
        /\ draft' \in [Pause -> DraftStatus]
        /\ made[s] + 1 \in 0..MaxPauses
    <3>1. OpenDrafted(s, cp[s].held, Reviewer \ {r})
      BY <1>8 DEF ResumeRejectFresh
    <3>2. \A i \in Index : i \in 0..MaxPauses
      BY DEF Index
    <3> QED  BY <2>1, <3>1, <3>2, OpenDraftedType
  <2>5. Resume(r, "fresh", "support", made[s] + 1, made[s] + 1) /\ CommitDecision(r)
    BY <1>8 DEF ResumeRejectFresh
  <2>6. req' \in Requests
    <3>1. "fresh" \in Resumed
      BY DEF Resumed
    <3> QED  BY <2>1, <2>4, <2>5, <3>1, ResumeType
  <2>7. /\ done' \subseteq Decision
        /\ version' \in [Session -> Nat]
        /\ rowLock' \in [Session -> SUBSET Reviewer]
    BY <2>1, <2>5, CommitType
  <2> QED  BY <1>8, <2>4, <2>6, <2>7 DEF ResumeRejectFresh, TypeOK, Requests
<1>9. ASSUME q \in Request, NEW path \in {"order", "support"},
             NEW target \in 0..MaxPauses, NEW held \in 0..MaxPauses,
             Resume(r, "joined", path, target, held), UNCHANGED <<dbVars, msg>>,
             cp' = cp \/ RunCheckpoint(r, path, target, held)
      PROVE  TypeOK'
  <2>1. req' \in Requests
    <3>1. "joined" \in Resumed
      BY DEF Resumed
    <3> QED  BY <1>9, <3>1, ResumeType
  <2>2. cp' \in [Session -> Checkpoint]
    BY <1>9, RunCheckpointType DEF TypeOK
  <2> QED  BY <1>9, <2>1, <2>2 DEF TypeOK, dbVars, Requests
<1>12. CASE ResumeRejectNoDraft(r)
  <2>1. q \in Request /\ s \in Session
    BY <1>12, <1>q DEF ResumeRejectNoDraft, Reruns
  <2>2. Latest(PausesIn(s, Open)) \in 0..MaxPauses
    BY <1>o, <2>1, LatestType
  <2> QED  BY <1>9, <1>12, <1>z, <2>1, <2>2 DEF ResumeRejectNoDraft
<1>13. ASSUME NEW path \in {"order", "support"}, ResumeUnread(r, path)  PROVE TypeOK'
  <2>1. q \in Request /\ s \in Session /\ cp[s].held \in 0..MaxPauses
    BY <1>13, <1>q DEF ResumeUnread, Reruns, TypeOK, Checkpoint
  <2> QED  BY <1>9, <1>13, <1>z, <2>1 DEF ResumeUnread
<1>14. CASE JoinRun(r)
  <2>1. q \in Request /\ s \in Session /\ cp[s] \in Checkpoint
    BY <1>14, <1>q DEF JoinRun, TypeOK
  <2>2. /\ cp[s].path \in {"order", "support"}
        /\ cp[s].target \in 0..MaxPauses /\ cp[s].held \in 0..MaxPauses
    BY <2>1 DEF Checkpoint
  <2> QED  BY <1>9, <1>14, <2>1, <2>2 DEF JoinRun, dbVars
<1>10. CASE DecideWithoutRun(r)
  <2>1. q \in Request
    BY <1>10, <1>q DEF DecideWithoutRun
  <2>2. CommitDecision(r) /\ Leave(r)
    BY <1>10 DEF DecideWithoutRun
  <2>3. /\ done' \subseteq Decision
        /\ version' \in [Session -> Nat]
        /\ rowLock' \in [Session -> SUBSET Reviewer]
    BY <2>1, <2>2, CommitType
  <2>4. req' \in Requests
    BY <2>2, LeaveType
  <2>5. status' \in [Pause -> PauseStatus]
    BY <1>10 DEF DecideWithoutRun, TypeOK, PauseStatus, Verdict
  <2> QED  BY <1>10, <2>3, <2>4, <2>5 DEF DecideWithoutRun, TypeOK, Requests
<1>11. CASE ApplyEdit(r)
  <2>1. q \in Request /\ s \in Session /\ cp[s].held \in 0..MaxPauses
    BY <1>11, <1>q DEF ApplyEdit, TypeOK, Checkpoint
  <2>2. CommitDecision(r) /\ Leave(r)
    BY <1>11 DEF ApplyEdit
  <2>3. /\ done' \subseteq Decision
        /\ version' \in [Session -> Nat]
        /\ rowLock' \in [Session -> SUBSET Reviewer]
    BY <2>1, <2>2, CommitType
  <2>4. req' \in Requests
    BY <2>2, LeaveType
  <2>5. cp' \in [Session -> Checkpoint]
    BY <1>11, <2>1, IdleCheckpoint DEF ApplyEdit, TypeOK
  <2> QED  BY <1>11, <2>3, <2>4, <2>5 DEF ApplyEdit, TypeOK, Requests
<1> QED
  BY <1>1, <1>2, <1>3, <1>4, <1>5, <1>6, <1>7, <1>8, <1>10, <1>11, <1>12, <1>13, <1>14
  DEF Transaction

\* What the end of a run does to the checkpoint, the request and the queue.
LEMMA RunEndType ==
  ASSUME TypeOK, NEW r \in Reviewer, req[r] \in Request,
         NEW c \in Checkpoint, LastCheckpoint(r, c), Goto(r, "finishing")
  PROVE  req' \in Requests /\ cp' \in [Session -> Checkpoint]
PROOF
<1>1. req' \in Requests
  BY GotoType
<1>2. req[r].session \in Session
  BY DEF Request
<1>3. cp' \in [Session -> Checkpoint]
  BY <1>2 DEF LastCheckpoint, TypeOK
<1> QED  BY <1>1, <1>3

LEMMA ResumedRunType ==
  ASSUME TypeOK, NEW r \in Reviewer, ResumedRun(r)
  PROVE  TypeOK'
PROOF
<1> DEFINE q == req[r]
<1> DEFINE s == q.session
<1>q. /\ q \in Request /\ s \in Session /\ q.held \in 0..MaxPauses
      /\ [Idle EXCEPT !.held = q.held] \in Checkpoint
  <2>1. q.pc # "idle"
    BY DEF ResumedRun, RejectFresh, GuardCheckpoint, FirstCommit, LoseDecision,
           RunExecute, RunInsertOrder, RunNoOrder, RunCancel,
           RunRepause, RunReuse, RunSupport, RunMaxed, Finish, Abort, OnPath, Resumed
  <2>2. q \in Request
    BY <2>1, InFlightRequest
  <2> QED  BY <2>2, IdleCheckpoint DEF Request
<1>z. None \in 0..MaxPauses
  BY DEF None
<1>n. Idle \in Checkpoint
  BY <1>z, IdleCheckpoint
<1>1. CASE RunExecute(r)
  <2>1. msg' \in [Msg -> MsgState]
    BY <1>1, <1>q, DrainType DEF RunExecute
  <2>2. req' \in Requests /\ cp' \in [Session -> Checkpoint]
    BY <1>1, <1>q, RunEndType DEF RunExecute
  <2>3. draft' \in [Pause -> DraftStatus]
    BY <1>1 DEF RunExecute, TypeOK, DraftStatus
  <2> QED  BY <1>1, <2>1, <2>2, <2>3 DEF RunExecute, TypeOK, Requests
<1>2. CASE RunInsertOrder(r)
  <2>1. msg' \in [Msg -> MsgState]
    BY <1>2, <1>q, DrainType DEF RunInsertOrder
  <2>2. req' \in Requests /\ cp' \in [Session -> Checkpoint]
    BY <1>2, <1>q, <1>n, RunEndType DEF RunInsertOrder
  <2>3. direct' \subseteq Session
    BY <1>2, <1>q DEF RunInsertOrder, TypeOK
  <2> QED  BY <1>2, <2>1, <2>2, <2>3 DEF RunInsertOrder, TypeOK, Requests
<1>3. CASE RunNoOrder(r)
  <2>1. msg' \in [Msg -> MsgState]
    BY <1>3, <1>q, DrainType DEF RunNoOrder
  <2>2. req' \in Requests /\ cp' \in [Session -> Checkpoint]
    BY <1>3, <1>q, RunEndType DEF RunNoOrder
  <2> QED  BY <1>3, <2>1, <2>2 DEF RunNoOrder, TypeOK, Requests, dbVars
<1>4. CASE RunCancel(r)
  <2>1. msg' \in [Msg -> MsgState]
    BY <1>4, <1>q, DrainType DEF RunCancel
  <2>2. req' \in Requests /\ cp' \in [Session -> Checkpoint]
    BY <1>4, <1>q, RunEndType DEF RunCancel
  <2>3. draft' \in [Pause -> DraftStatus] /\ status' \in [Pause -> PauseStatus]
    BY <1>4, <1>q, CancelType DEF RunCancel
  <2> QED  BY <1>4, <2>1, <2>2, <2>3 DEF RunCancel, TypeOK, Requests
<1>5. ASSUME NEW keep \in BOOLEAN, RunRepause(r, keep)  PROVE TypeOK'
  <2> DEFINE h == IF keep THEN q.held ELSE None
  <2>1. h \in 0..MaxPauses
    BY <1>q, <1>z
  <2>2. msg' \in [Msg -> MsgState]
    BY <1>5, <1>q, DrainType DEF RunRepause
  <2>3. Interrupted(h) \in Checkpoint
    BY <2>1, IdleCheckpoint
  <2>4. req' \in Requests /\ cp' \in [Session -> Checkpoint]
    BY <1>5, <1>q, <2>3, RunEndType DEF RunRepause
  <2>6. OpenDrafted(s, h, Reviewer \ {r})
    BY <1>5 DEF RunRepause
  <2>7. /\ made' \in [Session -> 0..MaxPauses]
        /\ status' \in [Pause -> PauseStatus]
        /\ draft' \in [Pause -> DraftStatus]
    BY <1>q, <2>1, <2>6, OpenDraftedType
  <2>8. version' \in [Session -> Nat]
    BY <1>5, <1>q DEF RunRepause, UpsertVersion, TypeOK
  <2> QED  BY <1>5, <2>2, <2>4, <2>7, <2>8 DEF RunRepause, TypeOK, Requests
<1>6. ASSUME NEW keep \in BOOLEAN, RunReuse(r, keep)  PROVE TypeOK'
  <2>1. (IF keep THEN q.held ELSE None) \in 0..MaxPauses
    BY <1>q, <1>z
  <2>2. msg' \in [Msg -> MsgState]
    BY <1>6, <1>q, DrainType DEF RunReuse
  <2>3. Interrupted(IF keep THEN q.held ELSE None) \in Checkpoint
    BY <2>1, IdleCheckpoint
  <2>4. req' \in Requests /\ cp' \in [Session -> Checkpoint]
    BY <1>6, <1>q, <2>3, RunEndType DEF RunReuse
  <2> QED  BY <1>6, <2>2, <2>4 DEF RunReuse, TypeOK, Requests, dbVars
<1>7. CASE RunSupport(r)
  <2>1. msg' \in [Msg -> MsgState]
    BY <1>7, <1>q, DrainType DEF RunSupport, TypeOK
  <2>2. req' \in Requests /\ cp' \in [Session -> Checkpoint]
    BY <1>7, <1>q, RunEndType DEF RunSupport
  <2>3. status' \in [Pause -> PauseStatus]
    BY <1>7 DEF RunSupport, TypeOK, PauseStatus
  <2>4. support' \subseteq Session
    BY <1>7, <1>q DEF RunSupport, TypeOK
  <2> QED  BY <1>7, <2>1, <2>2, <2>3, <2>4 DEF RunSupport, TypeOK, Requests
<1>8. CASE RunMaxed(r)
  <2>1. msg' \in [Msg -> MsgState]
    BY <1>8, <1>q, DrainType DEF RunMaxed
  <2>2. req' \in Requests /\ cp' \in [Session -> Checkpoint]
    BY <1>8, <1>q, RunEndType DEF RunMaxed
  <2>3. support' \subseteq Session
    BY <1>8, <1>q DEF RunMaxed, TypeOK
  <2> QED  BY <1>8, <2>1, <2>2, <2>3 DEF RunMaxed, TypeOK, Requests
<1>9. CASE Finish(r)
  <2>1. req' \in Requests
    BY <1>9, LeaveType DEF Finish
  <2>2. status' \in [Pause -> PauseStatus]
    BY <1>9 DEF Finish, TypeOK, PauseStatus, Verdict
  <2> QED  BY <1>9, <2>1, <2>2 DEF Finish, TypeOK, Requests
<1>10. CASE Abort(r)
  <2>1. req' \in Requests
    BY <1>10, LeaveType DEF Abort
  <2>2. rowLock' \in [Session -> SUBSET Reviewer]
    BY <1>10, <1>q DEF Abort, Unlock, TypeOK
  <2> QED  BY <1>10, <2>1, <2>2 DEF Abort, TypeOK, Requests
<1>11. CASE RejectFresh(r)
  <2>1. req' \in Requests
    BY <1>11, <1>q, GotoType DEF RejectFresh
  <2>2. draft' \in [Pause -> DraftStatus]
    BY <1>11 DEF RejectFresh, TypeOK, DraftStatus
  <2> QED  BY <1>11, <2>1, <2>2 DEF RejectFresh, TypeOK, Requests
<1>12. CASE GuardCheckpoint(r)
  <2>1. req' \in Requests
    BY <1>12, <1>q, GotoType DEF GuardCheckpoint
  <2>2. q.path \in {"order", "support"} /\ q.target \in 0..MaxPauses
    BY <1>q DEF Request
  <2>3. cp' \in [Session -> Checkpoint]
    BY <1>12, <1>q, <2>2, RunCheckpointType DEF GuardCheckpoint
  <2> QED  BY <1>12, <2>1, <2>3 DEF GuardCheckpoint, TypeOK, Requests, dbVars
<1>13. CASE FirstCommit(r)
  <2>1. req' \in Requests
    BY <1>13, <1>q, GotoType DEF FirstCommit
  <2>2. /\ done' \subseteq Decision
        /\ version' \in [Session -> Nat]
        /\ rowLock' \in [Session -> SUBSET Reviewer]
    BY <1>13, <1>q, CommitType DEF FirstCommit
  <2>3. status' \in [Pause -> PauseStatus]
    BY <1>13 DEF FirstCommit, TypeOK, PauseStatus
  <2> QED  BY <1>13, <2>1, <2>2, <2>3 DEF FirstCommit, TypeOK, Requests
<1>14. CASE LoseDecision(r)
  <2>1. q.target \in 0..MaxPauses
    BY <1>q DEF Request
  <2>2. req' \in Requests
    <3>1. "running" \in Resumed
      BY DEF Resumed
    <3> QED  BY <1>14, <1>q, <2>1, <3>1, ResumeType DEF LoseDecision
  <2>3. cp' \in [Session -> Checkpoint]
    BY <1>14, <1>q, <2>1, RunCheckpointType DEF LoseDecision
  <2>4. rowLock' \in [Session -> SUBSET Reviewer]
    BY <1>14, <1>q DEF LoseDecision, Unlock, TypeOK
  <2> QED  BY <1>14, <2>2, <2>3, <2>4 DEF LoseDecision, TypeOK, Requests
<1> QED
  BY <1>1, <1>2, <1>3, <1>4, <1>5, <1>6, <1>7, <1>8, <1>9, <1>10, <1>11, <1>12, <1>13, <1>14
  DEF ResumedRun

LEMMA EscalateType ==
  ASSUME TypeOK, NEW s \in Session, Escalate(s)
  PROVE  TypeOK'
PROOF
<1>1. status' \in [Pause -> PauseStatus]
  <2>1. "escalated" \in PauseStatus
    BY DEF PauseStatus
  <2> QED  BY <2>1, RestatusType DEF Escalate
<1>2. support' \subseteq Session
  BY DEF Escalate, TypeOK
<1> QED  BY <1>1, <1>2 DEF Escalate, TypeOK

LEMMA InitType == Init => TypeOK
PROOF
<1> SUFFICES ASSUME Init PROVE TypeOK
  OBVIOUS
<1>2. None \in 0..MaxPauses /\ 0 \in 0..MaxPauses
  BY DEF None
<1>1. Idle \in Checkpoint
  BY <1>2, IdleCheckpoint
<1> QED
  BY <1>1, <1>2 DEF Init, TypeOK, PauseStatus, DraftStatus, MsgState

\* The types are an invariant: no transaction, run or scheduler pass leaves a
\* status, a draft or a checkpoint outside what the rest of the code expects.
THEOREM TypeCorrect == Spec => []TypeOK
PROOF
<1>1. TypeOK /\ [Next]_vars => TypeOK'
  <2> SUFFICES ASSUME TypeOK, [Next]_vars PROVE TypeOK'
    OBVIOUS
  <2>1. CASE UNCHANGED vars
    BY <2>1 DEF vars, TypeOK
  <2>2. ASSUME NEW m \in Msg, Customer(m)  PROVE TypeOK'
    BY <2>2, CustomerType
  <2>3. ASSUME NEW r \in Reviewer, Client(r) \/ Transaction(r) \/ ResumedRun(r)
        PROVE  TypeOK'
    BY <2>3, ClientType, TransactionType, ResumedRunType
  <2>4. ASSUME NEW s \in Session, Escalate(s)  PROVE TypeOK'
    BY <2>4, EscalateType
  <2> QED  BY <2>1, <2>2, <2>3, <2>4 DEF Next
<1> QED  BY InitType, <1>1, PTL DEF Spec
-----------------------------------------------------------------------------
(* The optimistic lock.  Between its UPDATE and its commit a request holds   *)
(* the version row, and the row still has the version the request expected.  *)

Holds == {"locked", "joined"}
LockInv ==
  \A r \in Reviewer :
    req[r].pc \in Holds =>
      /\ rowLock[req[r].session] = {r}
      /\ req[r].ver = version[req[r].session]

\* No other request takes the row, and the one that has it keeps its payload.
KeepsHold(x) ==
  req'[x].pc \in Holds =>
    /\ req[x].pc \in Holds
    /\ req'[x].session = req[x].session /\ req'[x].ver = req[x].ver

\* What every step but TakeLock, a roll-back and a commit leaves alone.
LockFrame ==
  /\ rowLock' = rowLock /\ version' = version
  /\ \A x \in Reviewer : KeepsHold(x)

\* Request r is done with the row.
LetsGo(r) ==
  /\ req[r].pc \in Holds
  /\ \A x \in Reviewer : req'[x].pc \in Holds => x # r /\ req'[x] = req[x]
Release(r) ==
  /\ LetsGo(r) /\ Unlock(req[r].session)
  /\ version' = version /\ done' = done
CommitStep(r) == LetsGo(r) /\ CommitDecision(r)

LEMMA FrameKeepsLock == LockInv /\ LockFrame => LockInv'
BY DEF LockInv, LockFrame, KeepsHold

\* The ways a request moves on without the row.
LEMMA MovesOn ==
  ASSUME TypeOK, NEW r \in Reviewer,
         \/ Leave(r)
         \/ \E pc \in {"acquire", "readver", "guarded", "running", "finishing"} :
              Goto(r, pc) /\ req[r].pc # "idle"
         \/ \E pc \in {"fresh", "guarded", "running"} : \E path, target, held :
              Resume(r, pc, path, target, held) /\ req[r].pc # "idle"
  PROVE  \A x \in Reviewer : req'[x].pc \in Holds => x # r /\ req'[x] = req[x]
PROOF
<1>1. \A x \in Reviewer : x # r => req'[x] = req[x]
  BY DEF Leave, Goto, Resume, TypeOK
<1>2. CASE Leave(r)
  <2>1. req'[r].pc = "idle"
    BY <1>2 DEF Leave, TypeOK, NoRequest
  <2> QED  BY <1>1, <2>1 DEF Holds
<1>3. ASSUME NEW pc \in {"acquire", "readver", "guarded", "running", "finishing"},
             Goto(r, pc), req[r].pc # "idle"
      PROVE  req'[r].pc = pc
  <2>1. req[r] \in Request
    BY <1>3, InFlightRequest
  <2> QED  BY <1>3, <2>1 DEF Goto, TypeOK, Request
<1>4. ASSUME NEW pc \in {"fresh", "guarded", "running"}, NEW path, NEW target, NEW held,
             Resume(r, pc, path, target, held), req[r].pc # "idle"
      PROVE  req'[r].pc = pc
  <2>1. req[r] \in Request
    BY <1>4, InFlightRequest
  <2> QED  BY <1>4, <2>1 DEF Resume, TypeOK, Request
<1> QED  BY <1>1, <1>2, <1>3, <1>4 DEF Holds

LEMMA UpsertKeepsVersion ==
  ASSUME TypeOK, NEW s \in Session,
         version' = [version EXCEPT ![s] = UpsertVersion(s, @)]
  PROVE  version' = version
BY DEF TypeOK, UpsertVersion

LEMMA CustomerFrame ==
  ASSUME TypeOK, NEW m \in Msg, Customer(m)
  PROVE  LockFrame /\ done' = done
PROOF
<1>1. req' = req /\ rowLock' = rowLock /\ done' = done
  BY DEF Customer, Turns, Gateway, Enqueue, TurnEnds, TurnAnswer, TurnSupport, TurnOrder,
         TurnCancel, TurnLookup, TurnInsert, dbVars
<1>2. version' = version
  <2>1. CASE TurnInsert(m)
    BY <2>1, UpsertKeepsVersion DEF TurnInsert
  <2> QED  BY <2>1 DEF Customer, Turns, Gateway, Enqueue, TurnEnds, TurnAnswer, TurnSupport,
                       TurnOrder, TurnCancel, TurnLookup, dbVars
<1> QED  BY <1>1, <1>2 DEF LockFrame, KeepsHold

LEMMA ClientFrame ==
  ASSUME TypeOK, NEW r \in Reviewer, Client(r)
  PROVE  LockFrame /\ done' = done
PROOF
<1>1. rowLock' = rowLock /\ version' = version /\ done' = done
  BY DEF Client, SubmitRest, TapButton, dbVars
<1>2. \A x \in Reviewer : x # r => req'[x] = req[x]
  BY DEF Client, SubmitRest, TapButton, TypeOK
<1>3. req'[r].pc = "gate"
  BY DEF Client, SubmitRest, TapButton, TypeOK, NewRequest
<1> QED  BY <1>1, <1>2, <1>3 DEF LockFrame, KeepsHold, Holds

LEMMA ResumedRunFrame ==
  ASSUME TypeOK, NEW r \in Reviewer, ResumedRun(r)
  PROVE  (LockFrame /\ done' = done) \/ Release(r) \/ CommitStep(r)
PROOF
<1>1. CASE FirstCommit(r)
  <2>1. LetsGo(r)
    BY <1>1, MovesOn DEF FirstCommit, LetsGo, Holds
  <2> QED  BY <1>1, <2>1 DEF FirstCommit, CommitStep
<1>2. CASE LoseDecision(r)
  <2>1. LetsGo(r)
    BY <1>2, MovesOn DEF LoseDecision, LetsGo, Holds
  <2> QED  BY <1>2, <2>1 DEF LoseDecision, Release
<1>3. CASE Abort(r)
  <2>1. \A x \in Reviewer : req'[x].pc \in Holds => x # r /\ req'[x] = req[x]
    BY <1>3, MovesOn DEF Abort
  <2>2. CASE req[r].pc = "joined"
    BY <1>3, <2>1, <2>2 DEF Abort, Release, LetsGo, Holds
  <2>3. CASE req[r].pc # "joined"
    BY <1>3, <2>1, <2>3 DEF Abort, LockFrame, KeepsHold
  <2> QED  BY <2>2, <2>3
<1>4. CASE \/ RejectFresh(r) \/ GuardCheckpoint(r) \/ RunExecute(r) \/ RunInsertOrder(r)
           \/ RunNoOrder(r) \/ RunCancel(r) \/ RunSupport(r) \/ RunMaxed(r) \/ Finish(r)
           \/ \E keep \in BOOLEAN : RunRepause(r, keep) \/ RunReuse(r, keep)
  <2>1. Leave(r) \/ Goto(r, "guarded") \/ Goto(r, "running") \/ Goto(r, "finishing")
    BY <1>4 DEF RejectFresh, GuardCheckpoint, RunExecute, RunInsertOrder, RunNoOrder,
                RunCancel, RunRepause, RunReuse, RunSupport, RunMaxed, Finish
  <2>2. req[r].pc # "idle"
    BY <1>4 DEF RejectFresh, GuardCheckpoint, RunExecute, RunInsertOrder, RunNoOrder,
                RunCancel, RunRepause, RunReuse, RunSupport, RunMaxed, Finish, OnPath
  <2>3. \A x \in Reviewer : KeepsHold(x)
    BY <2>1, <2>2, MovesOn DEF KeepsHold
  <2>4. rowLock' = rowLock /\ done' = done
    BY <1>4 DEF RejectFresh, GuardCheckpoint, RunExecute, RunInsertOrder, RunNoOrder,
                RunCancel, RunRepause, RunReuse, RunSupport, RunMaxed, Finish, dbVars
  <2>5. version' = version
    <3>1. ASSUME NEW keep \in BOOLEAN, RunRepause(r, keep)  PROVE version' = version
      <4>1. req[r].session \in Session
        BY <3>1, InFlightRequest DEF RunRepause, OnPath, Request
      <4> QED  BY <3>1, <4>1, UpsertKeepsVersion DEF RunRepause
    <3> QED  BY <1>4, <3>1 DEF RejectFresh, GuardCheckpoint, RunExecute, RunInsertOrder,
                RunNoOrder, RunCancel, RunReuse, RunSupport, RunMaxed, Finish, dbVars
  <2> QED  BY <2>3, <2>4, <2>5 DEF LockFrame
<1> QED  BY <1>1, <1>2, <1>3, <1>4 DEF ResumedRun

LEMMA TransactionFrame ==
  ASSUME TypeOK, NEW r \in Reviewer, Transaction(r)
  PROVE  (LockFrame /\ done' = done) \/ TakeLock(r) \/ Release(r) \/ CommitStep(r)
PROOF
<1>1. CASE Gate(r) \/ TurnedAway(r)
  <2>1. rowLock' = rowLock /\ version' = version /\ done' = done
    BY <1>1 DEF Gate, TurnedAway, dbVars
  <2>2. Leave(r) \/ (req[r].pc # "idle" /\ \E pc \in {"acquire", "readver"} : Goto(r, pc))
    BY <1>1 DEF Gate, TurnedAway
  <2> QED  BY <2>1, <2>2, MovesOn DEF LockFrame, KeepsHold
<1>2. CASE ReadVersion(r)
  <2>1. rowLock' = rowLock /\ version' = version /\ done' = done
    BY <1>2 DEF ReadVersion, dbVars
  <2>2. req[r] \in Request
    BY <1>2, InFlightRequest DEF ReadVersion
  <2>3. req'[r].pc = "acquire"
    BY <1>2, <2>2 DEF ReadVersion, TypeOK, Request
  <2>4. \A x \in Reviewer : x # r => req'[x] = req[x]
    BY <1>2 DEF ReadVersion, TypeOK
  <2> QED  BY <2>1, <2>3, <2>4 DEF LockFrame, KeepsHold, Holds
<1>3. CASE Rollback(r)
  BY <1>3, MovesOn DEF Rollback, Release, LetsGo, Holds
<1>4. CASE \/ ResumeApprove(r) \/ ResumeReject(r) \/ ResumeRejectFresh(r)
           \/ DecideWithoutRun(r) \/ ApplyEdit(r)
  <2>1. req[r].pc = "locked" /\ CommitDecision(r)
    BY <1>4 DEF ResumeApprove, ResumeReject, ResumeRejectFresh, Reruns,
                DecideWithoutRun, ApplyEdit
  <2>2. Leave(r) \/ \E pc \in {"fresh", "guarded"} : \E path, target, held :
                       Resume(r, pc, path, target, held)
    BY <1>4, Zenon DEF ResumeApprove, ResumeReject, ResumeRejectFresh,
                DecideWithoutRun, ApplyEdit
  <2> QED  BY <2>1, <2>2, MovesOn DEF CommitStep, LetsGo, Holds
<1>5. CASE \/ ResumeRejectNoDraft(r) \/ JoinRun(r)
           \/ \E path \in {"order", "support"} : ResumeUnread(r, path)
  <2>1. rowLock' = rowLock /\ version' = version /\ done' = done /\ req[r].pc = "locked"
    BY <1>5 DEF ResumeRejectNoDraft, JoinRun, ResumeUnread, Reruns, dbVars
  <2>2. \E path, target, held : Resume(r, "joined", path, target, held)
    BY <1>5, Zenon DEF ResumeRejectNoDraft, JoinRun, ResumeUnread
  <2>3. req'[r].session = req[r].session /\ req'[r].ver = req[r].ver
    <3>1. req[r] \in Request
      BY <2>1, InFlightRequest
    <3> QED  BY <2>2, <3>1 DEF Resume, TypeOK, Request
  <2>4. \A x \in Reviewer : x # r => req'[x] = req[x]
    BY <2>2 DEF Resume, TypeOK
  <2> QED  BY <2>1, <2>3, <2>4 DEF LockFrame, KeepsHold, Holds
<1> QED  BY <1>1, <1>2, <1>3, <1>4, <1>5 DEF Transaction

LEMMA TakeLockKeeps ==
  ASSUME TypeOK, LockInv, NEW r \in Reviewer, TakeLock(r)
  PROVE  LockInv'
PROOF
<1> DEFINE s == req[r].session
<1>1. req[r] \in Request /\ s \in Session
  BY InFlightRequest DEF TakeLock, Request
<1>2. \A x \in Reviewer : x # r => req'[x] = req[x]
  BY DEF TakeLock, Goto, TypeOK
<1>3. req'[r].session = s /\ req'[r].ver = version[s]
  BY <1>1 DEF TakeLock, Goto, TypeOK, Request
<1>4. rowLock'[s] = {r} /\ \A z \in Session : z # s => rowLock'[z] = rowLock[z]
  BY <1>1 DEF TakeLock, TypeOK
<1>5. version' = version /\ rowLock[s] = {}
  BY DEF TakeLock, Unlocked
<1>6. ASSUME NEW x \in Reviewer, x # r, req'[x].pc \in Holds
      PROVE  /\ rowLock'[req'[x].session] = {x}
             /\ req'[x].ver = version'[req'[x].session]
  <2>1. /\ req[x].pc \in Holds /\ rowLock[req[x].session] = {x}
        /\ req[x].ver = version[req[x].session]
    BY <1>2, <1>6 DEF LockInv
  <2>2. req[x].session \in Session
    BY <2>1, InFlightRequest DEF Request, Holds
  <2>3. req[x].session # s
    BY <2>1, <1>5
  <2> QED  BY <1>2, <1>4, <1>5, <1>6, <2>1, <2>2, <2>3
<1> QED  BY <1>3, <1>4, <1>5, <1>6 DEF LockInv

LEMMA LetGoKeeps ==
  ASSUME TypeOK, LockInv, NEW r \in Reviewer, Release(r) \/ CommitStep(r)
  PROVE  LockInv'
PROOF
<1> DEFINE s == req[r].session
<1>1. /\ LetsGo(r) /\ Unlock(s)
      /\ version' = version \/ version' = [version EXCEPT ![s] = @ + 1]
  BY DEF Release, CommitStep, CommitDecision
<1>2. s \in Session /\ rowLock[s] = {r}
  BY <1>1, InFlightRequest DEF LockInv, LetsGo, Request, Holds
<1>3. ASSUME NEW x \in Reviewer, req'[x].pc \in Holds
      PROVE  /\ rowLock'[req'[x].session] = {x}
             /\ req'[x].ver = version'[req'[x].session]
  <2>1. x # r /\ req'[x] = req[x]
    BY <1>1, <1>3 DEF LetsGo
  <2>2. /\ req[x].pc \in Holds /\ rowLock[req[x].session] = {x}
        /\ req[x].ver = version[req[x].session]
    BY <1>3, <2>1 DEF LockInv
  <2>3. req[x].session \in Session /\ req[x].session # s
    BY <1>2, <2>1, <2>2, InFlightRequest DEF Request, Holds
  <2>4. rowLock'[req[x].session] = rowLock[req[x].session]
    BY <1>1, <2>3 DEF Unlock, TypeOK
  <2>5. version'[req[x].session] = version[req[x].session]
    BY <1>1, <2>3 DEF TypeOK
  <2> QED  BY <2>1, <2>2, <2>4, <2>5
<1> QED  BY <1>3 DEF LockInv

LEMMA LockInductive == TypeOK /\ LockInv /\ [Next]_vars => LockInv'
PROOF
<1> SUFFICES ASSUME TypeOK, LockInv, [Next]_vars PROVE LockInv'
  OBVIOUS
<1>1. CASE UNCHANGED vars
  BY <1>1 DEF vars, LockInv
<1>2. ASSUME NEW m \in Msg, Customer(m)  PROVE LockInv'
  BY <1>2, CustomerFrame, FrameKeepsLock
<1>3. ASSUME NEW r \in Reviewer, Client(r) \/ Transaction(r) \/ ResumedRun(r)
      PROVE  LockInv'
  BY <1>3, ClientFrame, ResumedRunFrame, TransactionFrame, FrameKeepsLock, TakeLockKeeps,
     LetGoKeeps
<1>4. ASSUME NEW s \in Session, Escalate(s)  PROVE LockInv'
  BY <1>4 DEF Escalate, LockInv
<1> QED  BY <1>1, <1>2, <1>3, <1>4 DEF Next
-----------------------------------------------------------------------------
(* The log of decisions.                                                     *)

\* Every step of the review is a step of the log or leaves the log alone.
LEMMA StepOfTheLog ==
  TypeOK /\ LockInv /\ [Next]_vars => [Log!Next]_(Log!vars)
PROOF
<1> SUFFICES ASSUME TypeOK, LockInv, [Next]_vars PROVE [Log!Next]_(Log!vars)
  OBVIOUS
<1> DEFINE Stutter == done' = done /\ version' = version
<1>1. CASE UNCHANGED vars
  BY <1>1 DEF vars, Log!vars
<1>2. ASSUME NEW m \in Msg, Customer(m)  PROVE Stutter
  BY <1>2, CustomerFrame DEF LockFrame
<1>3. ASSUME NEW r \in Reviewer, Client(r)  PROVE Stutter
  BY <1>3, ClientFrame DEF LockFrame
<1>4. ASSUME NEW s \in Session, Escalate(s)  PROVE Stutter
  BY <1>4 DEF Escalate
<1>5. ASSUME NEW r \in Reviewer, CommitStep(r)  PROVE Log!Next
  <2> DEFINE q == req[r]
  <2>1. q \in Request /\ q.pc \in Holds
    BY <1>5, InFlightRequest DEF CommitStep, LetsGo, Holds
  <2>2. /\ q.session \in Session /\ q.idx \in Index
        /\ q.act \in Act /\ q.key \in DecisionKey
    BY <2>1 DEF Request
  <2>3. q.ver = version[q.session]
    BY <2>1 DEF LockInv
  <2>4. Log!Decide(q.session, q.idx, q.act, q.key)
    BY <1>5, <2>3 DEF CommitStep, CommitDecision, KeyUsed, Entry, Log!Decide
  <2> QED  BY <2>2, <2>4 DEF Log!Next
<1>6. ASSUME NEW r \in Reviewer, Transaction(r) \/ ResumedRun(r)
      PROVE  Stutter \/ Log!Next
  <2>1. CASE LockFrame /\ done' = done
    BY <2>1 DEF LockFrame
  <2>2. CASE TakeLock(r)
    BY <2>2 DEF TakeLock
  <2>3. CASE Release(r)
    BY <2>3 DEF Release
  <2> QED  BY <1>5, <1>6, <2>1, <2>2, <2>3, TransactionFrame, ResumedRunFrame
<1> QED  BY <1>1, <1>2, <1>3, <1>4, <1>6 DEF Next, Log!vars

\* The detailed review implements the log: concurrent decisions, retries, a
\* re-pause that upserts the version row, time-outs and broken runs included.
THEOREM ImplementsLog == Spec => LogSpec
PROOF
<1>1. Init => Log!Init
  BY DEF Init, Log!Init
<1>2. Init => TypeOK /\ LockInv
  <2>1. Init => LockInv
    BY DEF Init, LockInv, NoRequest, Holds
  <2> QED  BY <2>1, InitType
<1>3. TypeOK /\ LockInv /\ [Next]_vars => LockInv'
  BY LockInductive
<1>4. Spec => []TypeOK
  BY TypeCorrect
<1>5. Spec => []LockInv
  BY <1>2, <1>3, <1>4, PTL DEF Spec
<1>6. TypeOK /\ LockInv /\ [Next]_vars => [Log!Next]_(Log!vars)
  BY StepOfTheLog
<1> QED  BY <1>1, <1>4, <1>5, <1>6, PTL DEF Spec, LogSpec, Log!Spec

LEMMA LogKeepsNumbers ==
  TypeOK /\ DecisionsNumbered /\ [Log!Next]_(Log!vars) => DecisionsNumbered'
PROOF
<1> SUFFICES ASSUME TypeOK, DecisionsNumbered, [Log!Next]_(Log!vars)
             PROVE  DecisionsNumbered'
  OBVIOUS
<1>1. CASE UNCHANGED Log!vars
  BY <1>1 DEF Log!vars, DecisionsNumbered, DecisionsOf
<1>2. ASSUME NEW z \in Session, NEW i \in Index, NEW a \in Act, NEW k \in DecisionKey,
             Log!Decide(z, i, a, k)
      PROVE  DecisionsNumbered'
  <2> DEFINE e == [session |-> z, idx |-> i, act |-> a, key |-> k, ver |-> version[z]]
  <2>1. done' = done \cup {e} /\ version[z] \in Nat /\ version'[z] = version[z] + 1
    BY <1>2 DEF Log!Decide, TypeOK
  <2>2. \A d \in done : d.ver \in Nat
    BY DEF TypeOK, Decision
  <2>3. ASSUME NEW s \in Session, s # z
        PROVE  /\ {d.ver : d \in DecisionsOf(s)'} = 0..(version'[s] - 1)
               /\ \A d, c \in DecisionsOf(s)' : d.ver = c.ver => d = c
    <3>1. DecisionsOf(s)' = DecisionsOf(s)
      BY <2>1, <2>3 DEF DecisionsOf
    <3>2. version'[s] = version[s]
      BY <1>2, <2>3 DEF Log!Decide, TypeOK
    <3> QED  BY <3>1, <3>2 DEF DecisionsNumbered
  <2>4. DecisionsOf(z)' = DecisionsOf(z) \cup {e}
    BY <2>1 DEF DecisionsOf
  <2>5. \A d \in DecisionsOf(z) : d.ver \in 0..(version[z] - 1) /\ d.ver # version[z]
    <3>1. \A d \in DecisionsOf(z) : d.ver \in 0..(version[z] - 1)
      BY DEF DecisionsNumbered
    <3> QED  BY <2>1, <3>1
  <2>6. {d.ver : d \in DecisionsOf(z)'} = 0..(version'[z] - 1)
    <3>1. {d.ver : d \in DecisionsOf(z)'} = {d.ver : d \in DecisionsOf(z)} \cup {version[z]}
      <4> DEFINE D == DecisionsOf(z)
                 E == DecisionsOf(z)'
                 v == version[z]
      <4>1. E = D \cup {e} /\ e.ver = v
        BY <2>4
      <4> HIDE DEF D, E, e, v
      <4>2. {d.ver : d \in E} = {d.ver : d \in D} \cup {v}
        BY <4>1
      <4> QED  BY <4>2 DEF D, E, v
    <3>2. {d.ver : d \in DecisionsOf(z)} = 0..(version[z] - 1)
      BY DEF DecisionsNumbered
    <3>3. 0..(version[z] - 1) \cup {version[z]} = 0..((version[z] + 1) - 1)
      BY <2>1
    <3> QED  BY <2>1, <3>1, <3>2, <3>3
  <2>7. \A d, c \in DecisionsOf(z)' : d.ver = c.ver => d = c
    <3>1. \A d, c \in DecisionsOf(z) : d.ver = c.ver => d = c
      BY DEF DecisionsNumbered
    <3>2. e.ver = version[z]
      OBVIOUS
    <3> QED  BY <2>4, <2>5, <3>1, <3>2
  <2> QED  BY <2>3, <2>6, <2>7 DEF DecisionsNumbered
<1> QED  BY <1>1, <1>2 DEF Log!Next

\* No decision is lost and no version is taken twice, however many requests
\* race: the decisions of a session are numbered 0, 1, 2, ...
THEOREM DecisionsAlwaysNumbered == Spec => []DecisionsNumbered
PROOF
<1>1. Init => DecisionsNumbered
  BY DEF Init, DecisionsNumbered, DecisionsOf
<1>2. Spec => []TypeOK
  BY TypeCorrect
<1>3. Spec => [][Log!Next]_(Log!vars)
  BY ImplementsLog, PTL DEF LogSpec, Log!Spec
<1>4. TypeOK /\ DecisionsNumbered /\ [Log!Next]_(Log!vars) => DecisionsNumbered'
  BY LogKeepsNumbers
<1> QED  BY <1>1, <1>2, <1>3, <1>4, PTL DEF Spec

\* An idempotency key decides once, for any number of retries.
THEOREM KeyAlwaysDecidesOnce == Spec => []KeyDecidesOnce
PROOF
<1>1. Init => KeyDecidesOnce
  BY DEF Init, KeyDecidesOnce
<1>2. Spec => [][Log!Next]_(Log!vars)
  BY ImplementsLog, PTL DEF LogSpec, Log!Spec
<1>3. KeyDecidesOnce /\ [Log!Next]_(Log!vars) => KeyDecidesOnce'
  BY DEF KeyDecidesOnce, Log!Next, Log!Decide, Log!vars
<1> QED  BY <1>1, <1>2, <1>3, PTL DEF Spec
-----------------------------------------------------------------------------
(* One request at a time.  As long as the requests about a session do not    *)
(* overlap, and its runs do not either, what was placed stays; and as long   *)
(* as its orders keep their tier, what is placed was approved.               *)

Own(r, s) == req[r].pc # "idle" /\ req[r].session = s

\* The administrators' requests about one session are handled one after another.
OneRequestAtATime ==
  \A s \in Session : \A a, b \in Reviewer : Own(a, s) /\ Own(b, s) => a = b

\* Pauses are numbered in the order they are opened; decisions and requests are
\* about pauses there are.
Cards(s) ==
  /\ \A i \in Index :
       /\ status[<<s, i>>] = "none" <=> made[s] < i
       /\ draft[<<s, i>>] # "none" => i <= made[s]
  /\ \A d \in done : d.session = s => d.idx <= made[s]
  /\ \A r \in Reviewer : Own(r, s) =>
       req[r].idx <= made[s] /\ req[r].target <= made[s] /\ req[r].held <= made[s]
  /\ cp[s].target <= made[s] /\ cp[s].held <= made[s]

\* What a resumed run acts on, or will, is not an order yet.
Unplaced(s, h) == h # None => draft[<<s, h>>] # "confirmed"
InHand == Resumed \ {"finishing"}
Held(s) ==
  /\ cp[s].at \in {"interrupted", "midrun"} => Unplaced(s, cp[s].held)
  /\ \A r \in Reviewer : Own(r, s) /\ req[r].pc \in InHand => Unplaced(s, req[r].held)

\* A turn has its session to itself.
Turning(m, s) == SessionOf[m] = s /\ msg[m] \in {"turn", "inserting"}
TurnAlone(s) ==
  \A m \in Msg : Turning(m, s) =>
    /\ cp[s].at \in {"idle", "turn"}
    /\ \A r \in Reviewer : Own(r, s) => req[r].pc \notin Resumed
    /\ \A n \in Msg : Turning(n, s) => n = m

Base(s) == Cards(s) /\ Held(s) /\ ("overlap" \notin env => TurnAlone(s))

\* Only the newest pause of a session is open, and none is cancelled; while a
\* turn runs there is none to decide.
OnlyNewest(s) ==
  \A i \in Index : /\ status[<<s, i>>] # "cancelled"
                   /\ i < made[s] => status[<<s, i>>] \in Terminal
Clear(s) == \A i \in Index : status[<<s, i>>] \notin BlockingStatuses
TurnClear(s) == (\E m \in Msg : Turning(m, s)) => Clear(s)

\* A request past its gate is about the newest pause, which keeps turns out.
PastGate(s) ==
  \A r \in Reviewer :
    Own(r, s) /\ req[r].pc \in {"readver", "acquire", "locked", "joined"} =>
      req[r].idx = made[s] /\ status[<<s, req[r].idx>>] \in BlockingStatuses

\* A run goes on from the newest checkpoint: the interrupt while the guard runs
\* again, then its tasks.
InStep(s) ==
  \A r \in Reviewer : Own(r, s) =>
    /\ req[r].pc \in {"fresh", "guarded"} => cp[s].at = "interrupted"
    /\ req[r].pc \in {"joined", "running"} =>
         /\ cp[s].at = "midrun" /\ cp[s].path = req[r].path
         /\ cp[s].target = req[r].target /\ cp[s].held = req[r].held
    /\ req[r].pc = "finishing" =>
         cp[s].at = "idle" \/ (cp[s].at = "interrupted" /\ req[r].idx < made[s])

\* What leads to an order comes from an approval of the newest pause ...
Leads(s, path, target) ==
  /\ target = made[s] /\ made[s] \in Index
  /\ path = "order" => status[<<s, made[s]>>] = "approved"
Tasks(s) == cp[s].at = "midrun" => Leads(s, cp[s].path, cp[s].target)
\* ... and what does not, while the guard runs, from a rejection.
Guarded(s) ==
  \A r \in Reviewer : Own(r, s) /\ req[r].pc \in {"fresh", "guarded"} =>
    /\ Leads(s, req[r].path, req[r].target)
    /\ req[r].path = "support" => \E i \in Index : Decided(<<s, i>>, "reject")
    /\ req[r].pc = "fresh" => req[r].path = "support"

\* A pause nobody edited waits with an interrupt or the tasks of a run.
Waits(s) ==
  \A i \in Index : status[<<s, i>>] = "paused" =>
    cp[s].at \in {"interrupted", "midrun"} \/ Decided(<<s, i>>, "request_edit")

Parts(s) == /\ OnlyNewest(s) /\ TurnClear(s) /\ PastGate(s) /\ InStep(s)
            /\ Tasks(s) /\ Guarded(s) /\ Waits(s)

\* An interrupt is that of the newest pause, whose draft is the newest pending
\* one, unless a rejection is under way.
Rejecting(s) == \E r \in Reviewer : /\ Own(r, s) /\ req[r].pc \in {"fresh", "guarded"}
                                    /\ req[r].path = "support"
Interrupts(s) ==
  cp[s].at = "interrupted" /\ ~Rejecting(s) =>
    /\ made[s] \in Index /\ draft[<<s, made[s]>>] = "pending"
    /\ cp[s].held # None => draft[<<s, cp[s].held>>] # "pending"

\* A run that leads to an order was approved, and so was the draft it may place.
Right(s, held) ==
  /\ Decided(<<s, made[s]>>, "approve")
  /\ held # None /\ draft[<<s, held>>] = "pending" => held = made[s]
Approved(s) ==
  /\ cp[s].at = "midrun" /\ cp[s].path = "order" => Right(s, cp[s].held)
  /\ \A r \in Reviewer : Own(r, s) /\ req[r].pc = "guarded" /\ req[r].path = "order" =>
       Right(s, req[r].held)

\* A placed order was approved under its own pause.
Placed(s) ==
  \A i \in Index : draft[<<s, i>>] = "confirmed" => Decided(<<s, i>>, "approve")

Sound(s) == Interrupts(s) /\ Approved(s) /\ Placed(s)
Orders(s) == ~RejectionBroke(s) => Sound(s)
Serial(s) == Steady => Parts(s) /\ Orders(s)
-----------------------------------------------------------------------------
(* A step concerns one session.                                              *)

\* Nothing of session t changes.
Same(t) ==
  /\ env' = env /\ made'[t] = made[t] /\ cp'[t] = cp[t]
  /\ \A i \in Index :
       status'[<<t, i>>] = status[<<t, i>>] /\ draft'[<<t, i>>] = draft[<<t, i>>]
  /\ \A d : d.session = t => (d \in done' <=> d \in done)
  /\ \A r \in Reviewer : Own(r, t) \/ Own(r, t)' => req'[r] = req[r]
  /\ \A m \in Msg : SessionOf[m] = t => msg'[m] = msg[m]
Elsewhere(s) == \A t \in Session : t # s => Same(t)

LEMMA SameKeepsBase ==
  ASSUME TypeOK, NEW t \in Session, Same(t), Base(t)
  PROVE  Base(t)'
<1>1. Cards(t)'
  BY DEF Same, Base, Cards, Own
<1>2. \A h \in 0..MaxPauses : Unplaced(t, h)' <=> Unplaced(t, h)
  BY DEF Same, Unplaced, None, Index
<1>3. /\ cp'[t] = cp[t] /\ cp[t].held \in 0..MaxPauses
      /\ \A r \in Reviewer : Own(r, t)' => Own(r, t) /\ req'[r] = req[r]
      /\ \A r \in Reviewer : Own(r, t) => req[r].held \in 0..MaxPauses
  BY InFlightRequest DEF Same, Own, Request, TypeOK, Checkpoint
<1>4. cp'[t].at \in {"interrupted", "midrun"} => Unplaced(t, cp[t].held)'
  BY <1>2, <1>3 DEF Base, Held
<1>5. \A r \in Reviewer : Own(r, t)' /\ req'[r].pc \in InHand => Unplaced(t, req[r].held)'
  BY <1>2, <1>3 DEF Base, Held
<1>6. Held(t)'
  BY <1>3, <1>4, <1>5 DEF Held, Unplaced
<1>7. "overlap" \notin env' => TurnAlone(t)'
  <2>1. \A m \in Msg : Turning(m, t)' <=> Turning(m, t)
    BY DEF Same, Turning
  <2> QED  BY <1>3, <2>1 DEF Base, TurnAlone, Same
<1> QED  BY <1>1, <1>6, <1>7 DEF Base

\* What a pause of session s is opened with; U is who may have confirmed an
\* order since its drafts were read.
LEMMA Opens ==
  ASSUME TypeOK, NEW s \in Session, NEW h \in 0..MaxPauses, NEW U, OpenDrafted(s, h, U)
  PROVE  /\ made[s] + 1 \in Index /\ made'[s] = made[s] + 1
         /\ \A t \in Session : t # s =>
              /\ made'[t] = made[t]
              /\ \A i \in Index : /\ status'[<<t, i>>] = status[<<t, i>>]
                                  /\ draft'[<<t, i>>] = draft[<<t, i>>]
         /\ \A i \in Index :
              status'[<<s, i>>] = IF i = made[s] + 1 THEN "paused" ELSE status[<<s, i>>]
         /\ draft'[<<s, made[s] + 1>>] = "pending"
         /\ \A i \in Index : i # made[s] + 1 =>
              \/ draft'[<<s, i>>] = draft[<<s, i>>]
              \/ draft'[<<s, i>>] = "superseded" /\ draft[<<s, i>>] \in {"pending", "confirmed"}
         /\ (\A u \in U : ~At(u, "finishing", s)) =>
              \A i \in Index : i # made[s] + 1 =>
                \/ draft'[<<s, i>>] = draft[<<s, i>>]
                \/ draft'[<<s, i>>] = "superseded" /\ draft[<<s, i>>] = "pending"
         /\ h \in Index /\ h # made[s] + 1 => draft'[<<s, h>>] # "pending"
<1> DEFINE n == made[s] + 1
<1>1. PICK A \in ReadActive(s, h, U) : OpenPause(s, Superseding(s, h, A), "pending")
  BY DEF OpenDrafted
<1> DEFINE drafts == Superseding(s, h, A)
<1>2. /\ n \in Index /\ made'[s] = n
      /\ \A t \in Session : t # s => made'[t] = made[t]
  BY <1>1 DEF OpenPause, TypeOK, Index
<1>3. drafts \in [Pause -> DraftStatus] /\ status \in [Pause -> PauseStatus]
  BY SupersedingType DEF TypeOK
<1>4. \A t \in Session, i \in Index :
        drafts[<<t, i>>] = IF t = s /\ (i \in Overflow(A) \/ (i = h /\ draft[<<t, i>>] = "pending"))
                           THEN "superseded" ELSE draft[<<t, i>>]
  <2>1. \A t \in Session, i \in Index : <<t, i>> \in Pause /\ <<t, i>>[1] = t /\ <<t, i>>[2] = i
    BY DEF Pause
  <2> QED  BY <2>1 DEF Superseding
<1>5. status' = [status EXCEPT ![<<s, n>>] = "paused"] /\ draft' = [drafts EXCEPT ![<<s, n>>] = "pending"]
  BY <1>1 DEF OpenPause
<1>a. Overflow(A) \subseteq A
  BY DEF Overflow
<1>b. \A i \in A : draft[<<s, i>>] \in {"pending", "confirmed"}
  BY DEF ReadActive
<1>c. (\A u \in U : ~At(u, "finishing", s)) => \A i \in A : draft[<<s, i>>] = "pending"
  BY DEF ReadActive
<1> HIDE DEF n, drafts
<1>6. \A t \in Session, i \in Index :
        /\ status'[<<t, i>>] = IF t = s /\ i = n THEN "paused" ELSE status[<<t, i>>]
        /\ draft'[<<t, i>>] = IF t = s /\ i = n THEN "pending" ELSE drafts[<<t, i>>]
  <2>1. \A t \in Session, i \in Index : <<t, i>> \in Pause
    BY DEF Pause
  <2> QED  BY <1>3, <1>5, <2>1
<1>7. \A i \in Index : i # n =>
              \/ draft'[<<s, i>>] = draft[<<s, i>>]
              \/ draft'[<<s, i>>] = "superseded" /\ draft[<<s, i>>] \in {"pending", "confirmed"}
  BY <1>4, <1>6, <1>a, <1>b
<1>8. (\A u \in U : ~At(u, "finishing", s)) =>
              \A i \in Index : i # n =>
                \/ draft'[<<s, i>>] = draft[<<s, i>>]
                \/ draft'[<<s, i>>] = "superseded" /\ draft[<<s, i>>] = "pending"
  BY <1>4, <1>6, <1>a, <1>c
<1>9. h \in Index /\ h # n => draft'[<<s, h>>] # "pending"
  BY <1>4, <1>6
<1> QED  BY <1>2, <1>4, <1>6, <1>7, <1>8, <1>9 DEF n

LEMMA OpensElsewhere ==
  ASSUME TypeOK, NEW s \in Session, NEW h \in 0..MaxPauses, NEW U, OpenDrafted(s, h, U),
         NEW t \in Session, t # s
  PROVE  /\ made'[t] = made[t]
         /\ \A i \in Index :
              status'[<<t, i>>] = status[<<t, i>>] /\ draft'[<<t, i>>] = draft[<<t, i>>]
<1>1. \A x \in Session : x # s =>
        /\ made'[x] = made[x]
        /\ \A i \in Index : /\ status'[<<x, i>>] = status[<<x, i>>]
                            /\ draft'[<<x, i>>] = draft[<<x, i>>]
  BY Opens
<1> QED  BY <1>1

\* What is cancelled with a session's order.
LEMMA Cancels ==
  ASSUME TypeOK, NEW s \in Session, Cancel(s)
  PROVE  /\ \A i \in Index : draft[<<s, i>>] # "confirmed"
         /\ \A t \in Session, i \in Index :
              /\ draft'[<<t, i>>] = IF t = s /\ draft[<<t, i>>] = "pending" THEN "cancelled"
                                    ELSE draft[<<t, i>>]
              /\ status'[<<t, i>>] = IF t = s /\ status[<<t, i>>] \in Open THEN "cancelled"
                                     ELSE status[<<t, i>>]
<1>1. \A t \in Session, i \in Index : <<t, i>> \in Pause /\ <<t, i>>[1] = t
  BY DEF Pause
<1>2. \A t \in Session, i \in Index :
        draft'[<<t, i>>] = IF t = s /\ draft[<<t, i>>] = "pending" THEN "cancelled"
                           ELSE draft[<<t, i>>]
  BY <1>1 DEF Cancel
<1>3. \A t \in Session, i \in Index :
        status'[<<t, i>>] = IF t = s /\ status[<<t, i>>] \in Open THEN "cancelled"
                            ELSE status[<<t, i>>]
  <2>1. status' = Restatus(s, Open, "cancelled")
    BY DEF Cancel
  <2>2. \A t \in Session, i \in Index :
          Restatus(s, Open, "cancelled")[<<t, i>>]
            = IF t = s /\ status[<<t, i>>] \in Open THEN "cancelled" ELSE status[<<t, i>>]
    BY <1>1 DEF Restatus
  <2> QED  BY <2>1, <2>2
<1> QED  BY <1>2, <1>3 DEF Cancel

\* What one request does to the others: nothing.
LEMMA OthersAreKept ==
  ASSUME TypeOK, NEW r \in Reviewer, NEW s \in Session, Own(r, s),
         \/ Leave(r)
         \/ \E pc : Goto(r, pc)
         \/ \E pc, path, target, held : Resume(r, pc, path, target, held)
         \/ \E v : req' = [req EXCEPT ![r].pc = "acquire", ![r].ver = v]
  PROVE  /\ \A x \in Reviewer : x # r => req'[x] = req[x]
         /\ \A t \in Session : Own(r, t)' => t = s
         /\ \/ req'[r].pc = "idle"
            \/ req'[r].session = s /\ req'[r].idx = req[r].idx /\ req'[r].act = req[r].act
<1>0. req[r] \in Request /\ req[r].session = s
  BY InFlightRequest DEF Own
<1>1. CASE Leave(r)
  BY <1>0, <1>1 DEF Leave, TypeOK, Own, NoRequest
<1>2. ASSUME NEW pc, Goto(r, pc)
      PROVE  /\ \A x \in Reviewer : x # r => req'[x] = req[x]
             /\ req'[r].session = s /\ req'[r].idx = req[r].idx /\ req'[r].act = req[r].act
  BY <1>0, <1>2 DEF Goto, TypeOK, Request
<1>3. ASSUME NEW pc, NEW path, NEW target, NEW held, Resume(r, pc, path, target, held)
      PROVE  /\ \A x \in Reviewer : x # r => req'[x] = req[x]
             /\ req'[r].session = s /\ req'[r].idx = req[r].idx /\ req'[r].act = req[r].act
  BY <1>0, <1>3 DEF Resume, TypeOK, Request
<1>4. ASSUME NEW v, req' = [req EXCEPT ![r].pc = "acquire", ![r].ver = v]
      PROVE  /\ \A x \in Reviewer : x # r => req'[x] = req[x]
             /\ req'[r].session = s /\ req'[r].idx = req[r].idx /\ req'[r].act = req[r].act
  BY <1>0, <1>4 DEF TypeOK, Request
<1> QED  BY <1>1, <1>2, <1>3, <1>4 DEF Own

LEMMA CommitIs ==
  ASSUME TypeOK, NEW r \in Reviewer, NEW s \in Session, Own(r, s), CommitDecision(r)
  PROVE  /\ \A t \in Session : t # s => \A d : d.session = t => (d \in done' <=> d \in done)
         /\ \A d \in done' : d \in done \/ (d.session = s /\ d.idx = req[r].idx)
         /\ \A i, act : Decided(<<s, i>>, act)'
                          <=> Decided(<<s, i>>, act) \/ (i = req[r].idx /\ act = req[r].act)
<1>1. done' = done \cup {Entry(req[r])}
  BY DEF CommitDecision
<1>2. /\ Entry(req[r]).session = s /\ Entry(req[r]).idx = req[r].idx
      /\ Entry(req[r]).act = req[r].act
  BY DEF Entry, Own
<1> HIDE DEF Own
<1> DEFINE e == Entry(req[r])
<1> HIDE DEF e
<1>3. done' = done \cup {e} /\ e.session = s /\ e.idx = req[r].idx /\ e.act = req[r].act
  BY <1>1, <1>2 DEF e
<1>4. ASSUME NEW i, NEW act
      PROVE  Decided(<<s, i>>, act)'
               <=> Decided(<<s, i>>, act) \/ (i = req[r].idx /\ act = req[r].act)
  <2>1. e \in done'
    BY <1>3
  <2>2. ASSUME Decided(<<s, i>>, act)'
        PROVE  Decided(<<s, i>>, act) \/ (i = req[r].idx /\ act = req[r].act)
    BY <1>3, <2>2 DEF Decided
  <2>3. ASSUME Decided(<<s, i>>, act) \/ (i = req[r].idx /\ act = req[r].act)
        PROVE  Decided(<<s, i>>, act)'
    BY <1>3, <2>1, <2>3 DEF Decided
  <2> QED  BY <2>2, <2>3
<1>5. \A t \in Session : t # s => \A d : d.session = t => (d \in done' <=> d \in done)
  BY <1>3
<1>6. \A d \in done' : d \in done \/ (d.session = s /\ d.idx = req[r].idx)
  BY <1>3
<1> QED  BY <1>4, <1>5, <1>6

LEMMA CustomerElsewhere ==
  ASSUME TypeOK, NEW m \in Msg, Customer(m)
  PROVE  Elsewhere(SessionOf[m]) /\ req' = req /\ done' = done /\ env' = env
<1> DEFINE s == SessionOf[m]
<1>0. s \in Session /\ None \in 0..MaxPauses
  BY DEF None
<1>1. \A n \in Msg : n # m => msg'[n] = msg[n]
  BY DEF Customer, Turns, Gateway, Enqueue, TurnEnds, TurnAnswer, TurnSupport, TurnOrder,
     TurnCancel, TurnLookup, TurnInsert, TypeOK
<1>2. \A t \in Session : t # s => cp'[t] = cp[t]
  BY DEF Customer, Turns, Gateway, Enqueue, TurnEnds, TurnAnswer, TurnSupport, TurnOrder,
     TurnCancel, TurnLookup, TurnInsert, TypeOK
<1>3. env' = env /\ req' = req /\ done' = done
  BY DEF Customer, Turns, Gateway, Enqueue, TurnEnds, TurnAnswer, TurnSupport, TurnOrder,
     TurnCancel, TurnLookup, TurnInsert, dbVars
<1>4. ASSUME NEW t \in Session, t # s
      PROVE  /\ made'[t] = made[t]
             /\ \A i \in Index :
                  status'[<<t, i>>] = status[<<t, i>>] /\ draft'[<<t, i>>] = draft[<<t, i>>]
  <2>1. CASE TurnInsert(m)
    <3>1. OpenDrafted(s, None, Reviewer)
      BY <2>1 DEF TurnInsert
    <3> QED  BY <1>0, <1>4, <3>1, OpensElsewhere
  <2>2. CASE TurnCancel(m)
    <3>1. Cancel(s) /\ made' = made
      BY <2>2 DEF TurnCancel, TurnEnds
    <3> QED  BY <1>0, <1>4, <3>1, Cancels
  <2>3. CASE ~TurnInsert(m) /\ ~TurnCancel(m)
    BY <2>3 DEF Customer, Turns, Gateway, Enqueue, TurnEnds, TurnAnswer, TurnSupport, TurnOrder,
       TurnLookup, dbVars
  <2> QED  BY <2>1, <2>2, <2>3
<1> QED  BY <1>1, <1>2, <1>3, <1>4 DEF Same, Elsewhere

\* What a request or its run changes of the pauses is of its own session.
LEMMA RowsElsewhere ==
  ASSUME TypeOK, NEW r \in Reviewer, NEW s \in Session, Own(r, s),
         Transaction(r) \/ ResumedRun(r), NEW t \in Session, t # s
  PROVE  /\ made'[t] = made[t]
         /\ \A i \in Index :
              status'[<<t, i>>] = status[<<t, i>>] /\ draft'[<<t, i>>] = draft[<<t, i>>]
<1>0. /\ req[r].session = s /\ req[r] \in Request /\ cp[s].held \in 0..MaxPauses
      /\ req[r].held \in 0..MaxPauses /\ None \in 0..MaxPauses
  BY InFlightRequest DEF Own, Request, TypeOK, Checkpoint, None
<1>1. CASE \/ Gate(r) \/ ReadVersion(r) \/ TurnedAway(r) \/ TakeLock(r) \/ Rollback(r)
           \/ ResumeRejectNoDraft(r) \/ (\E path \in {"order", "support"} : ResumeUnread(r, path))
           \/ JoinRun(r) \/ ApplyEdit(r) \/ GuardCheckpoint(r) \/ LoseDecision(r)
           \/ RunInsertOrder(r) \/ RunNoOrder(r) \/ (\E keep \in BOOLEAN : RunReuse(r, keep))
           \/ RunMaxed(r) \/ Abort(r)
  BY <1>1 DEF Gate, ReadVersion, TurnedAway, TakeLock, Rollback, ResumeRejectNoDraft,
     ResumeUnread, JoinRun, ApplyEdit, GuardCheckpoint, LoseDecision, RunInsertOrder,
     RunNoOrder, RunReuse, RunMaxed, Abort, dbVars
<1>2. CASE ResumeApprove(r) \/ FirstCommit(r) \/ DecideWithoutRun(r) \/ RunSupport(r) \/ Finish(r)
  <2>1. made' = made /\ draft' = draft
    BY <1>2 DEF ResumeApprove, FirstCommit, DecideWithoutRun, RunSupport, Finish
  <2>2. ASSUME NEW j, NEW v, status' = [status EXCEPT ![<<s, j>>] = v]
        PROVE  \A i \in Index : status'[<<t, i>>] = status[<<t, i>>]
    BY <2>2 DEF TypeOK, Pause
  <2>3. CASE ResumeApprove(r)
    <3> DEFINE p == Latest(PausesIn(s, Open) \cup {req[r].idx})
    <3>1. status' = [status EXCEPT ![<<s, req[r].idx>>] = "resuming", ![<<s, p>>] = "approved"]
      BY <1>0, <2>3 DEF ResumeApprove
    <3> HIDE DEF p
    <3> QED  BY <2>1, <3>1 DEF TypeOK, Pause
  <2>4. CASE FirstCommit(r)
    <3>1. status' = status \/ status' = [status EXCEPT ![<<s, req[r].idx>>] = "resuming"]
      BY <1>0, <2>4 DEF FirstCommit
    <3> QED  BY <2>1, <2>2, <3>1
  <2>5. CASE DecideWithoutRun(r) \/ Finish(r)
    BY <1>0, <2>1, <2>2, <2>5 DEF DecideWithoutRun, Finish
  <2>6. CASE RunSupport(r)
    <3>1. \A i \in Index : <<t, i>> \in Pause /\ <<t, i>> # <<s, req[r].target>>
      BY DEF Pause
    <3>2. status' = [p \in Pause |-> IF p = <<s, req[r].target>> THEN "escalated" ELSE status[p]]
      BY <1>0, <2>6 DEF RunSupport
    <3> QED  BY <2>1, <3>1, <3>2
  <2> QED  BY <1>2, <2>3, <2>4, <2>5, <2>6
<1>3. CASE ResumeReject(r) \/ RejectFresh(r) \/ RunExecute(r)
  <2>1. made' = made /\ status' = status
    BY <1>3 DEF ResumeReject, RejectFresh, RunExecute
  <2>2. \E j, v : draft' = [draft EXCEPT ![<<s, j>>] = v]
    BY <1>0, <1>3, Zenon DEF ResumeReject, RejectFresh, RunExecute
  <2>3. \A i \in Index : draft'[<<t, i>>] = draft[<<t, i>>]
    BY <2>2 DEF TypeOK, Pause
  <2> QED  BY <2>1, <2>3
<1>4. CASE ResumeRejectFresh(r) \/ \E keep \in BOOLEAN : RunRepause(r, keep)
  <2>1. PICK h \in 0..MaxPauses : OpenDrafted(s, h, Reviewer \ {r})
    BY <1>0, <1>4 DEF ResumeRejectFresh, RunRepause
  <2> QED  BY <2>1, OpensElsewhere
<1>5. CASE RunCancel(r)
  BY <1>0, <1>5, Cancels DEF RunCancel
<1> QED  BY <1>1, <1>2, <1>3, <1>4, <1>5 DEF Transaction, ResumedRun

\* A request's step is in flight, and of its own session.
LEMMA RequestElsewhere ==
  ASSUME TypeOK, NEW r \in Reviewer, NEW s \in Session, Own(r, s),
         Transaction(r) \/ ResumedRun(r)
  PROVE  /\ Elsewhere(s) /\ env' = env /\ (done' = done \/ CommitDecision(r))
         /\ \A x \in Reviewer : x # r => req'[x] = req[x]
         /\ \/ req'[r].pc = "idle"
            \/ req'[r].session = s /\ req'[r].idx = req[r].idx /\ req'[r].act = req[r].act
<1>0. req[r].session = s /\ req[r] \in Request
  BY InFlightRequest DEF Own
<1>1. env' = env
  BY DEF Transaction, ResumedRun, Gate, ReadVersion, TurnedAway, TakeLock, Rollback,
       ResumeApprove, ResumeReject, ResumeRejectNoDraft, ResumeRejectFresh, ResumeUnread,
       JoinRun, DecideWithoutRun, ApplyEdit, RejectFresh, GuardCheckpoint, FirstCommit,
       LoseDecision, RunExecute, RunInsertOrder, RunNoOrder, RunCancel, RunRepause, RunReuse,
       RunSupport, RunMaxed, Finish, Abort, dbVars
<1>2. /\ \A x \in Reviewer : x # r => req'[x] = req[x]
      /\ \A t \in Session : Own(r, t)' => t = s
      /\ \/ req'[r].pc = "idle"
         \/ req'[r].session = s /\ req'[r].idx = req[r].idx /\ req'[r].act = req[r].act
  <2>1. \/ Leave(r)
        \/ \E pc : Goto(r, pc)
        \/ \E pc, path, target, held : Resume(r, pc, path, target, held)
        \/ \E v : req' = [req EXCEPT ![r].pc = "acquire", ![r].ver = v]
    <3>1. CASE Gate(r) \/ ReadVersion(r) \/ TurnedAway(r) \/ TakeLock(r) \/ Rollback(r)
      BY <3>1, Zenon DEF Gate, ReadVersion, TurnedAway, TakeLock, Rollback
    <3>2. CASE \/ ResumeApprove(r) \/ ResumeReject(r) \/ ResumeRejectNoDraft(r)
               \/ ResumeRejectFresh(r) \/ (\E path \in {"order", "support"} : ResumeUnread(r, path))
               \/ JoinRun(r) \/ DecideWithoutRun(r) \/ ApplyEdit(r) \/ LoseDecision(r)
      BY <3>2, Zenon DEF ResumeApprove, ResumeReject, ResumeRejectNoDraft, ResumeRejectFresh,
         ResumeUnread, JoinRun, DecideWithoutRun, ApplyEdit, LoseDecision
    <3>3. CASE \/ RejectFresh(r) \/ GuardCheckpoint(r) \/ FirstCommit(r)
               \/ RunExecute(r) \/ RunInsertOrder(r) \/ RunNoOrder(r) \/ RunCancel(r)
               \/ (\E keep \in BOOLEAN : RunRepause(r, keep) \/ RunReuse(r, keep))
               \/ RunSupport(r) \/ RunMaxed(r) \/ Finish(r) \/ Abort(r)
      BY <3>3, Zenon DEF RejectFresh, GuardCheckpoint, FirstCommit, RunExecute, RunInsertOrder,
         RunNoOrder, RunCancel, RunRepause, RunReuse, RunSupport, RunMaxed, Finish, Abort
    <3> QED  BY <3>1, <3>2, <3>3 DEF Transaction, ResumedRun
  <2> QED  BY <2>1, OthersAreKept
<1>3. done' = done \/ CommitDecision(r)
  BY DEF Transaction, ResumedRun, Gate, ReadVersion, TurnedAway, TakeLock, Rollback,
       ResumeApprove, ResumeReject, ResumeRejectNoDraft, ResumeRejectFresh, ResumeUnread,
       JoinRun, DecideWithoutRun, ApplyEdit, RejectFresh, GuardCheckpoint, FirstCommit,
       LoseDecision, RunExecute, RunInsertOrder, RunNoOrder, RunCancel, RunRepause, RunReuse,
       RunSupport, RunMaxed, Finish, Abort, dbVars
<1>4. ASSUME NEW t \in Session, t # s  PROVE Same(t)
  <2>1. cp'[t] = cp[t]
    <3>1. \/ cp' = cp \/ \E c : cp' = [cp EXCEPT ![s] = c]
      BY <1>0 DEF Transaction, ResumedRun, Gate, ReadVersion, TurnedAway, TakeLock, Rollback,
       ResumeApprove, ResumeReject, ResumeRejectNoDraft, ResumeRejectFresh, ResumeUnread,
       JoinRun, DecideWithoutRun, ApplyEdit, RejectFresh, GuardCheckpoint, FirstCommit,
       LoseDecision, RunExecute, RunInsertOrder, RunNoOrder, RunCancel, RunRepause, RunReuse,
       RunSupport, RunMaxed, Finish, Abort, RunCheckpoint, LastCheckpoint
    <3> QED  BY <1>4, <3>1 DEF TypeOK
  <2>2. \A d : d.session = t => (d \in done' <=> d \in done)
    BY <1>3, <1>4, CommitIs
  <2>3. \A m \in Msg : SessionOf[m] = t => msg'[m] = msg[m]
    <3>1. CASE Drain(s)
      BY <1>4, <3>1 DEF Drain, QueuedIn
    <3>2. msg' = msg \/ Drain(s)
      BY <1>0 DEF Transaction, ResumedRun, Gate, ReadVersion, TurnedAway, TakeLock, Rollback,
       ResumeApprove, ResumeReject, ResumeRejectNoDraft, ResumeRejectFresh, ResumeUnread,
       JoinRun, DecideWithoutRun, ApplyEdit, RejectFresh, GuardCheckpoint, FirstCommit,
       LoseDecision, RunExecute, RunInsertOrder, RunNoOrder, RunCancel, RunRepause, RunReuse,
       RunSupport, RunMaxed, Finish, Abort, dbVars
    <3> QED  BY <3>1, <3>2
  <2>4. \A x \in Reviewer : Own(x, t) \/ Own(x, t)' => req'[x] = req[x]
    BY <1>2, <1>4 DEF Own
  <2> QED  BY <1>1, <1>4, <2>1, <2>2, <2>3, <2>4, RowsElsewhere DEF Same
<1> QED  BY <1>1, <1>2, <1>3, <1>4 DEF Elsewhere

LEMMA RequestInFlight ==
  ASSUME TypeOK, NEW r \in Reviewer, Transaction(r) \/ ResumedRun(r)
  PROVE  \E s \in Session : Own(r, s)
<1>1. req[r].pc # "idle"
  BY DEF Transaction, ResumedRun, Gate, ReadVersion, TurnedAway, TakeLock, Rollback,
       ResumeApprove, ResumeReject, ResumeRejectNoDraft, ResumeRejectFresh, ResumeUnread,
       JoinRun, DecideWithoutRun, ApplyEdit, RejectFresh, GuardCheckpoint, FirstCommit,
       LoseDecision, RunExecute, RunInsertOrder, RunNoOrder, RunCancel, RunRepause, RunReuse,
       RunSupport, RunMaxed, Finish, Abort, Replayed, Conflict, Reruns, OnPath, Resumed
<1> QED  BY <1>1, InFlightRequest DEF Own, Request

-----------------------------------------------------------------------------
(* What was placed stays.                                                    *)

Stays(s) ==
  "overlap" \notin env =>
    \A i \in Index : draft[<<s, i>>] = "confirmed" => draft'[<<s, i>>] = "confirmed"

LEMMA BaseAfter ==
  ASSUME TypeOK, TypeOK', NEW r \in Reviewer, NEW s \in Session, Own(r, s), Base(s),
         \A x \in Reviewer : Own(x, s) => x = r,
         \A x \in Reviewer : x # r => req'[x] = req[x],
         \/ req'[r].pc = "idle"
         \/ /\ req'[r].session = s /\ req'[r].idx = req[r].idx
            /\ req'[r].target <= made'[s] /\ req'[r].held <= made'[s],
         made[s] <= made'[s], cp'[s].target <= made'[s], cp'[s].held <= made'[s],
         \A d \in done' : d \in done \/ (d.session = s /\ d.idx = req[r].idx),
         \A i \in Index :
           /\ status'[<<s, i>>] = "none" <=> made'[s] < i
           /\ draft'[<<s, i>>] # "none" => i <= made'[s],
         cp'[s].at \in {"interrupted", "midrun"} =>
           (cp'[s].held # None => draft'[<<s, cp'[s].held>>] # "confirmed"),
         req'[r].pc \in InHand =>
           (req'[r].held # None => draft'[<<s, req'[r].held>>] # "confirmed"),
         "overlap" \notin env' => TurnAlone(s)'
  PROVE  Base(s)'
<1>1. made[s] \in Nat /\ made'[s] \in Nat /\ req[r].idx \in Nat
  BY InFlightRequest DEF TypeOK, Own, Request, Index
<1>2. \A d \in done : d.idx \in Nat
  BY DEF TypeOK, Decision, Index
<1>3. \A x \in Reviewer : Own(x, s)' => x = r
  BY DEF Own
<1>4. Cards(s)'
  <2>1. \A d \in done' : d.session = s => d.idx <= made'[s]
    <3>1. req[r].idx <= made[s] /\ \A d \in done : d.session = s => d.idx <= made[s]
      BY DEF Base, Cards
    <3> QED  BY <1>1, <1>2, <3>1
  <2>2. req'[r].pc # "idle" =>
        req'[r].idx <= made'[s] /\ req'[r].target <= made'[s] /\ req'[r].held <= made'[s]
    <3>1. req[r].idx <= made[s]
      BY DEF Base, Cards
    <3> QED  BY <1>1, <3>1
  <2> QED  BY <1>3, <2>1, <2>2 DEF Cards, Own
<1>5. Held(s)'
  BY <1>3 DEF Held, Unplaced
<1> QED  BY <1>4, <1>5 DEF Base

LEMMA CustomerRows ==
  ASSUME TypeOK, TypeOK', NEW m \in Msg, NEW s \in Session, s = SessionOf[m], Customer(m),
         Base(s)
  PROVE  Cards(s)' /\ Held(s)' /\ Stays(s)
<1>0. req' = req /\ done' = done
  BY CustomerElsewhere
<1>1. cp[s] \in Checkpoint /\ made[s] \in Nat /\ None \in 0..MaxPauses
      /\ (\A d \in done : d.idx \in Nat)
  BY DEF TypeOK, Decision, Index, None
<1>2. \A x \in Reviewer : Own(x, s) => /\ req[x].idx \in Nat /\ req[x].target \in Nat
                                       /\ req[x].held \in 0..MaxPauses
  BY InFlightRequest DEF Own, Request, Index
<1>3. cp'[s] = cp[s] \/ (cp'[s].target = None /\ cp'[s].held = None)
  <2>1. \A c \in {Idle, Turn, Interrupted(None)} : c.target = None /\ c.held = None
    <3>1. Idle.target = None /\ Idle.held = None
      BY DEF Idle
    <3>2. Turn.target = None /\ Turn.held = None
      BY DEF Idle, Turn
    <3>3. Interrupted(None).target = None /\ Interrupted(None).held = None
      BY DEF Idle, Interrupted
    <3> QED  BY <3>1, <3>2, <3>3
  <2>2. ASSUME NEW c, cp' = [cp EXCEPT ![s] = c]  PROVE cp'[s] = c
    BY <2>2 DEF TypeOK
  <2>3. \/ cp' = cp
        \/ \E c \in {Idle, Turn, Interrupted(None)} : cp' = [cp EXCEPT ![s] = c]
    BY DEF Customer, Turns, Gateway, Enqueue, TurnEnds, TurnAnswer, TurnSupport, TurnOrder,
       TurnCancel, TurnLookup, TurnInsert
  <2> QED  BY <2>1, <2>2, <2>3
<1>4. CASE TurnInsert(m)
  <2>1. /\ made[s] + 1 \in Index /\ made'[s] = made[s] + 1
        /\ \A i \in Index :
             status'[<<s, i>>] = IF i = made[s] + 1 THEN "paused" ELSE status[<<s, i>>]
        /\ draft'[<<s, made[s] + 1>>] = "pending"
        /\ \A i \in Index : i # made[s] + 1 =>
             \/ draft'[<<s, i>>] = draft[<<s, i>>]
             \/ draft'[<<s, i>>] = "superseded" /\ draft[<<s, i>>] \in {"pending", "confirmed"}
        /\ (\A u \in Reviewer : ~At(u, "finishing", s)) =>
             \A i \in Index : i # made[s] + 1 =>
               \/ draft'[<<s, i>>] = draft[<<s, i>>]
               \/ draft'[<<s, i>>] = "superseded" /\ draft[<<s, i>>] = "pending"
    <3>1. OpenDrafted(s, None, Reviewer)
      BY <1>4 DEF TurnInsert
    <3> QED  BY <1>1, <3>1, Opens
  <2>2. Cards(s)'
    <3>1. \A i \in Index : /\ status'[<<s, i>>] = "none" <=> made'[s] < i
                           /\ draft'[<<s, i>>] # "none" => i <= made'[s]
      BY <1>1, <2>1 DEF Base, Cards, Index
    <3>2. cp'[s].target <= made'[s] /\ cp'[s].held <= made'[s]
      BY <1>1, <1>3, <2>1 DEF Base, Cards, None, Checkpoint
    <3>3. \A x \in Reviewer : Own(x, s)' =>
            req'[x].idx <= made'[s] /\ req'[x].target <= made'[s] /\ req'[x].held <= made'[s]
      BY <1>0, <1>1, <1>2, <2>1 DEF Base, Cards, Own
    <3>4. \A d \in done' : d.session = s => d.idx <= made'[s]
      BY <1>0, <1>1, <2>1 DEF Base, Cards
    <3> QED  BY <3>1, <3>2, <3>3, <3>4 DEF Cards
  <2>3. \A h \in 0..MaxPauses : Unplaced(s, h) =>
          (h # None => draft'[<<s, h>>] # "confirmed")
    BY <2>1 DEF Unplaced, Index, None
  <2>4. Held(s)'
    BY <1>0, <1>1, <1>2, <1>3, <2>3 DEF Base, Held, Unplaced, Own, Checkpoint
  <2>5. Stays(s)
    <3>1. ASSUME "overlap" \notin env  PROVE \A u \in Reviewer : ~At(u, "finishing", s)
      <4>1. Turning(m, s) /\ TurnAlone(s)
        BY <1>4, <3>1 DEF TurnInsert, Turning, Base
      <4> QED  BY <4>1 DEF TurnAlone, At, Own, Resumed
    <3>2. draft[<<s, made[s] + 1>>] # "confirmed"
      BY <1>1, <2>1 DEF Base, Cards
    <3> QED  BY <2>1, <3>1, <3>2 DEF Stays
  <2> QED  BY <2>2, <2>4, <2>5
<1>5. CASE ~TurnInsert(m)
  <2>1. /\ made' = made
        /\ \A i \in Index :
             /\ status'[<<s, i>>] = "none" <=> status[<<s, i>>] = "none"
             /\ draft'[<<s, i>>] # "none" => draft[<<s, i>>] # "none"
             /\ draft'[<<s, i>>] = "confirmed" <=> draft[<<s, i>>] = "confirmed"
    <3>1. CASE TurnCancel(m)
      <4>1. Cancel(s) /\ made' = made
        BY <3>1 DEF TurnCancel, TurnEnds
      <4> QED  BY <4>1, Cancels DEF Open
    <3>2. CASE ~TurnCancel(m)
      BY <1>5, <3>2 DEF Customer, Turns, Gateway, Enqueue, TurnEnds, TurnAnswer, TurnSupport,
         TurnOrder, TurnLookup, dbVars
    <3> QED  BY <3>1, <3>2
  <2>2. cp'[s].target <= made[s] /\ cp'[s].held <= made[s]
    BY <1>1, <1>3 DEF Base, Cards, None, Checkpoint
  <2>3. Cards(s)'
    BY <1>0, <2>1, <2>2 DEF Base, Cards, Own
  <2>4. \A h \in 0..MaxPauses : Unplaced(s, h) =>
          (h # None => draft'[<<s, h>>] # "confirmed")
    BY <2>1 DEF Unplaced, Index, None
  <2>5. Held(s)'
    BY <1>0, <1>1, <1>2, <1>3, <2>4 DEF Base, Held, Unplaced, Own, Checkpoint
  <2> QED  BY <2>1, <2>3, <2>5 DEF Stays
<1> QED  BY <1>4, <1>5

LEMMA CustomerTurns ==
  ASSUME TypeOK, NEW m \in Msg, NEW s \in Session, s = SessionOf[m], Customer(m),
         "overlap" \notin env, TurnAlone(s)
  PROVE  TurnAlone(s)'
<1>0. req' = req
  BY CustomerElsewhere
<1>1. \A n \in Msg : n # m => (Turning(n, s)' <=> Turning(n, s))
  BY DEF Customer, Turns, Gateway, Enqueue, TurnEnds, TurnAnswer, TurnSupport, TurnOrder,
     TurnCancel, TurnLookup, TurnInsert, TypeOK, Turning
<1>2. CASE Gateway(m) /\ ~Blocked(s)
  <2>1. /\ ~(Running(s) \/ InTurn(s)) /\ cp'[s] = Turn
    BY <1>2 DEF Gateway, TypeOK
  <2>2. \A x \in Reviewer : Own(x, s) => req[x].pc \notin Resumed
    BY <2>1 DEF Running, At, Own
  <2>3. \A n \in Msg : ~Turning(n, s)
    BY <2>1 DEF InTurn, Turning
  <2>4. cp'[s].at = "turn"
    BY <2>1 DEF Turn, Idle
  <2> QED  BY <1>0, <1>1, <2>2, <2>3, <2>4 DEF TurnAlone, Own
<1>3. CASE Enqueue(m) \/ (Gateway(m) /\ Blocked(s))
  <2>1. cp' = cp /\ msg'[m] \in {"enqueue", "queued"}
    BY <1>3 DEF Enqueue, Gateway, TypeOK
  <2>2. ~Turning(m, s)'
    BY <2>1 DEF Turning
  <2> QED  BY <1>0, <1>1, <2>1, <2>2 DEF TurnAlone, Own
<1>4. ASSUME Turning(m, s)
      PROVE  /\ \A n \in Msg : n # m => ~Turning(n, s)'
             /\ cp[s].at \in {"idle", "turn"}
             /\ \A x \in Reviewer : Own(x, s)' => req'[x].pc \notin Resumed
  BY <1>0, <1>1, <1>4 DEF TurnAlone, Own
<1>5. CASE Turns(m)
  <2>1. Turning(m, s)
    BY <1>5 DEF Turns, TurnEnds, TurnAnswer, TurnSupport, TurnOrder, TurnCancel, TurnLookup,
       TurnInsert, Turning
  <2>2. CASE TurnLookup(m) /\ PausesIn(s, Open) = {}
    <3>1. cp' = cp
      BY <2>2 DEF TurnLookup
    <3> QED  BY <1>4, <2>1, <3>1 DEF TurnAlone
  <2>3. CASE ~(TurnLookup(m) /\ PausesIn(s, Open) = {})
    <3>1. msg'[m] = "answered"
      BY <1>5, <2>3 DEF Turns, TurnEnds, TurnAnswer, TurnSupport, TurnOrder, TurnCancel,
         TurnLookup, TurnInsert, TypeOK
    <3>2. ~Turning(m, s)'
      BY <3>1 DEF Turning
    <3> QED  BY <1>4, <2>1, <3>2 DEF TurnAlone
  <2> QED  BY <2>2, <2>3
<1> QED  BY <1>2, <1>3, <1>5 DEF Customer, Gateway

LEMMA CustomerBase ==
  ASSUME TypeOK, TypeOK', NEW m \in Msg, NEW s \in Session, s = SessionOf[m], Customer(m),
         Base(s)
  PROVE  Base(s)' /\ Stays(s)
<1>1. env' = env
  BY CustomerElsewhere
<1> QED  BY <1>1, CustomerRows, CustomerTurns DEF Base

LEMMA HeldDraftIs ==
  ASSUME TypeOK, NEW s \in Session, Base(s), cp[s].at \in {"interrupted", "midrun"}
  PROVE  /\ HeldDraft(s) \in 0..MaxPauses /\ HeldDraft(s) <= made[s]
         /\ Unplaced(s, HeldDraft(s))
         /\ HeldDraft(s) # None => HeldDraft(s) \in Index
<1> DEFINE D == {i \in Index : draft[<<s, i>>] = "pending"}
<1>0. HeldDraft(s) = IF cp[s].held # None THEN cp[s].held ELSE Latest(D)
  BY DEF HeldDraft
<1>1. D \in SUBSET Index
  OBVIOUS
<1>2. /\ Latest(D) \in 0..MaxPauses
      /\ D # {} => Latest(D) \in D
      /\ Latest(D) # None => Latest(D) \in Index
  BY <1>1, LatestType
<1>3. D = {} => Latest(D) = None
  BY DEF Latest
<1>4. made[s] \in Nat /\ cp[s].held \in 0..MaxPauses
  BY DEF TypeOK, Checkpoint
<1>5. Latest(D) # None =>
        Latest(D) \in Index /\ draft[<<s, Latest(D)>>] = "pending"
  BY <1>2, <1>3
<1> HIDE DEF D
<1>6. Latest(D) <= made[s]
  BY <1>2, <1>4, <1>5 DEF Base, Cards, None
<1>7. CASE cp[s].held # None
  BY <1>0, <1>4, <1>7 DEF Base, Cards, Held, Unplaced, Index, None
<1>8. CASE cp[s].held = None
  BY <1>0, <1>2, <1>5, <1>6, <1>8 DEF Unplaced
<1> QED  BY <1>7, <1>8

\* What a resume writes into the request, and into the checkpoint.
LEMMA ResumeIs ==
  ASSUME TypeOK, NEW r \in Reviewer, NEW s \in Session, Own(r, s),
         NEW pc, NEW path, NEW target, NEW held, Resume(r, pc, path, target, held)
  PROVE  /\ req'[r].pc = pc /\ req'[r].path = path
         /\ req'[r].target = target /\ req'[r].held = held
         /\ req'[r].session = s /\ req'[r].idx = req[r].idx /\ req'[r].act = req[r].act
<1>0. req[r] \in Request /\ req[r].session = s
  BY InFlightRequest DEF Own
<1>1. req'[r] = [req[r] EXCEPT !.pc = pc, !.path = path, !.target = target, !.held = held]
  BY <1>0 DEF Resume, TypeOK
<1> QED  BY <1>0, <1>1 DEF Request

LEMMA GotoIs ==
  ASSUME TypeOK, NEW r \in Reviewer, NEW s \in Session, Own(r, s), NEW pc, Goto(r, pc)
  PROVE  /\ req'[r].pc = pc /\ req'[r].path = req[r].path
         /\ req'[r].target = req[r].target /\ req'[r].held = req[r].held
         /\ req'[r].session = s /\ req'[r].idx = req[r].idx /\ req'[r].act = req[r].act
<1>0. req[r] \in Request /\ req[r].session = s
  BY InFlightRequest DEF Own
<1>1. req'[r] = [req[r] EXCEPT !.pc = pc]
  BY <1>0 DEF Goto, TypeOK
<1> QED  BY <1>0, <1>1 DEF Request

LEMMA LeaveIs ==
  ASSUME TypeOK, NEW r \in Reviewer, Leave(r)
  PROVE  req'[r].pc = "idle"
BY DEF Leave, NoRequest, TypeOK

LEMMA RunCheckpointIs ==
  ASSUME TypeOK, NEW r \in Reviewer, NEW s \in Session, Own(r, s),
         NEW path, NEW target, NEW held, RunCheckpoint(r, path, target, held)
  PROVE  /\ cp'[s].at = "midrun" /\ cp'[s].path = path
         /\ cp'[s].target = target /\ cp'[s].held = held
BY DEF RunCheckpoint, Own, TypeOK

LEMMA RunEndIs ==
  ASSUME TypeOK, NEW r \in Reviewer, NEW s \in Session, Own(r, s),
         NEW c, LastCheckpoint(r, c), Goto(r, "finishing")
  PROVE  /\ cp'[s] = c /\ req'[r].pc = "finishing"
         /\ req'[r].target = req[r].target /\ req'[r].held = req[r].held
         /\ req'[r].session = s /\ req'[r].idx = req[r].idx /\ req'[r].act = req[r].act
<1>0. req[r] \in Request /\ req[r].session = s
  BY InFlightRequest DEF Own
<1>1. req'[r] = [req[r] EXCEPT !.pc = "finishing"] /\ cp'[s] = c
  BY <1>0 DEF Goto, LastCheckpoint, TypeOK
<1> QED  BY <1>0, <1>1 DEF Request

LEMMA Idles ==
  /\ Idle.at = "idle" /\ Idle.target = None /\ Idle.held = None
  /\ Turn.at = "turn" /\ Turn.target = None /\ Turn.held = None
  /\ \A h : /\ [Idle EXCEPT !.held = h].at = "idle" /\ [Idle EXCEPT !.held = h].target = None
            /\ [Idle EXCEPT !.held = h].held = h
            /\ Interrupted(h).at = "interrupted" /\ Interrupted(h).target = None
            /\ Interrupted(h).held = h
<1>1. Idle.at = "idle" /\ Idle.target = None /\ Idle.held = None
  BY DEF Idle
<1>2. Turn.at = "turn" /\ Turn.target = None /\ Turn.held = None
  BY DEF Idle, Turn
<1>3. ASSUME NEW h
      PROVE  /\ [Idle EXCEPT !.held = h].at = "idle" /\ [Idle EXCEPT !.held = h].target = None
             /\ [Idle EXCEPT !.held = h].held = h
             /\ Interrupted(h).at = "interrupted" /\ Interrupted(h).target = None
             /\ Interrupted(h).held = h
  <2>1. /\ [Idle EXCEPT !.held = h].at = "idle" /\ [Idle EXCEPT !.held = h].target = None
        /\ [Idle EXCEPT !.held = h].held = h
    BY DEF Idle
  <2>2. /\ Interrupted(h).at = "interrupted" /\ Interrupted(h).target = None
        /\ Interrupted(h).held = h
    BY DEF Idle, Interrupted
  <2> QED  BY <2>1, <2>2
<1> QED  BY <1>1, <1>2, <1>3

\* While a turn runs there is nothing for a request to resume.
LEMMA RequestTurns ==
  ASSUME TypeOK, NEW r \in Reviewer, NEW s \in Session, Own(r, s),
         \A x \in Reviewer : Own(x, s) => x = r,
         Transaction(r) \/ ResumedRun(r), TurnAlone(s)
  PROVE  TurnAlone(s)'
<1>0. req[r].session = s /\ req[r] \in Request
  BY InFlightRequest DEF Own
<1>1. msg' = msg \/ Drain(s)
  BY <1>0 DEF Transaction, ResumedRun, Gate, ReadVersion, TurnedAway, TakeLock, Rollback,
   ResumeApprove, ResumeReject, ResumeRejectNoDraft, ResumeRejectFresh, ResumeUnread,
   JoinRun, DecideWithoutRun, ApplyEdit, RejectFresh, GuardCheckpoint, FirstCommit,
   LoseDecision, RunExecute, RunInsertOrder, RunNoOrder, RunCancel, RunRepause, RunReuse,
   RunSupport, RunMaxed, Finish, Abort, dbVars
<1>2. \A m \in Msg : Turning(m, s)' => Turning(m, s)
  BY <1>1 DEF Turning, Drain
<1>3. ASSUME NEW m \in Msg, Turning(m, s)
      PROVE  /\ cp'[s].at \in {"idle", "turn"}
             /\ \A x \in Reviewer : Own(x, s)' => req'[x].pc \notin Resumed
  <2>1. cp[s].at \in {"idle", "turn"} /\ req[r].pc \notin Resumed
    BY <1>3 DEF TurnAlone
  <2>2. \/ Gate(r) \/ ReadVersion(r) \/ TurnedAway(r) \/ TakeLock(r) \/ Rollback(r)
        \/ DecideWithoutRun(r) \/ ApplyEdit(r)
    BY <1>0, <2>1 DEF Transaction, ResumedRun, ResumeApprove, ResumeReject,
       ResumeRejectNoDraft, ResumeRejectFresh, ResumeUnread, Reruns, JoinRun, RejectFresh,
       GuardCheckpoint, FirstCommit, LoseDecision, RunExecute, RunInsertOrder, RunNoOrder,
       RunCancel, RunRepause, RunReuse, RunSupport, RunMaxed, Finish, Abort, OnPath, Resumed
  <2>3. cp'[s].at \in {"idle", "turn"}
    <3>1. CASE ApplyEdit(r)
      <4>1. cp'[s] = [Idle EXCEPT !.held = cp[s].held]
        BY <1>0, <3>1 DEF ApplyEdit, TypeOK
      <4> QED  BY <4>1, Idles
    <3>2. CASE ~ApplyEdit(r)
      BY <2>1, <2>2, <3>2 DEF Gate, ReadVersion, TurnedAway, TakeLock, Rollback,
         DecideWithoutRun
    <3> QED  BY <3>1, <3>2
  <2>4. req'[r].pc \in {"idle", "acquire", "readver", "locked"}
    <3>1. Leave(r) => req'[r].pc = "idle"
      BY LeaveIs
    <3>2. \A pc : Goto(r, pc) => req'[r].pc = pc
      BY GotoIs
    <3>3. ASSUME NEW v, req' = [req EXCEPT ![r].pc = "acquire", ![r].ver = v]
          PROVE  req'[r].pc = "acquire"
      BY <1>0, <3>3 DEF TypeOK, Request
    <3>4. \/ Leave(r) \/ \E pc \in {"acquire", "readver", "locked"} : Goto(r, pc)
          \/ \E v : req' = [req EXCEPT ![r].pc = "acquire", ![r].ver = v]
      BY <2>2, Zenon DEF Gate, ReadVersion, TurnedAway, TakeLock, Rollback, ApplyEdit,
         DecideWithoutRun
    <3> QED  BY <3>1, <3>2, <3>3, <3>4
  <2>5. \A x \in Reviewer : Own(x, s)' => x = r
    BY RequestElsewhere DEF Own
  <2> QED  BY <2>3, <2>4, <2>5 DEF Resumed
<1>4. \A m, n \in Msg : Turning(m, s)' /\ Turning(n, s)' => n = m
  BY <1>2 DEF TurnAlone
<1> QED  BY <1>2, <1>3, <1>4 DEF TurnAlone

LEMMA RequestBase ==
  ASSUME TypeOK, TypeOK', NEW r \in Reviewer, NEW s \in Session, Own(r, s), Base(s),
         \A x \in Reviewer : Own(x, s) => x = r,
         Transaction(r) \/ ResumedRun(r)
  PROVE  Base(s)' /\ Stays(s)
<1> DEFINE q == req[r]
<1>0. /\ q \in Request /\ q.session = s /\ q.idx \in Index /\ q.idx <= made[s]
      /\ q.target \in 0..MaxPauses /\ q.target <= made[s]
      /\ q.held \in 0..MaxPauses /\ q.held <= made[s]
      /\ q.pc \in InHand => Unplaced(s, q.held)
  BY InFlightRequest DEF Own, Request, Base, Cards, Held
<1>1. /\ made[s] \in Nat /\ cp[s] \in Checkpoint /\ None \in 0..MaxPauses
      /\ cp[s].target \in 0..MaxPauses /\ cp[s].held \in 0..MaxPauses
      /\ cp[s].target <= made[s] /\ cp[s].held <= made[s]
      /\ cp[s].at \in {"interrupted", "midrun"} => Unplaced(s, cp[s].held)
  BY DEF TypeOK, Checkpoint, None, Base, Cards, Held
<1>2. /\ \A x \in Reviewer : x # r => req'[x] = req[x]
      /\ env' = env /\ (done' = done \/ CommitDecision(r))
      /\ \/ req'[r].pc = "idle"
         \/ req'[r].session = s /\ req'[r].idx = req[r].idx /\ req'[r].act = req[r].act
  BY RequestElsewhere
<1>3. \A d \in done' : d \in done \/ (d.session = s /\ d.idx = q.idx)
  <2>1. CASE done' = done
    BY <2>1
  <2>2. CASE CommitDecision(r)
    BY <2>2, CommitIs
  <2> QED  BY <1>2, <2>1, <2>2
<1>t. "overlap" \notin env' => TurnAlone(s)'
  BY <1>2, RequestTurns DEF Base
<1> DEFINE Rows == /\ made[s] <= made'[s]
                   /\ \A i \in Index : /\ status'[<<s, i>>] = "none" <=> made'[s] < i
                                       /\ draft'[<<s, i>>] # "none" => i <= made'[s]
           Todo == /\ cp'[s].target <= made'[s] /\ cp'[s].held <= made'[s]
                   /\ cp'[s].at \in {"interrupted", "midrun"} =>
                        (cp'[s].held # None => draft'[<<s, cp'[s].held>>] # "confirmed")
           Run == /\ req'[r].pc # "idle" =>
                       req'[r].target <= made'[s] /\ req'[r].held <= made'[s]
                  /\ req'[r].pc \in InHand =>
                       (req'[r].held # None => draft'[<<s, req'[r].held>>] # "confirmed")
<1> HIDE DEF q
<1>4. SUFFICES Rows /\ Todo /\ Run /\ Stays(s)
  <2>1. ASSUME Rows, Todo, Run  PROVE Base(s)'
    BY <1>0, <1>2, <1>3, <1>t, <2>1, BaseAfter DEF q, InHand, Resumed
  <2> QED  BY <2>1
\* The rows are as they were ...
<1>5. CASE \/ Gate(r) \/ ReadVersion(r) \/ TurnedAway(r) \/ TakeLock(r) \/ Rollback(r)
           \/ ApplyEdit(r) \/ DecideWithoutRun(r) \/ Finish(r) \/ Abort(r)
  <2>1. made' = made /\ draft' = draft
    BY <1>5 DEF Gate, ReadVersion, TurnedAway, TakeLock, Rollback, ApplyEdit, DecideWithoutRun,
       Finish, Abort, dbVars
  <2>2. \A i \in Index : status'[<<s, i>>] = "none" <=> status[<<s, i>>] = "none"
    <3>1. CASE status' = status
      BY <3>1
    <3>2. CASE status' = [status EXCEPT ![<<s, q.idx>>] = Verdict(q.act)]
      <4>1. status[<<s, q.idx>>] # "none" /\ Verdict(q.act) # "none"
        BY <1>0, <1>1 DEF Base, Cards, Verdict, Index
      <4> QED  BY <3>2, <4>1 DEF TypeOK, Pause
    <3> QED  BY <1>0, <1>5, <3>1, <3>2 DEF q, Gate, ReadVersion, TurnedAway, TakeLock, Rollback,
           ApplyEdit, DecideWithoutRun, Finish, Abort, dbVars
  <2>3. \/ cp'[s] = cp[s]
        \/ cp'[s].at = "idle" /\ cp'[s].target = None /\ cp'[s].held = cp[s].held
    <3>1. CASE ApplyEdit(r)
      <4>1. cp'[s] = [Idle EXCEPT !.held = cp[s].held]
        BY <1>0, <3>1 DEF ApplyEdit, q, TypeOK
      <4> QED  BY <4>1, Idles
    <3>2. CASE ~ApplyEdit(r)
      BY <1>5, <3>2 DEF Gate, ReadVersion, TurnedAway, TakeLock, Rollback, DecideWithoutRun,
         Finish, Abort
    <3> QED  BY <3>1, <3>2
  <2>4. \/ req'[r].pc = "idle"
        \/ req'[r].pc \notin InHand /\ req'[r].target = q.target /\ req'[r].held = q.held
    <3>1. Leave(r) => req'[r].pc = "idle"
      BY LeaveIs
    <3>2. ASSUME NEW pc \in {"acquire", "readver", "locked"}, Goto(r, pc)
          PROVE  req'[r].pc \notin InHand /\ req'[r].target = q.target /\ req'[r].held = q.held
      BY <3>2, GotoIs DEF q, InHand, Resumed
    <3>3. ASSUME NEW v, req' = [req EXCEPT ![r].pc = "acquire", ![r].ver = v]
          PROVE  req'[r].pc \notin InHand /\ req'[r].target = q.target /\ req'[r].held = q.held
      BY <1>0, <3>3 DEF q, TypeOK, Request, InHand, Resumed
    <3>4. \/ Leave(r) \/ \E pc \in {"acquire", "readver", "locked"} : Goto(r, pc)
          \/ \E v : req' = [req EXCEPT ![r].pc = "acquire", ![r].ver = v]
      BY <1>5, Zenon DEF Gate, ReadVersion, TurnedAway, TakeLock, Rollback, ApplyEdit,
         DecideWithoutRun, Finish, Abort
    <3> QED  BY <3>1, <3>2, <3>3, <3>4
  <2>5. Rows
    BY <1>1, <2>1, <2>2 DEF Base, Cards
  <2>6. Todo
    BY <1>1, <2>1, <2>3 DEF Unplaced, None
  <2>7. Run
    BY <1>0, <2>1, <2>4 DEF InHand, Resumed
  <2> QED  BY <2>1, <2>5, <2>6, <2>7 DEF Stays
\* ... or a run is told what to act on ...
<1>6. ASSUME made' = made, draft' = draft,
             \A i \in Index : status'[<<s, i>>] = "none" <=> status[<<s, i>>] = "none",
             NEW target, NEW held, target <= made[s], held <= made[s], Unplaced(s, held),
             req'[r].target = target, req'[r].held = held,
             cp'[s] = cp[s] \/ (cp'[s].target = target /\ cp'[s].held = held)
      PROVE  Rows /\ Todo /\ Run /\ Stays(s)
  <2>1. Rows
    BY <1>1, <1>6 DEF Base, Cards
  <2>2. Todo /\ Run
    BY <1>1, <1>6 DEF Unplaced
  <2> QED  BY <1>6, <2>1, <2>2 DEF Stays
<1>7. CASE ResumeApprove(r)
  <2> DEFINE O == PausesIn(s, Open) \cup {q.idx}
             p == Latest(O)
  <2>1. O \in SUBSET Index /\ O # {} /\ \A i \in O : i <= made[s] /\ status[<<s, i>>] # "none"
    BY <1>0, <1>1 DEF PausesIn, Open, Base, Cards, Index
  <2>2. p \in O /\ p \in 0..MaxPauses
    BY <2>1, LatestType
  <2>3. /\ status' = [status EXCEPT ![<<s, q.idx>>] = "resuming", ![<<s, p>>] = "approved"]
        /\ Resume(r, "guarded", "order", p, HeldDraft(s))
        /\ cp[s].at = "interrupted" /\ made' = made /\ draft' = draft /\ cp' = cp
    BY <1>0, <1>7 DEF ResumeApprove, Reruns, q
  <2>4. p <= made[s] /\ status[<<s, p>>] # "none" /\ status[<<s, q.idx>>] # "none"
    BY <1>0, <2>1, <2>2
  <2> HIDE DEF O, p
  <2>5. \A i \in Index : status'[<<s, i>>] = "none" <=> status[<<s, i>>] = "none"
    BY <2>3, <2>4 DEF TypeOK, Pause
  <2>6. HeldDraft(s) <= made[s] /\ Unplaced(s, HeldDraft(s))
    BY <2>3, HeldDraftIs
  <2>7. req'[r].target = p /\ req'[r].held = HeldDraft(s)
    BY <2>3, ResumeIs
  <2> QED  BY <1>6, <2>3, <2>4, <2>5, <2>6, <2>7
<1>8. CASE ResumeRejectNoDraft(r)
  <2> DEFINE O == PausesIn(s, Open)
             p == Latest(O)
  <2>1. O \in SUBSET Index /\ \A i \in O : i <= made[s]
    BY <1>1 DEF PausesIn, Open, Base, Cards, Index
  <2>2. /\ p # None /\ Resume(r, "joined", "support", p, None)
        /\ RunCheckpoint(r, "support", p, None)
        /\ made' = made /\ draft' = draft /\ status' = status
    BY <1>0, <1>8 DEF ResumeRejectNoDraft, q, dbVars
  <2>3. p \in O
    <3>1. O # {}
      BY <2>2 DEF Latest
    <3> QED  BY <2>1, <3>1, LatestType
  <2>4. p <= made[s]
    BY <2>1, <2>3
  <2> HIDE DEF O, p
  <2>5. /\ req'[r].target = p /\ req'[r].held = None
        /\ cp'[s].target = p /\ cp'[s].held = None
    BY <2>2, ResumeIs, RunCheckpointIs
  <2>6. Unplaced(s, None) /\ None <= made[s]
    BY <1>1 DEF Unplaced, None
  <2> QED  BY <1>6, <2>2, <2>4, <2>5, <2>6
<1>9. ASSUME NEW path \in {"order", "support"}, ResumeUnread(r, path)
      PROVE  Rows /\ Todo /\ Run /\ Stays(s)
  <2>1. /\ Resume(r, "joined", path, None, cp[s].held) /\ RunCheckpoint(r, path, None, cp[s].held)
        /\ made' = made /\ draft' = draft /\ status' = status /\ cp[s].at = "interrupted"
    BY <1>0, <1>9 DEF ResumeUnread, Reruns, q, dbVars
  <2>2. /\ req'[r].target = None /\ req'[r].held = cp[s].held
        /\ cp'[s].target = None /\ cp'[s].held = cp[s].held
    BY <2>1, ResumeIs, RunCheckpointIs
  <2>3. None <= made[s]
    BY <1>1 DEF None
  <2> QED  BY <1>1, <1>6, <2>1, <2>2, <2>3
<1>10. CASE JoinRun(r)
  <2>1. /\ Resume(r, "joined", cp[s].path, cp[s].target, cp[s].held)
        /\ made' = made /\ draft' = draft /\ status' = status /\ cp' = cp
        /\ cp[s].at = "midrun"
    BY <1>0, <1>10 DEF JoinRun, q, dbVars
  <2>2. req'[r].target = cp[s].target /\ req'[r].held = cp[s].held
    BY <2>1, ResumeIs
  <2> QED  BY <1>1, <1>6, <2>1, <2>2
<1>11. CASE GuardCheckpoint(r) \/ LoseDecision(r)
  <2>1. /\ made' = made /\ draft' = draft /\ status' = status /\ q.pc \in InHand
        /\ \E path : RunCheckpoint(r, path, q.target, q.held)
        /\ Goto(r, "running") \/ Resume(r, "running", "support", q.target, q.held)
    BY <1>11, Zenon DEF GuardCheckpoint, LoseDecision, q, dbVars, InHand, Resumed
  <2>2. /\ req'[r].target = q.target /\ req'[r].held = q.held
        /\ cp'[s].target = q.target /\ cp'[s].held = q.held
    BY <2>1, GotoIs, ResumeIs, RunCheckpointIs DEF q
  <2> QED  BY <1>0, <1>6, <2>1, <2>2
<1>12. CASE FirstCommit(r)
  <2>1. /\ made' = made /\ draft' = draft /\ q.pc \in InHand /\ cp' = cp /\ Goto(r, "running")
        /\ status' = status \/ status' = [status EXCEPT ![<<s, q.idx>>] = "resuming"]
    BY <1>0, <1>12 DEF FirstCommit, q, InHand, Resumed
  <2>2. status[<<s, q.idx>>] # "none"
    BY <1>0, <1>1 DEF Base, Cards, Index
  <2>3. \A i \in Index : status'[<<s, i>>] = "none" <=> status[<<s, i>>] = "none"
    BY <2>1, <2>2 DEF TypeOK, Pause
  <2>4. req'[r].target = q.target /\ req'[r].held = q.held
    BY <2>1, GotoIs DEF q
  <2> QED  BY <1>0, <1>6, <2>1, <2>3, <2>4
\* ... or a rejection withdraws the draft at hand ...
<1>13. ASSUME made' = made, status' = status, cp' = cp,
              NEW target, NEW h \in 0..MaxPauses, target <= made[s], h <= made[s],
              Unplaced(s, h), draft' = [draft EXCEPT ![<<s, h>>] = "cancelled"],
              req'[r].target = target, req'[r].held = h
       PROVE  Rows /\ Todo /\ Run /\ Stays(s)
  <2>1. \A i \in Index : draft'[<<s, i>>] = IF i = h THEN "cancelled" ELSE draft[<<s, i>>]
    BY <1>13 DEF TypeOK, Pause
  <2>2. Rows
    BY <1>1, <1>13, <2>1 DEF Base, Cards
  <2>3. Todo /\ Run
    BY <1>1, <1>13, <2>1 DEF Unplaced, Index, None
  <2>4. Stays(s)
    BY <1>13, <2>1 DEF Stays, Unplaced, Index, None
  <2> QED  BY <2>2, <2>3, <2>4
<1>14. CASE ResumeReject(r)
  <2> DEFINE O == PausesIn(s, Open)
             p == Latest(O)
             h == HeldDraft(s)
  <2>1. O \in SUBSET Index /\ \A i \in O : i <= made[s]
    BY <1>1 DEF PausesIn, Open, Base, Cards, Index
  <2>2. /\ p # None /\ Resume(r, "guarded", "support", p, h) /\ cp[s].at = "interrupted"
        /\ draft' = [draft EXCEPT ![<<s, h>>] = "cancelled"]
        /\ made' = made /\ cp' = cp /\ status' = status
    BY <1>0, <1>14 DEF ResumeReject, Reruns, q
  <2>3. p \in O
    <3>1. O # {}
      BY <2>2 DEF Latest
    <3> QED  BY <2>1, <3>1, LatestType
  <2>4. p <= made[s]
    BY <2>1, <2>3
  <2>5. h \in 0..MaxPauses /\ h <= made[s] /\ Unplaced(s, h)
    BY <2>2, HeldDraftIs
  <2> HIDE DEF O, p, h
  <2>6. req'[r].target = p /\ req'[r].held = h
    BY <2>2, ResumeIs
  <2> QED  BY <1>13, <2>2, <2>4, <2>5, <2>6
<1>15. CASE RejectFresh(r)
  <2>1. /\ made' = made /\ status' = status /\ cp' = cp /\ q.pc \in InHand
        /\ draft' = [draft EXCEPT ![<<s, q.held>>] = "cancelled"] /\ Goto(r, "guarded")
    BY <1>0, <1>15 DEF RejectFresh, q, InHand, Resumed
  <2>2. req'[r].target = q.target /\ req'[r].held = q.held
    BY <2>1, GotoIs DEF q
  <2> QED  BY <1>0, <1>13, <2>1, <2>2
\* ... or a fresh pause is opened ...
<1>16. ASSUME NEW h \in 0..MaxPauses, OpenDrafted(s, h, Reviewer \ {r})
       PROVE  /\ Rows /\ Stays(s) /\ made'[s] = made[s] + 1 /\ made'[s] \in Index
              /\ draft'[<<s, made'[s]>>] = "pending"
              /\ \A i \in 0..MaxPauses : i # None /\ i <= made[s] /\ Unplaced(s, i)
                    => draft'[<<s, i>>] # "confirmed"
  <2>1. /\ made[s] + 1 \in Index /\ made'[s] = made[s] + 1
        /\ \A i \in Index :
             status'[<<s, i>>] = IF i = made[s] + 1 THEN "paused" ELSE status[<<s, i>>]
        /\ draft'[<<s, made[s] + 1>>] = "pending"
        /\ (\A u \in Reviewer \ {r} : ~At(u, "finishing", s)) =>
             \A i \in Index : i # made[s] + 1 =>
               \/ draft'[<<s, i>>] = draft[<<s, i>>]
               \/ draft'[<<s, i>>] = "superseded" /\ draft[<<s, i>>] = "pending"
    BY <1>16, Opens
  <2>2. \A u \in Reviewer \ {r} : ~At(u, "finishing", s)
    BY DEF At, Own
  <2>3. \A i \in Index : i # made[s] + 1 =>
          \/ draft'[<<s, i>>] = draft[<<s, i>>]
          \/ draft'[<<s, i>>] = "superseded" /\ draft[<<s, i>>] = "pending"
    BY <2>1, <2>2
  <2>4. Rows
    BY <1>1, <2>1, <2>3 DEF Base, Cards, Index
  <2>5. Stays(s)
    BY <1>1, <2>1, <2>3 DEF Base, Cards, Stays, Index
  <2>6. \A i \in 0..MaxPauses : i # None /\ i <= made[s] /\ Unplaced(s, i)
          => draft'[<<s, i>>] # "confirmed"
    BY <1>1, <2>1, <2>3 DEF Unplaced, Index, None
  <2> QED  BY <2>1, <2>4, <2>5, <2>6
<1>17. CASE ResumeRejectFresh(r)
  <2>1. /\ OpenDrafted(s, cp[s].held, Reviewer \ {r}) /\ cp' = cp /\ cp[s].at = "interrupted"
        /\ Resume(r, "fresh", "support", made[s] + 1, made[s] + 1)
    BY <1>0, <1>17 DEF ResumeRejectFresh, Reruns, q
  <2>2. req'[r].target = made[s] + 1 /\ req'[r].held = made[s] + 1
    BY <2>1, ResumeIs
  <2>3. /\ Rows /\ Stays(s) /\ made'[s] = made[s] + 1 /\ draft'[<<s, made'[s]>>] = "pending"
        /\ \A i \in 0..MaxPauses : i # None /\ i <= made[s] /\ Unplaced(s, i)
             => draft'[<<s, i>>] # "confirmed"
    BY <1>1, <1>16, <2>1
  <2>4. Todo /\ Run
    BY <1>1, <2>1, <2>2, <2>3
  <2> QED  BY <2>3, <2>4
<1>18. ASSUME NEW keep \in BOOLEAN, RunRepause(r, keep)
       PROVE  Rows /\ Todo /\ Run /\ Stays(s)
  <2>1. PICK h \in {q.held, None} :
          /\ OpenDrafted(s, h, Reviewer \ {r})
          /\ LastCheckpoint(r, Interrupted(h)) /\ Goto(r, "finishing") /\ q.pc = "running"
    BY <1>0, <1>18 DEF RunRepause, OnPath, q
  <2>2. h \in 0..MaxPauses /\ h <= made[s] /\ Unplaced(s, h)
    BY <1>0, <1>1, <2>1 DEF Unplaced, None, InHand, Resumed
  <2>3. /\ Rows /\ Stays(s) /\ made'[s] = made[s] + 1
        /\ \A i \in 0..MaxPauses : i # None /\ i <= made[s] /\ Unplaced(s, i)
             => draft'[<<s, i>>] # "confirmed"
    BY <1>16, <2>1, <2>2
  <2>4. /\ cp'[s].target = None /\ cp'[s].held = h
        /\ req'[r].pc = "finishing" /\ req'[r].target = q.target /\ req'[r].held = q.held
    BY <2>1, RunEndIs, Idles DEF q
  <2>5. Todo
    BY <1>1, <2>2, <2>3, <2>4 DEF None
  <2>6. Run
    BY <1>0, <1>1, <2>3, <2>4 DEF InHand
  <2> QED  BY <2>3, <2>5, <2>6
\* ... or a run writes its last checkpoint.
<1>19. ASSUME NEW h \in {None, q.held}, NEW c \in {Idle, [Idle EXCEPT !.held = q.held],
                                                   Interrupted(h)},
              LastCheckpoint(r, c), Goto(r, "finishing"), q.pc = "running", made' = made, Rows,
              q.held # None /\ draft'[<<s, q.held>>] = "confirmed" => c.at = "idle"
       PROVE  Todo /\ Run
  <2>1. c.target = None /\ c.held \in {None, q.held} /\ c.at \in {"idle", "interrupted"}
    <3>1. c = Idle \/ c = [Idle EXCEPT !.held = q.held] \/ c = Interrupted(h)
      BY <1>19
    <3>2. CASE c = Idle
      BY <3>2, Idles
    <3>3. CASE c = [Idle EXCEPT !.held = q.held]
      BY <3>3, Idles
    <3>4. CASE c = Interrupted(h)
      BY <1>19, <3>4, Idles
    <3> QED  BY <3>1, <3>2, <3>3, <3>4
  <2>2. /\ cp'[s] = c
        /\ req'[r].pc = "finishing" /\ req'[r].target = q.target /\ req'[r].held = q.held
    BY <1>19, RunEndIs DEF q
  <2> QED  BY <1>0, <1>1, <1>19, <2>1, <2>2 DEF None, InHand
<1>20. CASE \/ RunInsertOrder(r) \/ RunNoOrder(r) \/ RunMaxed(r)
            \/ \E keep \in BOOLEAN : RunReuse(r, keep)
  <2>1. made' = made /\ draft' = draft /\ status' = status
    BY <1>20 DEF RunInsertOrder, RunNoOrder, RunMaxed, RunReuse, dbVars
  <2>2. Rows /\ Stays(s)
    BY <1>1, <2>1 DEF Base, Cards, Stays
  <2>3. PICK h \in {None, q.held} :
          \E c \in {Idle, [Idle EXCEPT !.held = q.held], Interrupted(h)} :
            LastCheckpoint(r, c) /\ Goto(r, "finishing") /\ q.pc = "running"
    <3>1. CASE RunInsertOrder(r) \/ RunNoOrder(r) \/ RunMaxed(r)
      BY <3>1 DEF RunInsertOrder, RunNoOrder, RunMaxed, OnPath, q
    <3>2. ASSUME NEW keep \in BOOLEAN, RunReuse(r, keep)
          PROVE  \E h \in {None, q.held} :
                   LastCheckpoint(r, Interrupted(h)) /\ Goto(r, "finishing") /\ q.pc = "running"
      BY <3>2 DEF RunReuse, OnPath, q
    <3> QED  BY <1>20, <3>1, <3>2
  <2>4. Unplaced(s, q.held)
    BY <1>0, <2>3 DEF InHand, Resumed
  <2> QED  BY <1>19, <2>1, <2>2, <2>3, <2>4 DEF Unplaced
<1>21. CASE RunExecute(r)
  <2>1. /\ made' = made /\ status' = status /\ q.held # None
        /\ draft[<<s, q.held>>] = "pending"
        /\ draft' = [draft EXCEPT ![<<s, q.held>>] = "confirmed"]
        /\ LastCheckpoint(r, [Idle EXCEPT !.held = q.held]) /\ Goto(r, "finishing")
        /\ q.pc = "running"
    BY <1>0, <1>21 DEF RunExecute, OnPath, q
  <2>2. \A i \in Index :
          draft'[<<s, i>>] = IF i = q.held THEN "confirmed" ELSE draft[<<s, i>>]
    BY <2>1 DEF TypeOK, Pause
  <2>3. Rows /\ Stays(s)
    BY <1>0, <1>1, <2>1, <2>2 DEF Base, Cards, Stays
  <2> QED  BY <1>19, <2>1, <2>3, Idles
<1>22. CASE RunCancel(r)
  <2>1. /\ made' = made /\ Cancel(s)
        /\ LastCheckpoint(r, [Idle EXCEPT !.held = q.held]) /\ Goto(r, "finishing")
        /\ q.pc = "running"
    BY <1>0, <1>22 DEF RunCancel, OnPath, q
  <2>2. /\ \A i \in Index : draft[<<s, i>>] # "confirmed"
        /\ \A t \in Session, i \in Index :
             /\ draft'[<<t, i>>] = IF t = s /\ draft[<<t, i>>] = "pending" THEN "cancelled"
                                   ELSE draft[<<t, i>>]
             /\ status'[<<t, i>>] = IF t = s /\ status[<<t, i>>] \in Open THEN "cancelled"
                                    ELSE status[<<t, i>>]
    BY <2>1, Cancels
  <2>3. Rows
    BY <1>1, <2>1, <2>2 DEF Base, Cards, Open
  <2>4. Stays(s)
    BY <2>2 DEF Stays
  <2> QED  BY <1>19, <2>1, <2>3, <2>4, Idles
<1>23. CASE RunSupport(r)
  <2>1. /\ made' = made /\ draft' = draft
        /\ status' = [p \in Pause |-> IF p = <<s, q.target>> THEN "escalated" ELSE status[p]]
        /\ LastCheckpoint(r, [Idle EXCEPT !.held = q.held]) /\ Goto(r, "finishing")
        /\ q.pc = "running"
    BY <1>0, <1>23 DEF RunSupport, q
  <2>2. \A i \in Index : status'[<<s, i>>]
          = IF i = q.target THEN "escalated" ELSE status[<<s, i>>]
    <3>1. \A i \in Index : <<s, i>> \in Pause /\ (<<s, i>> = <<s, q.target>> <=> i = q.target)
      BY DEF Pause
    <3> QED  BY <2>1, <3>1
  <2>3. Rows /\ Stays(s)
    BY <1>0, <1>1, <2>1, <2>2 DEF Base, Cards, Stays, Index
  <2> QED  BY <1>19, <2>1, <2>3, Idles
<1> QED
  BY <1>5, <1>7, <1>8, <1>9, <1>10, <1>11, <1>12, <1>14, <1>15, <1>17, <1>18, <1>20, <1>21,
     <1>22, <1>23 DEF Transaction, ResumedRun

\* A request arrives: nothing else changes.
LEMMA ClientIs ==
  ASSUME TypeOK, NEW r \in Reviewer, Client(r)
  PROVE  /\ UNCHANGED <<dbVars, cp, msg>> /\ req[r].pc = "idle"
         /\ \A x \in Reviewer : x # r => req'[x] = req[x]
         /\ \E s \in Session, i \in Index :
              /\ i <= made[s] /\ req'[r].pc = "gate" /\ req'[r].session = s /\ req'[r].idx = i
              /\ req'[r].target = None /\ req'[r].held = None
<1>1. ASSUME NEW chan, NEW s \in Session, NEW i \in Index, NEW a, NEW k, NEW v,
             req' = [req EXCEPT ![r] = NewRequest("gate", chan, s, i, a, k, v)]
      PROVE  /\ \A x \in Reviewer : x # r => req'[x] = req[x]
             /\ req'[r].pc = "gate" /\ req'[r].session = s /\ req'[r].idx = i
             /\ req'[r].target = None /\ req'[r].held = None
  BY <1>1 DEF NewRequest, TypeOK
<1>2. ASSUME NEW s \in Session, NEW i \in Index, NEW a, NEW k, NEW v, SubmitRest(r, s, i, a, k, v)
      PROVE  /\ req' = [req EXCEPT ![r] = NewRequest("gate", "rest", s, i, a, k, v)]
             /\ UNCHANGED <<dbVars, cp, msg>> /\ req[r].pc = "idle" /\ i <= made[s]
  BY <1>2 DEF SubmitRest
<1>3. ASSUME NEW s \in Session, NEW i \in Index, NEW a, TapButton(r, s, i, a)
      PROVE  /\ req' = [req EXCEPT ![r] =
                          NewRequest("gate", "telegram", s, i, a, <<s, i, a>>, 0)]
             /\ UNCHANGED <<dbVars, cp, msg>> /\ req[r].pc = "idle" /\ i <= made[s]
  BY <1>3 DEF TapButton
<1>4. CASE \E s \in Session, i \in Index, a \in Act, k \in Key :
             \E v \in 0..version[s] : SubmitRest(r, s, i, a, k, v)
  <2>1. PICK s \in Session, i \in Index, a \in Act, k \in Key :
             \E v \in 0..version[s] : SubmitRest(r, s, i, a, k, v)
    BY <1>4
  <2>2. PICK v \in 0..version[s] : SubmitRest(r, s, i, a, k, v)
    BY <2>1
  <2> QED  BY <1>1, <1>2, <2>2
<1>5. CASE \E s \in Session, i \in Index, a \in Act : TapButton(r, s, i, a)
  <2>1. PICK s \in Session, i \in Index, a \in Act : TapButton(r, s, i, a)
    BY <1>5
  <2>2. /\ req' = [req EXCEPT ![r] = NewRequest("gate", "telegram", s, i, a, <<s, i, a>>, 0)]
        /\ UNCHANGED <<dbVars, cp, msg>> /\ req[r].pc = "idle" /\ i <= made[s]
    BY <1>3, <2>1
  <2>3. /\ \A x \in Reviewer : x # r => req'[x] = req[x]
        /\ req'[r].pc = "gate" /\ req'[r].session = s /\ req'[r].idx = i
        /\ req'[r].target = None /\ req'[r].held = None
    BY <1>1, <2>2
  <2> QED  BY <2>2, <2>3
<1> QED  BY <1>4, <1>5 DEF Client

LEMMA EscalateIs ==
  ASSUME TypeOK, NEW s \in Session, Escalate(s)
  PROVE  /\ Elsewhere(s)
         /\ UNCHANGED <<env, made, draft, done, cp, msg, req>>
         /\ \A i \in Index :
              status'[<<s, i>>] = IF status[<<s, i>>] = "paused" THEN "escalated"
                                  ELSE status[<<s, i>>]
<1>1. /\ UNCHANGED <<env, made, draft, done, cp, msg, req>>
      /\ status' = Restatus(s, {"paused"}, "escalated")
  BY DEF Escalate
<1>2. \A t \in Session, i \in Index :
        status'[<<t, i>>] = IF t = s /\ status[<<s, i>>] \in {"paused"} THEN "escalated"
                            ELSE status[<<t, i>>]
  <2> DEFINE S == {"paused"}
  <2>1. status' = Restatus(s, S, "escalated")
    BY <1>1
  <2> HIDE DEF S
  <2>2. \A t \in Session, i \in Index :
          Restatus(s, S, "escalated")[<<t, i>>]
            = IF t = s /\ status[<<s, i>>] \in S THEN "escalated" ELSE status[<<t, i>>]
    <3>1. \A t \in Session, i \in Index : <<t, i>> \in Pause /\ <<t, i>>[1] = t
      BY DEF Pause
    <3> QED  BY <3>1 DEF Restatus
  <2> QED  BY <2>1, <2>2 DEF S
<1>3. Elsewhere(s)
  BY <1>1, <1>2 DEF Elsewhere, Same
<1> QED  BY <1>1, <1>2, <1>3

LEMMA ClientBase ==
  ASSUME TypeOK, NEW r \in Reviewer, Client(r), NEW t \in Session, Base(t)
  PROVE  Base(t)' /\ Stays(t)
<1>1. /\ env' = env /\ status' = status /\ made' = made /\ draft' = draft /\ done' = done
      /\ cp' = cp /\ msg' = msg
  BY ClientIs DEF dbVars
<1>2. \A x \in Reviewer : x # r => req'[x] = req[x]
  BY ClientIs
<1>3. PICK s \in Session, i \in Index :
        /\ i <= made[s] /\ req'[r].pc = "gate" /\ req'[r].session = s /\ req'[r].idx = i
        /\ req'[r].target = None /\ req'[r].held = None
  BY ClientIs
<1>4. None <= made[t]
  BY DEF TypeOK, None
<1>5. Cards(t)'
  BY <1>1, <1>2, <1>3, <1>4 DEF Base, Cards, Own
<1>6. Held(t)'
  BY <1>1, <1>2, <1>3 DEF Base, Held, Unplaced, Own, InHand, Resumed
<1>7. "overlap" \notin env' => TurnAlone(t)'
  BY <1>1, <1>2, <1>3 DEF Base, TurnAlone, Turning, Own, Resumed
<1> QED  BY <1>1, <1>5, <1>6, <1>7 DEF Base, Stays

\* Step by step: the base is kept, and so is every order placed.
LEMMA BaseStep ==
  ASSUME TypeOK, TypeOK', OneRequestAtATime, \A t \in Session : Base(t), [Next]_vars
  PROVE  \A t \in Session : Base(t)' /\ Stays(t)
<1>1. ASSUME NEW t \in Session, Same(t)  PROVE Base(t)' /\ Stays(t)
  BY <1>1, SameKeepsBase DEF Same, Stays
<1>2. CASE UNCHANGED vars
  <2>1. \A t \in Session : Same(t)
    BY <1>2 DEF Same, vars
  <2> QED  BY <1>1, <2>1
<1>3. ASSUME NEW m \in Msg, Customer(m)
      PROVE  \A t \in Session : Base(t)' /\ Stays(t)
  <2>1. SessionOf[m] \in Session
    OBVIOUS
  <2> QED  BY <1>1, <1>3, <2>1, CustomerElsewhere, CustomerBase DEF Elsewhere
<1>4. ASSUME NEW r \in Reviewer, Transaction(r) \/ ResumedRun(r)
      PROVE  \A t \in Session : Base(t)' /\ Stays(t)
  <2>2. PICK s \in Session : Own(r, s)
    BY <1>4, RequestInFlight
  <2>3. \A x \in Reviewer : Own(x, s) => x = r
    BY <2>2 DEF OneRequestAtATime
  <2>4. Base(s)' /\ Stays(s)
    BY <1>4, <2>2, <2>3, RequestBase
  <2>5. Elsewhere(s)
    BY <1>4, <2>2, RequestElsewhere
  <2> QED  BY <1>1, <2>4, <2>5 DEF Elsewhere
<1>5. ASSUME NEW r \in Reviewer, Client(r)
      PROVE  \A t \in Session : Base(t)' /\ Stays(t)
  BY <1>5, ClientBase
<1>6. ASSUME NEW s \in Session, Escalate(s)
      PROVE  \A t \in Session : Base(t)' /\ Stays(t)
  <2>1. Elsewhere(s)
    BY <1>6, EscalateIs
  <2>2. /\ UNCHANGED <<env, made, draft, done, cp, msg, req>>
        /\ \A i \in Index :
             status'[<<s, i>>] = IF status[<<s, i>>] = "paused" THEN "escalated"
                                 ELSE status[<<s, i>>]
    BY <1>6, EscalateIs
  <2>3. Cards(s)'
    BY <2>2 DEF Base, Cards, Own
  <2>4. Held(s)' /\ Stays(s)
    BY <2>2 DEF Base, Held, Unplaced, Own, Stays
  <2>5. "overlap" \notin env' => TurnAlone(s)'
    BY <2>2 DEF Base, TurnAlone, Turning, Own
  <2> QED  BY <1>1, <2>1, <2>3, <2>4, <2>5 DEF Base, Elsewhere
<1> QED  BY <1>2, <1>3, <1>4, <1>5, <1>6 DEF Next

BaseAlways == \A s \in Session : Base(s)

LEMMA InitBase == Init => BaseAlways
<1> SUFFICES ASSUME Init, NEW s \in Session  PROVE Base(s)
  BY DEF BaseAlways
<1>1. Idle.at = "idle" /\ Idle.target = None /\ Idle.held = None
  BY Idles
<1> QED
  BY <1>1 DEF Init, Base, TurnAlone, Turning, Cards, Held, Own, NoRequest, Index, Pause, None

\* services/hitl/service.py, services/draft_orders.py: an order once placed is never cancelled
\* or superseded, as long as the requests about a session do not overlap, nor its runs.
THEOREM PlacedIsKept == Spec /\ []OneRequestAtATime => ConfirmedStays
<1> DEFINE Kept(p) == "overlap" \notin env /\ draft[p] = "confirmed" => draft'[p] = "confirmed"
<1>1. TypeOK /\ TypeOK' /\ OneRequestAtATime /\ BaseAlways /\ [Next]_vars =>
        BaseAlways' /\ [\A p \in Pause : Kept(p)]_vars
  <2> SUFFICES ASSUME TypeOK, TypeOK', OneRequestAtATime, BaseAlways, [Next]_vars
               PROVE  BaseAlways' /\ \A p \in Pause : Kept(p)
    OBVIOUS
  <2>1. \A s \in Session : Base(s)' /\ Stays(s)
    BY BaseStep DEF BaseAlways
  <2>2. \A s \in Session, i \in Index : Kept(<<s, i>>)
    BY <2>1 DEF Stays
  <2>3. \A p \in Pause : \E s \in Session, i \in Index : p = <<s, i>>
    BY DEF Pause
  <2>4. \A p \in Pause : Kept(p)
    BY <2>2, <2>3
  <2> QED  BY <2>1, <2>4 DEF BaseAlways
<1> QED  BY <1>1, InitBase, TypeCorrect, PTL DEF Spec, ConfirmedStays

-----------------------------------------------------------------------------
(* What is placed was approved under its own pause, and what is paused can be *)
(* decided, as long as orders keep their tier and runs do not overlap.        *)

\* Request r is the only one about session s.
Alone(r, s) ==
  /\ Own(r, s) /\ \A x \in Reviewer : Own(x, s) => x = r
  /\ Steady /\ Base(s) /\ Parts(s)

\* What a step has to keep; a rejection that breaks off is the exception.
Onward(s) == Parts(s)' /\ (Sound(s) => Sound(s)' \/ RejectionBroke(s)')

\* The rows of the newest pause and of those before it.
LEMMA RowsOf ==
  ASSUME TypeOK, NEW s \in Session, Cards(s), OnlyNewest(s)
  PROVE  /\ made[s] \in Nat
         /\ \A i \in Index : i # made[s] => status[<<s, i>>] \in Terminal \cup {"none"}
         /\ \A i \in Index : /\ status[<<s, i>>] # "none" <=> i <= made[s]
                             /\ status[<<s, i>>] \in PauseStatus \ {"cancelled"}
<1>1. made[s] \in Nat
  BY DEF TypeOK
<1>2. \A i \in Index : status[<<s, i>>] \in PauseStatus
  BY DEF TypeOK, Pause
<1> QED  BY <1>1, <1>2 DEF Cards, OnlyNewest, Index

LEMMA AloneIs ==
  ASSUME TypeOK, NEW r \in Reviewer, NEW s \in Session, Alone(r, s)
  PROVE  /\ req[r] \in Request /\ req[r].session = s /\ req[r].pc # "idle"
         /\ req[r].idx \in Index /\ req[r].idx <= made[s] /\ made[s] \in Index
         /\ \A i \in Index : i # made[s] => status[<<s, i>>] \in Terminal \cup {"none"}
         /\ \A i \in Index : status[<<s, i>>] # "cancelled"
         /\ OnlyNewest(s) /\ TurnClear(s) /\ PastGate(s) /\ InStep(s)
         /\ Tasks(s) /\ Guarded(s) /\ Waits(s)
         /\ TurnAlone(s) /\ Cards(s)
<1>1. /\ OnlyNewest(s) /\ TurnClear(s) /\ PastGate(s) /\ InStep(s)
      /\ Tasks(s) /\ Guarded(s) /\ Waits(s)
      /\ TurnAlone(s) /\ Cards(s) /\ Own(r, s)
  BY DEF Alone, Parts, Base, Steady
<1>2. /\ req[r] \in Request /\ req[r].session = s /\ req[r].pc # "idle"
      /\ req[r].idx \in Index /\ req[r].idx <= made[s]
  BY <1>1, InFlightRequest DEF Own, Request, Cards
<1>3. made[s] \in Index
  BY <1>2 DEF TypeOK, Index
<1> QED  BY <1>1, <1>2, <1>3, RowsOf

LEMMA DrainKeepsTurns ==
  ASSUME NEW s \in Session, NEW t, Drain(t) \/ msg' = msg
  PROVE  \A m \in Msg : Turning(m, s)' <=> Turning(m, s)
BY DEF Drain, QueuedIn, Turning

\* A request past its gate, or in its run, has the session to itself.
LEMMA NoTurnThen ==
  ASSUME TypeOK, NEW r \in Reviewer, NEW s \in Session, Alone(r, s),
         req[r].pc \in {"readver", "acquire", "locked"} \cup Resumed
  PROVE  \A m \in Msg : ~Turning(m, s)
<1>0. /\ TurnAlone(s) /\ PastGate(s) /\ TurnClear(s) /\ Own(r, s) /\ req[r].idx \in Index
  BY AloneIs DEF Alone
<1>1. CASE req[r].pc \in Resumed
  BY <1>0, <1>1 DEF TurnAlone
<1>2. CASE req[r].pc \in {"readver", "acquire", "locked"}
  BY <1>0, <1>2 DEF PastGate, TurnClear, Clear
<1> QED  BY <1>1, <1>2

\* A rejection is under way in the session of r exactly if it is r's.
LEMMA RejectingIs ==
  ASSUME NEW r \in Reviewer, NEW s \in Session, \A x \in Reviewer : Own(x, s) => x = r
  PROVE  Rejecting(s) <=> /\ Own(r, s) /\ req[r].pc \in {"fresh", "guarded"}
                          /\ req[r].path = "support"
BY DEF Rejecting

LEMMA OnlyRequest ==
  ASSUME TypeOK, NEW r \in Reviewer, NEW s \in Session, Alone(r, s),
         Transaction(r) \/ ResumedRun(r)
  PROVE  /\ \A x \in Reviewer : Own(x, s)' => x = r
         /\ env' = env
         /\ \A i, act : Decided(<<s, i>>, act) => Decided(<<s, i>>, act)'
         /\ \A i, act : done' = done => (Decided(<<s, i>>, act)' <=> Decided(<<s, i>>, act))
         /\ CommitDecision(r) =>
              \A i, act : Decided(<<s, i>>, act)'
                            <=> Decided(<<s, i>>, act) \/ (i = req[r].idx /\ act = req[r].act)
<1>0. Own(r, s) /\ \A x \in Reviewer : Own(x, s) => x = r
  BY DEF Alone
<1>1. /\ \A x \in Reviewer : x # r => req'[x] = req[x]
      /\ env' = env /\ (done' = done \/ CommitDecision(r))
  BY <1>0, RequestElsewhere
<1>2. \A x \in Reviewer : Own(x, s)' => x = r
  BY <1>0, <1>1 DEF Own
<1>3. CommitDecision(r) =>
        \A i, act : Decided(<<s, i>>, act)'
                      <=> Decided(<<s, i>>, act) \/ (i = req[r].idx /\ act = req[r].act)
  BY <1>0, CommitIs
<1>4. \A i, act : done' = done => (Decided(<<s, i>>, act)' <=> Decided(<<s, i>>, act))
  BY DEF Decided
<1> QED  BY <1>1, <1>2, <1>3, <1>4

\* Nothing of the session changes but the request itself.
LEMMA PassingOnward ==
  ASSUME TypeOK, NEW r \in Reviewer, NEW s \in Session, Alone(r, s),
         \/ Gate(r) \/ ReadVersion(r) \/ TurnedAway(r) \/ TakeLock(r) \/ Rollback(r) \/ Abort(r)
  PROVE  Onward(s)
<1> DEFINE q == req[r]
<1>0. /\ q \in Request /\ q.session = s /\ q.idx \in Index /\ q.idx <= made[s]
      /\ made[s] \in Index
      /\ OnlyNewest(s) /\ TurnClear(s) /\ PastGate(s) /\ InStep(s)
      /\ Tasks(s) /\ Guarded(s) /\ Waits(s) /\ Own(r, s)
      /\ \A x \in Reviewer : Own(x, s) => x = r
  BY AloneIs DEF Alone
<1>a. \A i \in Index : /\ i # made[s] => status[<<s, i>>] \in Terminal \cup {"none"}
                       /\ i <= made[s] => status[<<s, i>>] \in PauseStatus \ {"none", "cancelled"}
  BY RowsOf DEF Alone, Base, Parts
<1>1. /\ status' = status /\ made' = made /\ draft' = draft /\ done' = done /\ cp' = cp
      /\ msg' = msg
  BY DEF Gate, ReadVersion, TurnedAway, TakeLock, Rollback, Abort, dbVars
<1>2. /\ \A x \in Reviewer : Own(x, s)' => x = r
      /\ env' = env
  BY OnlyRequest DEF Transaction, ResumedRun
<1>3. \/ Leave(r)
      \/ /\ \/ \E pc \in {"acquire", "readver", "locked"} : Goto(r, pc)
            \/ \E v : req' = [req EXCEPT ![r].pc = "acquire", ![r].ver = v]
         /\ q.idx = made[s] /\ status[<<s, q.idx>>] \in BlockingStatuses
         /\ q.pc \notin Resumed
  <2>1. CASE TurnedAway(r) \/ Rollback(r) \/ Abort(r)
    BY <2>1 DEF TurnedAway, Rollback, Abort
  <2>2. CASE ReadVersion(r) \/ TakeLock(r)
    <3>1. q.idx = made[s] /\ status[<<s, q.idx>>] \in BlockingStatuses
      BY <1>0, <2>2 DEF ReadVersion, TakeLock, PastGate
    <3> QED  BY <2>2, <3>1 DEF ReadVersion, TakeLock, Resumed
  <2>3. CASE Gate(r)
    <3>1. ASSUME ~Leave(r)
          PROVE  /\ \E pc \in {"acquire", "readver", "locked"} : Goto(r, pc)
                 /\ status[<<s, q.idx>>] \notin Terminal
      BY <1>0, <2>3, <3>1 DEF Gate
    <3>2. ASSUME status[<<s, q.idx>>] \notin Terminal
          PROVE  q.idx = made[s] /\ status[<<s, q.idx>>] \in BlockingStatuses
      BY <1>0, <1>a, <3>2 DEF PauseStatus, Terminal, BlockingStatuses
    <3>3. q.pc \notin Resumed
      BY <2>3 DEF Gate, Resumed
    <3> QED  BY <3>1, <3>2, <3>3
  <2> QED  BY <2>1, <2>2, <2>3
<1>4. \/ req'[r].pc = "idle"
      \/ /\ req'[r].pc \in {"readver", "acquire", "locked"}
         /\ req'[r].session = s /\ req'[r].idx = q.idx
         /\ q.idx = made[s] /\ status[<<s, q.idx>>] \in BlockingStatuses
  <2>1. Leave(r) => req'[r].pc = "idle"
    BY LeaveIs
  <2>2. ASSUME NEW pc, Goto(r, pc)
        PROVE  req'[r].pc = pc /\ req'[r].session = s /\ req'[r].idx = q.idx
    BY <1>0, <2>2, GotoIs
  <2>3. ASSUME NEW v, req' = [req EXCEPT ![r].pc = "acquire", ![r].ver = v]
        PROVE  req'[r].pc = "acquire" /\ req'[r].session = s /\ req'[r].idx = q.idx
    BY <1>0, <2>3 DEF TypeOK, Request
  <2> HIDE DEF q
  <2> QED  BY <1>3, <2>1, <2>2, <2>3
<1>5. PastGate(s)' /\ InStep(s)' /\ Guarded(s)'
  BY <1>1, <1>2, <1>4 DEF PastGate, InStep, Guarded, Own
<1>6. OnlyNewest(s)' /\ Tasks(s)' /\ Waits(s)' /\ TurnClear(s)'
  BY <1>0, <1>1 DEF OnlyNewest, Tasks, Leads, Waits, TurnClear, Turning, Clear, Decided
<1>7. ASSUME Sound(s), ~RejectionBroke(s)'  PROVE Sound(s)'
  <2>1. ~RejectionBroke(s)
    BY <1>1, <1>2, <1>7 DEF RejectionBroke, Decided
  <2>2. ~Rejecting(s)
    <3>1. SUFFICES ASSUME q.pc \in {"fresh", "guarded"}, q.path = "support"  PROVE FALSE
      BY <1>0, RejectingIs
    <3>2. \E i \in Index : Decided(<<s, i>>, "reject")
      BY <1>0, <3>1 DEF Guarded
    <3>3. "fail" \in env
      BY <3>1 DEF Gate, ReadVersion, TurnedAway, Replayed, Conflict, TakeLock, Rollback, Abort
    <3> QED  BY <2>1, <3>2, <3>3 DEF RejectionBroke
  <2>3. Interrupts(s)' /\ Placed(s)'
    BY <1>1, <1>7, <2>2 DEF Sound, Interrupts, Placed, Decided
  <2>4. Approved(s)'
    BY <1>1, <1>2, <1>4, <1>7 DEF Sound, Approved, Right, Decided, Own
  <2> QED  BY <2>3, <2>4 DEF Sound
<1> QED  BY <1>5, <1>6, <1>7 DEF Onward, Parts

\* At the commit of a decision: it is about the newest pause, which is open or escalated.
LEMMA AtCommit ==
  ASSUME TypeOK, NEW r \in Reviewer, NEW s \in Session, Alone(r, s),
         req[r].pc \in {"locked", "joined"}
  PROVE  /\ req[r].idx = made[s] /\ status[<<s, made[s]>>] \in BlockingStatuses
         /\ \A m \in Msg : ~Turning(m, s)
<1>1. \A m \in Msg : ~Turning(m, s)
  BY NoTurnThen DEF Resumed
<1>2. PastGate(s) /\ Own(r, s)
  BY AloneIs DEF Alone
<1> QED  BY <1>1, <1>2 DEF PastGate

\* What follows when the newest pause stays the newest, and no turn runs.
LEMMA NewestStays ==
  ASSUME TypeOK, NEW r \in Reviewer, NEW s \in Session, Alone(r, s),
         made' = made, msg' = msg \/ Drain(s), \A m \in Msg : ~Turning(m, s),
         \A i \in Index : i # made[s] => status'[<<s, i>>] = status[<<s, i>>],
         status'[<<s, made[s]>>] # "cancelled"
  PROVE  OnlyNewest(s)' /\ TurnClear(s)'
<1>1. \A m \in Msg : ~Turning(m, s)'
  BY DrainKeepsTurns
<1>2. OnlyNewest(s) /\ made[s] \in Index
  BY AloneIs
<1>3. OnlyNewest(s)'
  BY <1>2 DEF OnlyNewest, Index
<1> QED  BY <1>1, <1>3 DEF TurnClear

\* A decision that starts no run.
LEMMA DecidedOnward ==
  ASSUME TypeOK, NEW r \in Reviewer, NEW s \in Session, Alone(r, s),
         DecideWithoutRun(r) \/ ApplyEdit(r)
  PROVE  Onward(s)
<1> DEFINE q == req[r]
           n == made[s]
<1>0. /\ q \in Request /\ q.session = s /\ q.idx = n /\ n \in Index
      /\ \A m \in Msg : ~Turning(m, s)
  BY AtCommit, AloneIs DEF DecideWithoutRun, ApplyEdit
<1>1. /\ Waits(s) /\ \A x \in Reviewer : Own(x, s) => x = r
      /\ \A i \in Index : i # n => status[<<s, i>>] \in Terminal \cup {"none"}
      /\ status[<<s, n>>] # "cancelled"
  BY AloneIs DEF Alone
<1>2. \A i, act : Decided(<<s, i>>, act)' <=> Decided(<<s, i>>, act) \/ (i = n /\ act = q.act)
  <2>1. CommitDecision(r) /\ Transaction(r)
    BY DEF DecideWithoutRun, ApplyEdit, Transaction
  <2> QED  BY <1>0, <2>1, OnlyRequest
<1>3. made' = made /\ draft' = draft /\ msg' = msg /\ Leave(r)
  BY DEF DecideWithoutRun, ApplyEdit
<1>4. \A x \in Reviewer : ~Own(x, s)'
  BY <1>1, <1>3, OnlyRequest, LeaveIs DEF Own, Transaction
<1>5. cp'[s].at \in {"idle", "turn"}
  <2>1. CASE ApplyEdit(r)
    <3>1. cp'[s] = [Idle EXCEPT !.held = cp[s].held]
      BY <1>0, <2>1 DEF ApplyEdit, TypeOK
    <3> QED  BY <3>1, Idles
  <2>2. CASE DecideWithoutRun(r)
    BY <1>0, <2>2 DEF DecideWithoutRun
  <2> QED  BY <2>1, <2>2
<1>6. \A i \in Index :
        /\ i # n => status'[<<s, i>>] = status[<<s, i>>]
        /\ \/ status'[<<s, n>>] \in {"approved", "rejected"}
           \/ status'[<<s, n>>] = status[<<s, n>>] /\ q.act = "request_edit"
  <2>1. CASE ApplyEdit(r)
    BY <2>1 DEF ApplyEdit
  <2>2. CASE DecideWithoutRun(r)
    <3>1. status' = [status EXCEPT ![<<s, n>>] = Verdict(q.act)]
      BY <1>0, <2>2 DEF DecideWithoutRun
    <3> QED  BY <1>0, <3>1 DEF Verdict, TypeOK, Pause
  <2> QED  BY <2>1, <2>2
<1> HIDE DEF n, q
<1>7. OnlyNewest(s)' /\ TurnClear(s)'
  <2>1. status'[<<s, n>>] # "cancelled"
    BY <1>0, <1>1, <1>6
  <2> QED  BY <1>0, <1>3, <1>6, <2>1, NewestStays DEF n
<1>8. PastGate(s)' /\ InStep(s)' /\ Guarded(s)' /\ Tasks(s)'
  BY <1>4, <1>5 DEF PastGate, InStep, Guarded, Tasks
<1>9. Waits(s)'
  <2>1. \A i \in Index : status'[<<s, i>>] = "paused" => i = n /\ q.act = "request_edit"
    BY <1>1, <1>6 DEF Terminal
  <2> QED  BY <1>2, <2>1 DEF Waits
<1>10. Sound(s) => Sound(s)'
  <2>1. Interrupts(s)' /\ Approved(s)'
    BY <1>4, <1>5 DEF Interrupts, Approved
  <2> QED  BY <1>2, <1>3, <2>1 DEF Sound, Placed
<1> QED  BY <1>7, <1>8, <1>9, <1>10 DEF Onward, Parts

\* The draft an approval of the newest pause takes is the one made for it.
LEMMA HeldDraftRight ==
  ASSUME TypeOK, NEW s \in Session, Cards(s), made[s] \in Index,
         draft[<<s, made[s]>>] = "pending",
         cp[s].held # None => draft[<<s, cp[s].held>>] # "pending"
  PROVE  HeldDraft(s) # None /\ draft[<<s, HeldDraft(s)>>] = "pending" => HeldDraft(s) = made[s]
<1> DEFINE D == {i \in Index : draft[<<s, i>>] = "pending"}
           n == made[s]
<1>1. CASE cp[s].held # None
  BY <1>1 DEF HeldDraft
<1>2. CASE cp[s].held = None
  <2>1. HeldDraft(s) = Latest(D)
    BY <1>2 DEF HeldDraft
  <2>2. n \in D /\ D \in SUBSET Index
    OBVIOUS
  <2>3. \A i \in D : i <= n
    BY DEF Cards
  <2>4. PICK g \in D : \A j \in D : j <= g
    BY <2>2, GreatestExists
  <2>5. Latest(D) \in D /\ \A j \in D : j <= Latest(D)
    <3>1. D # {}
      BY <2>2
    <3> HIDE DEF D
    <3>2. Latest(D) = CHOOSE i \in D : \A j \in D : j <= i
      BY <3>1 DEF Latest
    <3> QED  BY <2>4, <3>2
  <2>6. Latest(D) <= n /\ n <= Latest(D) /\ Latest(D) \in Index
    BY <2>2, <2>3, <2>5
  <2> HIDE DEF D
  <2> QED  BY <2>1, <2>6 DEF Index
<1> QED  BY <1>1, <1>2

\* The decision goes to the guard: it works on the newest pause.
LEMMA ApprovedOnward ==
  ASSUME TypeOK, NEW r \in Reviewer, NEW s \in Session, Alone(r, s), ResumeApprove(r)
  PROVE  Onward(s)
<1> DEFINE n == made[s]
           O == PausesIn(s, Open) \cup {req[r].idx}
           p == Latest(O)
           h == HeldDraft(s)
<1>0. /\ req[r] \in Request /\ req[r].session = s /\ req[r].idx = n /\ n \in Index
      /\ req[r].pc = "locked" /\ req[r].act = "approve" /\ cp[s].at = "interrupted"
      /\ \A m \in Msg : ~Turning(m, s)
  BY AtCommit, AloneIs DEF ResumeApprove, Reruns
<1>1. /\ Cards(s) /\ \A x \in Reviewer : Own(x, s) => x = r
      /\ \A i \in Index : i # n => status[<<s, i>>] \in Terminal \cup {"none"}
  BY AloneIs DEF Alone
<1>2. p = n
  <2>1. O = {n}
    BY <1>0, <1>1 DEF PausesIn, Open, Terminal
  <2>2. {n} \in SUBSET Index /\ {n} # {}
    BY <1>0
  <2>3. Latest({n}) = n
    BY <2>2, LatestType
  <2> QED  BY <2>1, <2>3
<1>3. /\ made' = made /\ draft' = draft /\ msg' = msg /\ cp' = cp /\ CommitDecision(r)
      /\ Resume(r, "guarded", "order", p, h)
      /\ status' = [status EXCEPT ![<<s, n>>] = "resuming", ![<<s, p>>] = "approved"]
  BY <1>0 DEF ResumeApprove
<1>4. /\ \A x \in Reviewer : Own(x, s)' => x = r
      /\ \A i, act : Decided(<<s, i>>, act)' <=> Decided(<<s, i>>, act) \/ (i = n /\ act = "approve")
  BY <1>0, <1>3, OnlyRequest DEF Transaction
<1> HIDE DEF p, h
<1>5. /\ req'[r].pc = "guarded" /\ req'[r].path = "order" /\ req'[r].target = n
      /\ req'[r].held = h
  BY <1>2, <1>3, ResumeIs DEF Alone
<1>6. \A i \in Index : status'[<<s, i>>] = IF i = n THEN "approved" ELSE status[<<s, i>>]
  <2> HIDE DEF n
  <2>1. status' = [status EXCEPT ![<<s, n>>] = "resuming", ![<<s, n>>] = "approved"]
    BY <1>2, <1>3
  <2> QED  BY <1>0, <2>1 DEF TypeOK, Pause
<1>7. OnlyNewest(s)' /\ TurnClear(s)'
  <2>1. /\ \A i \in Index : i # made[s] => status'[<<s, i>>] = status[<<s, i>>]
        /\ status'[<<s, made[s]>>] # "cancelled"
    BY <1>0, <1>6
  <2> QED  BY <1>0, <1>3, <2>1, NewestStays
<1>8. PastGate(s)' /\ InStep(s)' /\ Tasks(s)' /\ Waits(s)'
  BY <1>0, <1>3, <1>4, <1>5 DEF PastGate, InStep, Tasks, Waits
<1>9. Guarded(s)'
  BY <1>0, <1>3, <1>4, <1>5, <1>6 DEF Guarded, Leads
<1>10. ASSUME Sound(s)  PROVE Sound(s)'
  <2>1. ~Rejecting(s)
    BY <1>0, <1>1, RejectingIs
  <2>2. /\ draft[<<s, n>>] = "pending"
        /\ cp[s].held # None => draft[<<s, cp[s].held>>] # "pending"
    BY <1>0, <1>10, <2>1 DEF Sound, Interrupts
  <2>3. Interrupts(s)'
    BY <1>0, <1>3, <2>2 DEF Interrupts
  <2>4. h # None /\ draft[<<s, h>>] = "pending" => h = n
    BY <1>0, <1>1, <2>2, HeldDraftRight DEF h
  <2>5. Approved(s)'
    BY <1>0, <1>3, <1>4, <1>5, <2>4 DEF Approved, Right
  <2>6. Placed(s)'
    BY <1>3, <1>4, <1>10 DEF Sound, Placed
  <2> QED  BY <2>3, <2>5, <2>6 DEF Sound
<1> QED  BY <1>7, <1>8, <1>9, <1>10 DEF Onward, Parts

LEMMA RejectedOnward ==
  ASSUME TypeOK, NEW r \in Reviewer, NEW s \in Session, Alone(r, s), ResumeReject(r)
  PROVE  Onward(s)
<1> DEFINE n == made[s]
           O == PausesIn(s, Open)
           p == Latest(O)
           h == HeldDraft(s)
<1>0. /\ req[r] \in Request /\ req[r].session = s /\ req[r].idx = n /\ n \in Index
      /\ req[r].pc = "locked" /\ req[r].act = "reject" /\ cp[s].at = "interrupted"
      /\ \A m \in Msg : ~Turning(m, s)
  BY AtCommit, AloneIs DEF ResumeReject, Reruns
<1>1. /\ \A i \in Index : i # n => status[<<s, i>>] \in Terminal \cup {"none"}
      /\ status[<<s, n>>] # "cancelled"
  BY <1>0, AloneIs
<1>2. /\ made' = made /\ status' = status /\ msg' = msg /\ cp' = cp /\ CommitDecision(r)
      /\ Resume(r, "guarded", "support", p, h) /\ p # None
      /\ draft' = [draft EXCEPT ![<<s, h>>] = "cancelled"]
  BY <1>0 DEF ResumeReject
<1>3. p = n
  <2>1. O \in SUBSET Index /\ O \subseteq {n}
    BY <1>1 DEF PausesIn, Open, Terminal
  <2>2. O # {}
    BY <1>2 DEF Latest
  <2>3. Latest(O) \in O
    BY <2>1, <2>2, LatestType
  <2> QED  BY <2>1, <2>3
<1>4. /\ \A x \in Reviewer : Own(x, s)' => x = r
      /\ \A i, act : Decided(<<s, i>>, act)' <=> Decided(<<s, i>>, act) \/ (i = n /\ act = "reject")
  BY <1>0, <1>2, OnlyRequest DEF Transaction
<1> HIDE DEF p, h
<1>5. /\ req'[r].pc = "guarded" /\ req'[r].path = "support" /\ req'[r].target = n
      /\ req'[r].session = s
  BY <1>2, <1>3, ResumeIs DEF Alone
<1>6. \A i \in Index :
        draft'[<<s, i>>] = draft[<<s, i>>] \/ draft'[<<s, i>>] = "cancelled"
  BY <1>2 DEF TypeOK, Pause
<1>7. OnlyNewest(s)' /\ TurnClear(s)'
  BY <1>0, <1>1, <1>2, NewestStays
<1>8. PastGate(s)' /\ InStep(s)' /\ Tasks(s)' /\ Waits(s)'
  BY <1>0, <1>2, <1>4, <1>5 DEF PastGate, InStep, Tasks, Waits
<1>9. Guarded(s)'
  BY <1>0, <1>2, <1>4, <1>5 DEF Guarded, Leads
<1>10. ASSUME Sound(s)  PROVE Sound(s)'
  <2>1. Rejecting(s)'
    BY <1>5 DEF Rejecting, Own
  <2>2. Interrupts(s)'
    BY <2>1 DEF Interrupts
  <2>3. Approved(s)'
    BY <1>0, <1>2, <1>4, <1>5 DEF Approved
  <2>4. Placed(s)'
    BY <1>4, <1>6, <1>10 DEF Sound, Placed
  <2> QED  BY <2>2, <2>3, <2>4 DEF Sound
<1> QED  BY <1>7, <1>8, <1>9, <1>10 DEF Onward, Parts

LEMMA RejectedNoDraftOnward ==
  ASSUME TypeOK, NEW r \in Reviewer, NEW s \in Session, Alone(r, s), ResumeRejectNoDraft(r)
  PROVE  Onward(s)
<1> DEFINE n == made[s]
           O == PausesIn(s, Open)
           p == Latest(O)
<1>0. /\ req[r] \in Request /\ req[r].session = s /\ req[r].idx = n /\ n \in Index
      /\ status[<<s, n>>] \in BlockingStatuses
      /\ req[r].pc = "locked" /\ \A m \in Msg : ~Turning(m, s)
  BY AtCommit, AloneIs DEF ResumeRejectNoDraft, Reruns
<1>1. /\ \A i \in Index : i # n => status[<<s, i>>] \in Terminal \cup {"none"}
      /\ status[<<s, n>>] # "cancelled"
  BY <1>0, AloneIs
<1>2. /\ made' = made /\ status' = status /\ draft' = draft /\ msg' = msg /\ done' = done
      /\ Resume(r, "joined", "support", p, None) /\ RunCheckpoint(r, "support", p, None)
      /\ p # None
  BY <1>0 DEF ResumeRejectNoDraft, dbVars
<1>3. p = n
  <2>1. O \in SUBSET Index /\ O \subseteq {n}
    BY <1>1 DEF PausesIn, Open, Terminal
  <2>2. O # {}
    BY <1>2 DEF Latest
  <2>3. Latest(O) \in O
    BY <2>1, <2>2, LatestType
  <2> QED  BY <2>1, <2>3
<1>4. /\ \A x \in Reviewer : Own(x, s)' => x = r
      /\ \A i, act : Decided(<<s, i>>, act)' <=> Decided(<<s, i>>, act)
  BY <1>2, OnlyRequest DEF Transaction
<1> HIDE DEF p
<1>5. /\ req'[r].pc = "joined" /\ req'[r].path = "support" /\ req'[r].target = n
      /\ req'[r].held = None /\ req'[r].idx = n
      /\ cp'[s].at = "midrun" /\ cp'[s].path = "support" /\ cp'[s].target = n
      /\ cp'[s].held = None
  BY <1>0, <1>2, <1>3, ResumeIs, RunCheckpointIs DEF Alone
<1>6. OnlyNewest(s)' /\ TurnClear(s)'
  BY <1>0, <1>1, <1>2, NewestStays
<1>7. PastGate(s)' /\ InStep(s)' /\ Tasks(s)' /\ Waits(s)' /\ Guarded(s)'
  BY <1>0, <1>2, <1>4, <1>5 DEF PastGate, InStep, Tasks, Leads, Waits, Guarded
<1>8. Sound(s) => Sound(s)'
  BY <1>2, <1>4, <1>5 DEF Sound, Interrupts, Approved, Placed
<1> QED  BY <1>6, <1>7, <1>8 DEF Onward, Parts

LEMMA RejectedFreshOnward ==
  ASSUME TypeOK, NEW r \in Reviewer, NEW s \in Session, Alone(r, s), ResumeRejectFresh(r)
  PROVE  Onward(s)
<1> DEFINE n == made[s]
<1>0. /\ req[r] \in Request /\ req[r].session = s /\ req[r].idx = n /\ n \in Index
      /\ status[<<s, n>>] \in BlockingStatuses
      /\ req[r].pc = "locked" /\ req[r].act = "reject" /\ cp[s].at = "interrupted"
      /\ cp[s].held \in 0..MaxPauses
      /\ \A m \in Msg : ~Turning(m, s)
  BY AtCommit, AloneIs DEF ResumeRejectFresh, Reruns, TypeOK, Checkpoint
<1>1. /\ OnlyNewest(s)
      /\ \A i \in Index : i # n => status[<<s, i>>] \in Terminal \cup {"none"}
      /\ \A i \in Index : draft[<<s, i>>] # "none" => i <= n
      /\ n \in Nat
  BY AloneIs DEF Cards, Index
<1>2. /\ msg' = msg /\ CommitDecision(r) /\ PausesIn(s, Open) = {} /\ cp' = cp
      /\ OpenDrafted(s, cp[s].held, Reviewer \ {r})
      /\ Resume(r, "fresh", "support", n + 1, n + 1)
  BY <1>0 DEF ResumeRejectFresh
<1>3. status[<<s, n>>] = "escalated"
  BY <1>0, <1>2 DEF PausesIn, Open, BlockingStatuses
<1>4. /\ n + 1 \in Index /\ made'[s] = n + 1
      /\ \A i \in Index :
           status'[<<s, i>>] = IF i = n + 1 THEN "paused" ELSE status[<<s, i>>]
      /\ draft'[<<s, n + 1>>] = "pending"
      /\ \A i \in Index : i # n + 1 =>
           \/ draft'[<<s, i>>] = draft[<<s, i>>]
           \/ draft'[<<s, i>>] = "superseded" /\ draft[<<s, i>>] \in {"pending", "confirmed"}
  BY <1>0, <1>2, Opens
<1>5. /\ \A x \in Reviewer : Own(x, s)' => x = r
      /\ \A i, act : Decided(<<s, i>>, act)' <=> Decided(<<s, i>>, act) \/ (i = n /\ act = "reject")
  BY <1>0, <1>2, OnlyRequest DEF Transaction
<1>6. /\ req'[r].pc = "fresh" /\ req'[r].path = "support" /\ req'[r].target = n + 1
      /\ req'[r].session = s
  BY <1>2, ResumeIs DEF Alone
<1>7. OnlyNewest(s)' /\ TurnClear(s)'
  <2>1. \A m \in Msg : ~Turning(m, s)'
    BY <1>0, <1>2, DrainKeepsTurns
  <2>2. \A i \in Index : i < n + 1 => i = n \/ i < n
    BY <1>1 DEF Index
  <2> QED  BY <1>0, <1>1, <1>3, <1>4, <2>1, <2>2 DEF OnlyNewest, TurnClear, Terminal, Index
<1>8. PastGate(s)' /\ InStep(s)' /\ Tasks(s)' /\ Waits(s)'
  BY <1>0, <1>2, <1>5, <1>6 DEF PastGate, InStep, Tasks, Waits
<1>9. Guarded(s)'
  BY <1>0, <1>4, <1>5, <1>6 DEF Guarded, Leads
<1>10. ASSUME Sound(s)  PROVE Sound(s)'
  <2>1. Rejecting(s)'
    BY <1>6 DEF Rejecting, Own
  <2>2. Interrupts(s)'
    BY <2>1 DEF Interrupts
  <2>3. Approved(s)'
    BY <1>0, <1>2, <1>5, <1>6 DEF Approved
  <2>4. Placed(s)'
    BY <1>4, <1>5, <1>10 DEF Sound, Placed
  <2> QED  BY <2>2, <2>3, <2>4 DEF Sound
<1> QED  BY <1>7, <1>8, <1>9, <1>10 DEF Onward, Parts

\* The guard withdraws the draft it has just made, writes its checkpoint, or the decision
\* joins the run whose tasks are still there.
LEMMA GuardOnward ==
  ASSUME TypeOK, NEW r \in Reviewer, NEW s \in Session, Alone(r, s),
         RejectFresh(r) \/ GuardCheckpoint(r) \/ JoinRun(r)
  PROVE  Onward(s)
<1> DEFINE q == req[r]
           n == made[s]
<1>0. /\ q \in Request /\ q.session = s /\ n \in Index
      /\ OnlyNewest(s) /\ InStep(s) /\ Guarded(s) /\ Tasks(s) /\ Own(r, s) /\ Waits(s)
      /\ \A x \in Reviewer : Own(x, s) => x = r
      /\ status[<<s, n>>] # "cancelled"
  BY AloneIs DEF Alone
<1>1. \A m \in Msg : ~Turning(m, s)
  BY NoTurnThen DEF RejectFresh, GuardCheckpoint, JoinRun, Resumed
<1>2. made' = made /\ status' = status /\ done' = done /\ msg' = msg
  BY DEF RejectFresh, GuardCheckpoint, JoinRun, dbVars
<1>3. /\ \A x \in Reviewer : Own(x, s)' => x = r
      /\ \A i, act : Decided(<<s, i>>, act)' <=> Decided(<<s, i>>, act)
  <2>1. Transaction(r) \/ ResumedRun(r)
    BY DEF Transaction, ResumedRun
  <2> QED  BY <1>2, <2>1, OnlyRequest
<1>4. OnlyNewest(s)' /\ TurnClear(s)'
  BY <1>0, <1>1, <1>2, NewestStays
<1>5. CASE RejectFresh(r)
  <2>1. /\ q.pc = "fresh" /\ q.path = "support" /\ cp' = cp /\ cp[s].at = "interrupted"
        /\ draft' = [draft EXCEPT ![<<s, q.held>>] = "cancelled"] /\ Goto(r, "guarded")
    BY <1>0, <1>5 DEF RejectFresh, Guarded, InStep
  <2>2. /\ req'[r].pc = "guarded" /\ req'[r].path = "support" /\ req'[r].target = q.target
        /\ req'[r].session = s
    BY <1>0, <2>1, GotoIs
  <2> HIDE DEF q
  <2>3. \A i \in Index : draft'[<<s, i>>] = draft[<<s, i>>] \/ draft'[<<s, i>>] = "cancelled"
    BY <2>1 DEF TypeOK, Pause
  <2>4. PastGate(s)' /\ InStep(s)' /\ Tasks(s)' /\ Waits(s)'
    BY <1>3, <2>1, <2>2 DEF PastGate, InStep, Tasks, Waits
  <2>5. Guarded(s)'
    BY <1>0, <1>2, <1>3, <2>1, <2>2 DEF Guarded, Leads, q
  <2>6. ASSUME Sound(s)  PROVE Sound(s)'
    <3>1. Rejecting(s)'
      BY <2>2 DEF Rejecting, Own
    <3>2. Interrupts(s)'
      BY <3>1 DEF Interrupts
    <3>3. Approved(s)'
      BY <1>3, <2>1, <2>2 DEF Approved
    <3>4. Placed(s)'
      BY <1>3, <2>3, <2>6 DEF Sound, Placed
    <3> QED  BY <3>2, <3>3, <3>4 DEF Sound
  <2> QED  BY <1>4, <2>4, <2>5, <2>6 DEF Onward, Parts
<1>6. CASE GuardCheckpoint(r)
  <2>1. /\ q.pc = "guarded" /\ draft' = draft /\ RunCheckpoint(r, q.path, q.target, q.held)
        /\ Goto(r, "running")
    BY <1>6 DEF GuardCheckpoint, dbVars
  <2>2. /\ req'[r].pc = "running" /\ req'[r].path = q.path /\ req'[r].target = q.target
        /\ req'[r].held = q.held
        /\ cp'[s].at = "midrun" /\ cp'[s].path = q.path /\ cp'[s].target = q.target
        /\ cp'[s].held = q.held
    BY <1>0, <2>1, GotoIs, RunCheckpointIs
  <2> HIDE DEF q
  <2>3. PastGate(s)' /\ InStep(s)' /\ Waits(s)' /\ Guarded(s)'
    BY <1>3, <2>2 DEF PastGate, InStep, Waits, Guarded
  <2>4. Tasks(s)'
    BY <1>0, <1>2, <2>1, <2>2 DEF Tasks, Guarded, Leads, q
  <2>5. ASSUME Sound(s)  PROVE Sound(s)'
    <3>1. q.path = "order" => Right(s, q.held)
      BY <1>0, <2>1, <2>5 DEF Sound, Approved, q
    <3>2. q.path = "order" =>
            /\ Decided(<<s, made[s]>>, "approve")'
            /\ q.held # None /\ draft'[<<s, q.held>>] = "pending" => q.held = made'[s]
      BY <1>2, <1>3, <2>1, <3>1 DEF Right
    <3>3. Approved(s)'
      BY <1>3, <2>2, <3>2 DEF Approved, Right
    <3>4. Interrupts(s)' /\ Placed(s)'
      BY <1>3, <2>1, <2>2, <2>5 DEF Sound, Interrupts, Placed
    <3> QED  BY <3>3, <3>4 DEF Sound
  <2> QED  BY <1>4, <2>3, <2>4, <2>5 DEF Onward, Parts
<1>7. CASE JoinRun(r)
  <2>1. /\ q.pc = "locked" /\ cp[s].at = "midrun" /\ cp' = cp /\ draft' = draft
        /\ Resume(r, "joined", cp[s].path, cp[s].target, cp[s].held)
    BY <1>0, <1>7 DEF JoinRun, dbVars
  <2>2. q.idx = n /\ status[<<s, n>>] \in BlockingStatuses
    BY <2>1, AtCommit
  <2>3. /\ req'[r].pc = "joined" /\ req'[r].path = cp[s].path /\ req'[r].target = cp[s].target
        /\ req'[r].held = cp[s].held /\ req'[r].idx = q.idx
    BY <1>0, <2>1, ResumeIs
  <2> HIDE DEF q
  <2>4. PastGate(s)' /\ InStep(s)' /\ Tasks(s)' /\ Waits(s)' /\ Guarded(s)'
    BY <1>0, <1>2, <1>3, <2>1, <2>2, <2>3 DEF PastGate, InStep, Tasks, Leads, Waits, Guarded
  <2>5. ASSUME Sound(s)  PROVE Sound(s)'
    BY <1>2, <1>3, <2>1, <2>3, <2>5 DEF Sound, Interrupts, Approved, Right, Placed
  <2> QED  BY <1>4, <2>4, <2>5 DEF Onward, Parts
<1> QED  BY <1>5, <1>6, <1>7

\* During a run: it is the one the newest checkpoint is about.
LEMMA InRun ==
  ASSUME TypeOK, NEW r \in Reviewer, NEW s \in Session, Alone(r, s),
         req[r].pc \in {"joined", "running"}
  PROVE  /\ cp[s].at = "midrun" /\ cp[s].path = req[r].path
         /\ cp[s].target = req[r].target /\ cp[s].held = req[r].held
         /\ req[r].target = made[s]
         /\ req[r].path = "order" =>
              /\ req[r].pc = "running" /\ status[<<s, made[s]>>] = "approved"
              /\ PausesIn(s, Open) = {}
              /\ Sound(s) => Right(s, req[r].held)
         /\ \A m \in Msg : ~Turning(m, s)
<1>1. /\ Own(r, s) /\ InStep(s) /\ Tasks(s) /\ made[s] \in Index
      /\ \A i \in Index : i # made[s] => status[<<s, i>>] \in Terminal \cup {"none"}
  BY AloneIs DEF Alone
<1>2. /\ cp[s].at = "midrun" /\ cp[s].path = req[r].path
      /\ cp[s].target = req[r].target /\ cp[s].held = req[r].held
  BY <1>1 DEF InStep
<1>3. \A m \in Msg : ~Turning(m, s)
  BY NoTurnThen DEF Resumed
<1>4. /\ req[r].target = made[s]
      /\ req[r].path = "order" => status[<<s, made[s]>>] = "approved"
  BY <1>1, <1>2 DEF Tasks, Leads
<1>5. status[<<s, made[s]>>] = "approved" => PausesIn(s, Open) = {}
  BY <1>1 DEF PausesIn, Open, Terminal
<1>6. req[r].path = "order" => req[r].pc = "running"
  BY <1>4, AtCommit DEF BlockingStatuses
<1>7. Sound(s) /\ req[r].path = "order" => Right(s, req[r].held)
  BY <1>2 DEF Sound, Approved
<1> QED  BY <1>2, <1>3, <1>4, <1>5, <1>6, <1>7

\* A decision that joined a run is taken along by its first commit, and never lost: the run
\* it joined goes to support.
LEMMA JoinedOnward ==
  ASSUME TypeOK, NEW r \in Reviewer, NEW s \in Session, Alone(r, s),
         FirstCommit(r) \/ LoseDecision(r)
  PROVE  Onward(s)
<1> DEFINE q == req[r]
           n == made[s]
<1>0. /\ q \in Request /\ q.session = s /\ n \in Index /\ q.pc = "joined" /\ q.idx = n
      /\ \A m \in Msg : ~Turning(m, s) /\ Own(r, s)
      /\ status[<<s, n>>] # "cancelled"
  BY AloneIs, AtCommit, InRun DEF FirstCommit, LoseDecision, Alone
<1>1. /\ cp[s].at = "midrun" /\ cp[s].path = q.path /\ cp[s].target = q.target
      /\ cp[s].held = q.held /\ q.target = n /\ q.path # "order"
  BY <1>0, InRun
<1>2. FirstCommit(r)
  BY <1>1 DEF LoseDecision
<1>3. /\ made' = made /\ draft' = draft /\ cp' = cp /\ msg' = msg /\ CommitDecision(r)
      /\ Goto(r, "running")
      /\ status' = status \/ status' = [status EXCEPT ![<<s, n>>] = "resuming"]
  BY <1>0, <1>2 DEF FirstCommit
<1>4. /\ req'[r].pc = "running" /\ req'[r].path = q.path /\ req'[r].target = q.target
      /\ req'[r].held = q.held
  BY <1>3, GotoIs DEF Alone
<1>5. /\ \A x \in Reviewer : Own(x, s)' => x = r
      /\ \A i, act : Decided(<<s, i>>, act) => Decided(<<s, i>>, act)'
  BY <1>2, OnlyRequest DEF ResumedRun
<1>6. OnlyNewest(s)' /\ TurnClear(s)'
  <2>1. /\ \A i \in Index : i # n => status'[<<s, i>>] = status[<<s, i>>]
        /\ status'[<<s, n>>] # "cancelled"
    <3> HIDE DEF n
    <3> QED  BY <1>0, <1>3 DEF TypeOK, Pause
  <2>2. \A m \in Msg : ~Turning(m, s)
    BY <1>0, InRun
  <2> QED  BY <1>3, <2>1, <2>2, NewestStays
<1> HIDE DEF q
<1>7. PastGate(s)' /\ InStep(s)' /\ Waits(s)' /\ Guarded(s)'
  BY <1>1, <1>3, <1>4, <1>5 DEF PastGate, InStep, Waits, Guarded
<1>8. Tasks(s)'
  BY <1>0, <1>1, <1>3 DEF Tasks, Leads
<1>9. Sound(s) => Sound(s)'
  BY <1>1, <1>3, <1>4, <1>5 DEF Sound, Interrupts, Approved, Placed
<1> QED  BY <1>6, <1>7, <1>8, <1>9 DEF Onward, Parts

\* The end of a run that leaves no interrupt.
LEMMA EndedOnward ==
  ASSUME TypeOK, NEW r \in Reviewer, NEW s \in Session, Alone(r, s), req[r].pc = "running",
         ResumedRun(r),
         Goto(r, "finishing"), NEW c, LastCheckpoint(r, c), c.at = "idle",
         msg' = msg \/ Drain(s), made' = made,
         \A i \in Index : i # made[s] => status'[<<s, i>>] = status[<<s, i>>],
         status'[<<s, made[s]>>] \notin {"cancelled", "paused"},
         Placed(s) => Placed(s)' \/ ~Sound(s)
  PROVE  Onward(s)
<1>1. cp'[s] = c /\ req'[r].pc = "finishing"
  BY RunEndIs DEF Alone
<1>2. \A x \in Reviewer : Own(x, s)' => x = r
  BY OnlyRequest
<1>3. OnlyNewest(s)' /\ TurnClear(s)'
  BY InRun, NewestStays
<1>4. PastGate(s)' /\ InStep(s)' /\ Guarded(s)' /\ Tasks(s)'
  BY <1>1, <1>2 DEF PastGate, InStep, Guarded, Tasks
<1>5. Waits(s)'
  BY AloneIs DEF Waits, Terminal
<1>6. Sound(s) => Sound(s)'
  <2>1. Interrupts(s)' /\ Approved(s)'
    BY <1>1, <1>2 DEF Interrupts, Approved
  <2> QED  BY <2>1 DEF Sound
<1> QED  BY <1>3, <1>4, <1>5, <1>6 DEF Onward, Parts

LEMMA RunOnward ==
  ASSUME TypeOK, NEW r \in Reviewer, NEW s \in Session, Alone(r, s),
         \/ RunExecute(r) \/ RunInsertOrder(r) \/ RunNoOrder(r) \/ RunCancel(r)
         \/ RunSupport(r) \/ RunMaxed(r)
  PROVE  Onward(s)
<1> DEFINE q == req[r]
           n == made[s]
<1>0. /\ q \in Request /\ q.session = s /\ n \in Index /\ q.pc = "running"
      /\ q.target = n
      /\ q.path = "order" =>
           /\ status[<<s, n>>] = "approved" /\ PausesIn(s, Open) = {}
           /\ Sound(s) => Right(s, q.held)
  BY InRun, AloneIs
     DEF RunExecute, RunInsertOrder, RunNoOrder, RunCancel, RunSupport, RunMaxed, OnPath
<1>1. ResumedRun(r)
  BY DEF ResumedRun
<1>2. /\ made' = made /\ done' = done /\ Goto(r, "finishing") /\ (msg' = msg \/ Drain(s))
  BY <1>0 DEF RunExecute, RunInsertOrder, RunNoOrder, RunCancel, RunSupport, RunMaxed, dbVars
<1>3. \A i, act : Decided(<<s, i>>, act)' <=> Decided(<<s, i>>, act)
  BY <1>1, <1>2, OnlyRequest
<1>4. \E d : LastCheckpoint(r, d) /\ d.at = "idle"
  BY Idles DEF RunExecute, RunInsertOrder, RunNoOrder, RunCancel, RunSupport, RunMaxed
<1>5. CASE q.path = "order" /\ status' = status
  <2>1. status'[<<s, n>>] \notin {"cancelled", "paused"}
    BY <1>0, <1>5
  <2>2. Placed(s) => Placed(s)' \/ ~Sound(s)
    <3>1. CASE draft' = draft
      BY <1>3, <3>1 DEF Placed
    <3>2. CASE /\ q.held # None /\ draft[<<s, q.held>>] = "pending"
               /\ draft' = [draft EXCEPT ![<<s, q.held>>] = "confirmed"]
      <4>1. SUFFICES ASSUME Sound(s), Placed(s)  PROVE Placed(s)'
        OBVIOUS
      <4>2. q.held = n /\ Decided(<<s, n>>, "approve")
        BY <1>0, <1>5, <3>2, <4>1 DEF Right
      <4>3. \A i \in Index :
              draft'[<<s, i>>] = IF i = n THEN "confirmed" ELSE draft[<<s, i>>]
        <5> HIDE DEF n, q
        <5>1. draft' = [draft EXCEPT ![<<s, n>>] = "confirmed"]
          BY <3>2, <4>2
        <5> QED  BY <5>1 DEF TypeOK, Pause
      <4> QED  BY <1>3, <4>1, <4>2, <4>3 DEF Placed
    <3>3. CASE RunCancel(r)
      <4>1. Cancel(s)
        BY <1>0, <3>3 DEF RunCancel
      <4>2. \A i \in Index : draft'[<<s, i>>] \in {draft[<<s, i>>], "cancelled"}
        BY <4>1, Cancels
      <4> QED  BY <1>3, <4>2 DEF Placed
    <3> QED  BY <1>0, <3>1, <3>2, <3>3
           DEF RunExecute, RunInsertOrder, RunNoOrder, RunSupport, RunMaxed, dbVars
  <2> QED  BY <1>0, <1>1, <1>2, <1>4, <1>5, <2>1, <2>2, EndedOnward
<1>6. CASE RunCancel(r)
  <2>1. q.path = "order" /\ status' = Restatus(s, Open, "cancelled")
    BY <1>0, <1>6 DEF RunCancel, OnPath, Cancel
  <2>2. \A p \in Pause : p[1] = s => \E i \in Index : p = <<s, i>>
    BY DEF Pause
  <2>3. \A p \in Pause : ~(p[1] = s /\ status[p] \in Open)
    BY <1>0, <2>1, <2>2 DEF PausesIn
  <2>4. status' = status
    BY <2>1, <2>3 DEF Restatus, TypeOK
  <2> QED  BY <1>5, <2>1, <2>4
<1>7. CASE RunSupport(r)
  <2>1. /\ draft' = draft
        /\ status' = [p \in Pause |-> IF p = <<s, n>> THEN "escalated" ELSE status[p]]
    BY <1>0, <1>7 DEF RunSupport
  <2>2. \A i \in Index : status'[<<s, i>>] = IF i = n THEN "escalated" ELSE status[<<s, i>>]
    <3>1. \A i \in Index : <<s, i>> \in Pause /\ (<<s, i>> = <<s, n>> <=> i = n)
      BY DEF Pause
    <3> QED  BY <2>1, <3>1
  <2>3. /\ \A i \in Index : i # n => status'[<<s, i>>] = status[<<s, i>>]
        /\ status'[<<s, n>>] \notin {"cancelled", "paused"}
    BY <1>0, <2>2
  <2>4. Placed(s) => Placed(s)'
    BY <1>3, <2>1 DEF Placed
  <2> QED  BY <1>0, <1>1, <1>2, <1>4, <2>3, <2>4, EndedOnward
<1>8. CASE RunExecute(r) \/ RunInsertOrder(r) \/ RunNoOrder(r) \/ RunMaxed(r)
  BY <1>5, <1>8 DEF RunExecute, RunInsertOrder, RunNoOrder, RunMaxed, OnPath, dbVars
<1> QED  BY <1>6, <1>7, <1>8

LEMMA RepausedOnward ==
  ASSUME TypeOK, NEW r \in Reviewer, NEW s \in Session, Alone(r, s),
         NEW keep \in BOOLEAN, RunRepause(r, keep)
  PROVE  Onward(s)
<1> DEFINE q == req[r]
           n == made[s]
<1>0. /\ q \in Request /\ q.session = s /\ n \in Index /\ n \in Nat /\ q.pc = "running"
      /\ q.idx \in Index /\ q.idx <= n /\ q.held \in 0..MaxPauses /\ q.held <= n
      /\ status[<<s, n>>] = "approved"
      /\ \A m \in Msg : ~Turning(m, s)
  <2>1. q.pc = "running" /\ q.path = "order"
    BY DEF RunRepause, OnPath
  <2>2. q \in Request /\ q.session = s /\ n \in Index /\ q.idx \in Index /\ q.idx <= n /\ Cards(s)
        /\ Own(r, s)
    BY AloneIs DEF Alone
  <2>3. q.held \in 0..MaxPauses /\ q.held <= n
    BY <2>2 DEF Request, Cards
  <2> QED  BY <2>1, <2>2, <2>3, InRun DEF Index
<1>1. /\ OnlyNewest(s)
      /\ \A i \in Index : i # n => status[<<s, i>>] \in Terminal \cup {"none"}
  BY AloneIs
<1>2. PICK h \in 0..MaxPauses :
        /\ h <= n /\ OpenDrafted(s, h, Reviewer \ {r})
        /\ LastCheckpoint(r, Interrupted(h))
  <2>1. None \in 0..MaxPauses /\ None <= n
    BY <1>0 DEF None
  <2> QED  BY <1>0, <2>1 DEF RunRepause
<1>3. done' = done /\ Drain(s) /\ Goto(r, "finishing")
  BY <1>0 DEF RunRepause
<1>4. /\ n + 1 \in Index /\ made'[s] = n + 1
      /\ \A i \in Index :
           status'[<<s, i>>] = IF i = n + 1 THEN "paused" ELSE status[<<s, i>>]
      /\ draft'[<<s, n + 1>>] = "pending"
      /\ \A i \in Index : i # n + 1 =>
           \/ draft'[<<s, i>>] = draft[<<s, i>>]
           \/ draft'[<<s, i>>] = "superseded" /\ draft[<<s, i>>] \in {"pending", "confirmed"}
      /\ h \in Index /\ h # n + 1 => draft'[<<s, h>>] # "pending"
  BY <1>2, Opens
<1>5. /\ cp'[s].at = "interrupted" /\ cp'[s].held = h
      /\ req'[r].pc = "finishing" /\ req'[r].session = s /\ req'[r].idx = q.idx
  BY <1>2, <1>3, RunEndIs, Idles DEF Alone
<1>6. /\ \A x \in Reviewer : Own(x, s)' => x = r
      /\ \A i, act : Decided(<<s, i>>, act)' <=> Decided(<<s, i>>, act)
  <2>1. ResumedRun(r)
    BY DEF ResumedRun
  <2> QED  BY <1>3, <2>1, OnlyRequest
<1>7. OnlyNewest(s)' /\ TurnClear(s)'
  <2>1. \A m \in Msg : ~Turning(m, s)'
    BY <1>0, <1>3, DrainKeepsTurns
  <2>2. \A i \in Index : i < n + 1 => i = n \/ i < n
    BY <1>0 DEF Index
  <2> QED  BY <1>0, <1>1, <1>4, <2>1, <2>2 DEF OnlyNewest, TurnClear, Terminal, Index
<1>8. PastGate(s)' /\ Tasks(s)' /\ Waits(s)' /\ Guarded(s)'
  BY <1>5, <1>6 DEF PastGate, Tasks, Waits, Guarded
<1>9. InStep(s)'
  <2>1. q.idx < made'[s]
    BY <1>0, <1>4 DEF Index
  <2> QED  BY <1>5, <1>6, <2>1 DEF InStep
<1>10. ASSUME Sound(s)  PROVE Sound(s)'
  <2>1. h # None => draft'[<<s, h>>] # "pending"
    BY <1>0, <1>2, <1>4 DEF Index, None
  <2>2. Interrupts(s)'
    BY <1>4, <1>5, <2>1 DEF Interrupts
  <2>3. Approved(s)'
    BY <1>5, <1>6 DEF Approved
  <2>4. Placed(s)'
    BY <1>4, <1>6, <1>10 DEF Sound, Placed
  <2> QED  BY <2>2, <2>3, <2>4 DEF Sound
<1> QED  BY <1>7, <1>8, <1>9, <1>10 DEF Onward, Parts

\* process_approve and process_reject: the status at the end.
LEMMA FinishedOnward ==
  ASSUME TypeOK, NEW r \in Reviewer, NEW s \in Session, Alone(r, s), Finish(r)
  PROVE  Onward(s)
<1> DEFINE q == req[r]
           v == Verdict(q.act)
           n == made[s]
<1>0. /\ q \in Request /\ q.session = s /\ q.idx \in Index /\ q.pc = "finishing"
      /\ n \in Index /\ v \in {"approved", "rejected"} /\ Own(r, s)
      /\ OnlyNewest(s) /\ InStep(s) /\ Waits(s)
      /\ \A x \in Reviewer : Own(x, s) => x = r
  BY AloneIs DEF Alone, Finish, Verdict
<1>1. /\ made' = made /\ draft' = draft /\ done' = done /\ cp' = cp /\ msg' = msg /\ Leave(r)
      /\ status' = [status EXCEPT ![<<s, q.idx>>] = v]
  BY <1>0 DEF Finish
<1>2. /\ \A x \in Reviewer : ~Own(x, s)'
      /\ \A i, act : Decided(<<s, i>>, act)' <=> Decided(<<s, i>>, act)
  <2>1. ResumedRun(r)
    BY DEF ResumedRun
  <2> QED  BY <1>1, <2>1, OnlyRequest, LeaveIs DEF Own
<1>3. \A m \in Msg : ~Turning(m, s)'
  BY <1>0, <1>1, NoTurnThen, DrainKeepsTurns DEF Resumed
<1>4. cp[s].at \notin {"midrun"}
  BY <1>0 DEF InStep
<1> HIDE DEF v, q
<1>5. \A i \in Index : status'[<<s, i>>] = IF i = q.idx THEN v ELSE status[<<s, i>>]
  BY <1>0, <1>1 DEF TypeOK, Pause
<1>6. OnlyNewest(s)' /\ TurnClear(s)'
  BY <1>0, <1>1, <1>3, <1>5 DEF OnlyNewest, TurnClear, Terminal
<1>7. PastGate(s)' /\ InStep(s)' /\ Guarded(s)' /\ Tasks(s)'
  BY <1>1, <1>2, <1>4 DEF PastGate, InStep, Guarded, Tasks
<1>8. Waits(s)'
  BY <1>0, <1>1, <1>2, <1>5 DEF Waits
<1>9. ASSUME Sound(s)  PROVE Sound(s)'
  <2>1. ~Rejecting(s)
    BY <1>0, RejectingIs DEF q
  <2>2. Interrupts(s)' /\ Placed(s)'
    BY <1>1, <1>2, <1>9, <2>1 DEF Sound, Interrupts, Placed
  <2>3. Approved(s)'
    BY <1>1, <1>2, <1>4 DEF Approved
  <2> QED  BY <2>2, <2>3 DEF Sound
<1> QED  BY <1>6, <1>7, <1>8, <1>9 DEF Onward, Parts

LEMMA RequestOnward ==
  ASSUME TypeOK, NEW r \in Reviewer, NEW s \in Session, Alone(r, s),
         Transaction(r) \/ ResumedRun(r)
  PROVE  Onward(s)
<1>1. ASSUME NEW keep \in BOOLEAN  PROVE ~RunReuse(r, keep)
  <2>1. SUFFICES ASSUME RunReuse(r, keep)  PROVE FALSE
    OBVIOUS
  <2>2. req[r].pc = "running" /\ req[r].path = "order"
    BY <2>1 DEF RunReuse, OnPath
  <2>3. PausesIn(s, Open) = {} /\ req[r].session = s
    BY <2>2, InRun, AloneIs
  <2> QED  BY <2>1, <2>3 DEF RunReuse
<1>2. \A path \in {"order", "support"} : ~ResumeUnread(r, path)
  BY DEF ResumeUnread, Alone, Steady
<1>3. ASSUME NEW keep \in BOOLEAN, RunRepause(r, keep)  PROVE Onward(s)
  BY <1>3, RepausedOnward
<1>4. CASE \/ Gate(r) \/ ReadVersion(r) \/ TurnedAway(r) \/ TakeLock(r) \/ Rollback(r)
           \/ Abort(r)
  BY <1>4, PassingOnward
<1>5. CASE DecideWithoutRun(r) \/ ApplyEdit(r)
  BY <1>5, DecidedOnward
<1>6. CASE RejectFresh(r) \/ GuardCheckpoint(r) \/ JoinRun(r)
  BY <1>6, GuardOnward
<1>7. CASE FirstCommit(r) \/ LoseDecision(r)
  BY <1>7, JoinedOnward
<1>8. CASE \/ RunExecute(r) \/ RunInsertOrder(r) \/ RunNoOrder(r) \/ RunCancel(r)
           \/ RunSupport(r) \/ RunMaxed(r)
  BY <1>8, RunOnward
<1> QED
  BY <1>1, <1>2, <1>3, <1>4, <1>5, <1>6, <1>7, <1>8, ApprovedOnward, RejectedOnward,
     RejectedNoDraftOnward, RejectedFreshOnward, FinishedOnward DEF Transaction, ResumedRun

LEMMA CustomerOnward ==
  ASSUME TypeOK, NEW m \in Msg, NEW s \in Session, s = SessionOf[m], Customer(m),
         Steady, Base(s), Parts(s)
  PROVE  Onward(s)
<1> DEFINE n == made[s]
<1>0. /\ OnlyNewest(s) /\ TurnClear(s) /\ PastGate(s) /\ InStep(s)
      /\ Tasks(s) /\ Guarded(s) /\ Waits(s) /\ TurnAlone(s) /\ Cards(s)
      /\ \A i \in Index : i # n => status[<<s, i>>] \in Terminal \cup {"none"}
      /\ n \in Nat
  BY RowsOf DEF Parts, Base, Steady
<1>1. req' = req /\ done' = done
  BY CustomerElsewhere
<1>2. /\ \A x \in Reviewer : Own(x, s)' <=> Own(x, s)
      /\ \A i, act : Decided(<<s, i>>, act)' <=> Decided(<<s, i>>, act)
      /\ Rejecting(s)' <=> Rejecting(s)
  BY <1>1 DEF Own, Decided, Rejecting
<1>3. \A x \in Msg : x # m => (Turning(x, s)' <=> Turning(x, s))
  BY DEF Customer, Turns, Gateway, Enqueue, TurnEnds, TurnAnswer, TurnSupport, TurnOrder,
     TurnCancel, TurnLookup, TurnInsert, TypeOK, Turning
\* While the pauses and the checkpoint stay as they are ...
<1>4. ASSUME TurnClear(s)', cp' = cp, status' = status, draft' = draft, made' = made
      PROVE  Onward(s)
  <2>1. OnlyNewest(s)' /\ PastGate(s)' /\ InStep(s)' /\ Tasks(s)' /\ Guarded(s)' /\ Waits(s)'
    BY <1>0, <1>1, <1>2, <1>4 DEF OnlyNewest, PastGate, InStep, Tasks, Leads, Guarded, Waits
  <2>2. Sound(s) => Sound(s)'
    BY <1>1, <1>2, <1>4 DEF Sound, Interrupts, Approved, Right, Placed
  <2> QED  BY <1>4, <2>1, <2>2 DEF Onward, Parts
<1>5. ASSUME Turning(m, s)
      PROVE  /\ Clear(s)
             /\ \A x \in Reviewer : Own(x, s) =>
                  req[x].pc \notin Resumed \cup {"readver", "acquire", "locked"}
             /\ \A x \in Msg : x # m => ~Turning(x, s)
             /\ \A i \in Index : status[<<s, i>>] \notin {"paused", "resuming"}
  <2>1. /\ Clear(s)
        /\ \A x \in Reviewer : Own(x, s) => req[x].pc \notin Resumed
        /\ \A x \in Msg : Turning(x, s) => x = m
    BY <1>0, <1>5 DEF TurnAlone, TurnClear
  <2>2. \A x \in Reviewer : Own(x, s) => req[x].pc \notin {"readver", "acquire", "locked"}
    <3>1. \A x \in Reviewer : Own(x, s) => req[x].idx \in Index
      BY InFlightRequest DEF Own, Request
    <3> QED  BY <1>0, <2>1, <3>1 DEF PastGate, Clear
  <2>3. \A i \in Index : status[<<s, i>>] \notin {"paused", "resuming"}
    BY <2>1 DEF Clear, BlockingStatuses
  <2> QED  BY <2>1, <2>2, <2>3
\* ... or a turn runs while there is no pause to decide.
<1>6. ASSUME Clear(s), cp'[s].at \in {"idle", "turn"},
             \A x \in Reviewer : Own(x, s) => req[x].pc \notin Resumed,
             TurnClear(s)', \A i \in Index : status'[<<s, i>>] = status[<<s, i>>], made' = made,
             \A i \in Index : draft'[<<s, i>>] = "confirmed" => draft[<<s, i>>] = "confirmed"
      PROVE  Onward(s)
  <2>1. OnlyNewest(s)' /\ InStep(s)' /\ Tasks(s)' /\ Guarded(s)'
    BY <1>0, <1>1, <1>2, <1>6 DEF OnlyNewest, InStep, Tasks, Guarded, Resumed
  <2>2. PastGate(s)'
    <3>1. \A x \in Reviewer : Own(x, s) => req[x].idx \in Index
      BY InFlightRequest DEF Own, Request
    <3> QED  BY <1>0, <1>1, <1>2, <1>6, <3>1 DEF PastGate
  <2>3. Waits(s)'
    BY <1>6 DEF Waits, Clear, BlockingStatuses
  <2>4. Sound(s) => Sound(s)'
    BY <1>1, <1>2, <1>6 DEF Sound, Interrupts, Approved, Placed, Resumed
  <2> QED  BY <1>6, <2>1, <2>2, <2>3, <2>4 DEF Onward, Parts
<1>7. CASE Enqueue(m) \/ (Gateway(m) /\ Blocked(s))
  <2>1. /\ cp' = cp /\ status' = status /\ draft' = draft /\ made' = made
        /\ msg'[m] \in {"enqueue", "queued"}
    BY <1>7 DEF Enqueue, Gateway, dbVars, TypeOK
  <2>2. ~Turning(m, s)'
    BY <2>1 DEF Turning
  <2>3. TurnClear(s)'
    BY <1>0, <1>3, <2>1, <2>2 DEF TurnClear, Clear
  <2> QED  BY <1>4, <2>1, <2>3
<1>8. CASE Gateway(m) /\ ~Blocked(s)
  <2>1. /\ status' = status /\ draft' = draft /\ made' = made
        /\ ~(Running(s) \/ InTurn(s)) /\ cp'[s] = Turn
    BY <1>8 DEF Gateway, dbVars, TypeOK, Steady
  <2>2. Clear(s)
    BY <1>8 DEF Blocked, PausesIn, Clear
  <2>3. \A x \in Reviewer : Own(x, s) => req[x].pc \notin Resumed
    BY <2>1 DEF Running, At, Own
  <2>4. TurnClear(s)'
    BY <2>1, <2>2 DEF TurnClear, Clear
  <2>5. cp'[s].at = "turn"
    BY <2>1, Idles
  <2> QED  BY <1>6, <2>1, <2>2, <2>3, <2>4, <2>5
<1>9. CASE TurnAnswer(m) \/ TurnSupport(m) \/ TurnOrder(m) \/ TurnCancel(m)
  <2>1. TurnEnds(m)
    BY <1>9 DEF TurnAnswer, TurnSupport, TurnOrder, TurnCancel
  <2>2. /\ made' = made /\ Turning(m, s) /\ cp'[s] = Idle /\ msg'[m] = "answered"
    BY <2>1 DEF TurnEnds, TypeOK, Turning
  <2>3. cp'[s].at = "idle" /\ ~Turning(m, s)'
    BY <2>2, Idles DEF Turning
  <2>4. TurnClear(s)'
    BY <1>3, <1>5, <2>2, <2>3 DEF TurnClear
  <2>5. /\ \A i \in Index : status'[<<s, i>>] = status[<<s, i>>]
        /\ \A i \in Index : draft'[<<s, i>>] = "confirmed" => draft[<<s, i>>] = "confirmed"
    <3>1. CASE TurnCancel(m)
      <4>1. Cancel(s)
        BY <3>1 DEF TurnCancel
      <4>2. \A t \in Session, i \in Index :
              /\ draft'[<<t, i>>] = IF t = s /\ draft[<<t, i>>] = "pending" THEN "cancelled"
                                    ELSE draft[<<t, i>>]
              /\ status'[<<t, i>>] = IF t = s /\ status[<<t, i>>] \in Open THEN "cancelled"
                                     ELSE status[<<t, i>>]
        BY <4>1, Cancels
      <4> QED  BY <1>5, <2>2, <4>2 DEF Open
    <3>2. CASE ~TurnCancel(m)
      BY <1>9, <3>2 DEF TurnAnswer, TurnSupport, TurnOrder
    <3> QED  BY <3>1, <3>2
  <2> QED  BY <1>5, <1>6, <2>2, <2>3, <2>4, <2>5
<1>10. CASE TurnLookup(m)
  <2>1. Turning(m, s)
    BY <1>10 DEF TurnLookup, Turning
  <2>2. PausesIn(s, Open) = {}
    BY <1>5, <2>1 DEF PausesIn, Open
  <2>3. cp' = cp /\ status' = status /\ draft' = draft /\ made' = made
    BY <1>10, <2>2 DEF TurnLookup, dbVars
  <2>4. TurnClear(s)'
    BY <1>5, <2>1, <2>3 DEF TurnClear, Clear
  <2> QED  BY <1>4, <2>3, <2>4
<1>11. CASE TurnInsert(m)
  <2>1. /\ OpenDrafted(s, None, Reviewer) /\ Turning(m, s) /\ msg'[m] = "answered"
        /\ cp'[s] = Interrupted(None)
    BY <1>11 DEF TurnInsert, TypeOK, Turning
  <2>2. None \in 0..MaxPauses
    BY DEF None
  <2>3. /\ n + 1 \in Index /\ made'[s] = n + 1
        /\ \A i \in Index :
             status'[<<s, i>>] = IF i = n + 1 THEN "paused" ELSE status[<<s, i>>]
        /\ draft'[<<s, n + 1>>] = "pending"
        /\ \A i \in Index : i # n + 1 =>
             \/ draft'[<<s, i>>] = draft[<<s, i>>]
             \/ draft'[<<s, i>>] = "superseded" /\ draft[<<s, i>>] \in {"pending", "confirmed"}
    BY <2>1, <2>2, Opens
  <2>4. cp'[s].at = "interrupted" /\ cp'[s].held = None
    BY <2>1, Idles
  <2>5. \A x \in Msg : ~Turning(x, s)'
    BY <1>3, <1>5, <2>1 DEF Turning
  <2>6. TurnClear(s)' /\ Tasks(s)' /\ Waits(s)'
    BY <2>4, <2>5 DEF TurnClear, Tasks, Waits
  <2>7. PastGate(s)' /\ InStep(s)' /\ Guarded(s)'
    BY <1>1, <1>2, <1>5, <2>1 DEF PastGate, InStep, Guarded, Resumed
  <2>8. OnlyNewest(s)'
    <3>1. n \in Index => status[<<s, n>>] \in Terminal
      <4>1. n \in Index => status[<<s, n>>] \in PauseStatus \ {"none", "cancelled"}
        BY <1>0, RowsOf
      <4> QED  BY <1>5, <2>1, <4>1 DEF PauseStatus, Terminal
    <3>2. \A i \in Index : i < n + 1 => i = n \/ i < n
      BY <1>0 DEF Index
    <3> QED  BY <1>0, <2>3, <3>1, <3>2 DEF OnlyNewest, Terminal
  <2>9. Sound(s) => Sound(s)'
    <3>1. Interrupts(s)'
      BY <2>3, <2>4 DEF Interrupts
    <3>2. Approved(s)'
      BY <1>1, <1>2, <1>5, <2>1, <2>4 DEF Approved, Resumed
    <3>3. Placed(s) => Placed(s)'
      BY <1>2, <2>3 DEF Placed
    <3> QED  BY <3>1, <3>2, <3>3 DEF Sound
  <2> QED  BY <2>6, <2>7, <2>8, <2>9 DEF Onward, Parts
<1> QED  BY <1>7, <1>8, <1>9, <1>10, <1>11 DEF Customer, Turns

LEMMA ClientOnward ==
  ASSUME TypeOK, NEW r \in Reviewer, Client(r), NEW t \in Session, Parts(t)
  PROVE  Onward(t)
<1>0. /\ OnlyNewest(t) /\ TurnClear(t) /\ PastGate(t) /\ InStep(t)
      /\ Tasks(t) /\ Guarded(t) /\ Waits(t)
  BY DEF Parts
<1>1. /\ status' = status /\ made' = made /\ draft' = draft /\ done' = done
      /\ cp' = cp /\ msg' = msg
  BY ClientIs DEF dbVars
<1>2. \A x \in Reviewer : x # r => req'[x] = req[x]
  BY ClientIs
<1>3. req'[r].pc = "gate" /\ req[r].pc = "idle"
  BY ClientIs
<1>4. PastGate(t)' /\ InStep(t)' /\ Guarded(t)'
  BY <1>0, <1>1, <1>2, <1>3 DEF PastGate, InStep, Guarded, Leads, Own, Decided
<1>5. OnlyNewest(t)' /\ TurnClear(t)' /\ Tasks(t)' /\ Waits(t)'
  BY <1>0, <1>1 DEF OnlyNewest, TurnClear, Turning, Clear, Tasks, Leads, Waits, Decided
<1>6. ASSUME Sound(t)  PROVE Sound(t)'
  <2>1. Rejecting(t)' <=> Rejecting(t)
    BY <1>2, <1>3 DEF Rejecting, Own
  <2>2. Interrupts(t)' /\ Placed(t)'
    BY <1>1, <1>6, <2>1 DEF Sound, Interrupts, Placed, Decided
  <2>3. Approved(t)'
    BY <1>1, <1>2, <1>3, <1>6 DEF Sound, Approved, Right, Decided, Own
  <2> QED  BY <2>2, <2>3 DEF Sound
<1> QED  BY <1>4, <1>5, <1>6 DEF Onward, Parts

LEMMA EscalateOnward ==
  ASSUME TypeOK, NEW s \in Session, Escalate(s), Parts(s)
  PROVE  Onward(s)
<1>0. /\ OnlyNewest(s) /\ TurnClear(s) /\ PastGate(s) /\ InStep(s)
      /\ Tasks(s) /\ Guarded(s) /\ Waits(s)
  BY DEF Parts
<1>1. made' = made /\ draft' = draft /\ done' = done /\ cp' = cp /\ msg' = msg /\ req' = req
  BY EscalateIs
<1>2. \A i \in Index :
        status'[<<s, i>>] = IF status[<<s, i>>] = "paused" THEN "escalated" ELSE status[<<s, i>>]
  BY EscalateIs
<1>3. /\ \A x \in Reviewer : (Own(x, s)' <=> Own(x, s)) /\ (Own(x, s) => req[x].idx \in Index)
      /\ \A i, act : Decided(<<s, i>>, act)' <=> Decided(<<s, i>>, act)
      /\ Rejecting(s)' <=> Rejecting(s)
  BY <1>1, InFlightRequest DEF Own, Request, Decided, Rejecting
<1>4. OnlyNewest(s)' /\ PastGate(s)' /\ InStep(s)' /\ TurnClear(s)'
  BY <1>0, <1>1, <1>2, <1>3
     DEF OnlyNewest, PastGate, InStep, TurnClear, Turning, Clear, Terminal, BlockingStatuses
<1>5. \A path, target : Leads(s, path, target) =>
        /\ target = made'[s] /\ made'[s] \in Index
        /\ path = "order" => status'[<<s, made'[s]>>] = "approved"
  BY <1>1, <1>2 DEF Leads
<1>6. Tasks(s)' /\ Guarded(s)' /\ Waits(s)'
  BY <1>0, <1>1, <1>2, <1>3, <1>5 DEF Tasks, Guarded, Leads, Waits
<1>7. Sound(s) => Sound(s)'
  BY <1>1, <1>3 DEF Sound, Interrupts, Approved, Right, Placed
<1> QED  BY <1>4, <1>6, <1>7 DEF Onward, Parts

LEMMA SameKeepsSerial ==
  ASSUME TypeOK, NEW t \in Session, Same(t), Serial(t)
  PROVE  Serial(t)'
<1>1. /\ env' = env /\ made'[t] = made[t] /\ cp'[t] = cp[t]
      /\ \A i \in Index :
           status'[<<t, i>>] = status[<<t, i>>] /\ draft'[<<t, i>>] = draft[<<t, i>>]
      /\ \A r \in Reviewer : Own(r, t)' <=> Own(r, t)
      /\ \A r \in Reviewer : Own(r, t) => req'[r] = req[r]
      /\ \A m \in Msg : Turning(m, t)' <=> Turning(m, t)
  BY DEF Same, Own, Turning
<1>2. \A i, act : Decided(<<t, i>>, act)' <=> Decided(<<t, i>>, act)
  BY DEF Same, Decided
<1>3. /\ Steady' <=> Steady
      /\ RejectionBroke(t)' <=> RejectionBroke(t)
      /\ Rejecting(t)' <=> Rejecting(t)
  BY <1>1, <1>2 DEF Steady, RejectionBroke, Rejecting
<1>4. \A r \in Reviewer : Own(r, t) => req[r].idx \in Index
  BY InFlightRequest DEF Own, Request
<1>5. ASSUME Parts(t)  PROVE Parts(t)'
  <2>1. OnlyNewest(t)' /\ TurnClear(t)' /\ PastGate(t)' /\ InStep(t)'
    BY <1>1, <1>4, <1>5 DEF Parts, OnlyNewest, TurnClear, Clear, PastGate, InStep
  <2>2. Tasks(t)' /\ Guarded(t)' /\ Waits(t)'
    BY <1>1, <1>2, <1>5 DEF Parts, Tasks, Guarded, Leads, Waits
  <2> QED  BY <2>1, <2>2 DEF Parts
<1>6. ASSUME Sound(t)  PROVE Sound(t)'
  <2>1. Interrupts(t)'
    <3>1. cp[t].held # None => cp[t].held \in Index
      BY DEF TypeOK, Checkpoint, None, Index
    <3> QED  BY <1>1, <1>3, <1>6, <3>1 DEF Sound, Interrupts
  <2>2. Placed(t)'
    BY <1>1, <1>2, <1>6 DEF Sound, Placed
  <2>3. \A h \in 0..MaxPauses : Right(t, h) =>
          /\ Decided(<<t, made[t]>>, "approve")'
          /\ h # None /\ draft'[<<t, h>>] = "pending" => h = made'[t]
    BY <1>1, <1>2 DEF Right, None, Index
  <2>4. /\ cp[t].held \in 0..MaxPauses
        /\ \A r \in Reviewer : Own(r, t) => req[r].held \in 0..MaxPauses
    BY InFlightRequest DEF TypeOK, Checkpoint, Own, Request
  <2>5. Approved(t)'
    BY <1>1, <1>6, <2>3, <2>4 DEF Sound, Approved, Right
  <2> QED  BY <2>1, <2>2, <2>5 DEF Sound
<1> QED  BY <1>3, <1>5, <1>6 DEF Serial, Orders

SerialAlways == \A s \in Session : Serial(s)

\* Step by step: with one request and one run at a time, the parts are kept.
LEMMA SerialStep ==
  ASSUME TypeOK, TypeOK', OneRequestAtATime, BaseAlways, SerialAlways, [Next]_vars
  PROVE  SerialAlways'
<1>1. ASSUME NEW t \in Session, Same(t)  PROVE Serial(t)'
  BY <1>1, SameKeepsSerial DEF SerialAlways
<1>2. CASE UNCHANGED vars
  <2>1. \A t \in Session : Same(t)
    BY <1>2 DEF Same, vars
  <2> QED  BY <1>1, <2>1 DEF SerialAlways
<1>3. ASSUME NEW s \in Session, env' = env,
             \A i, act : Decided(<<s, i>>, act) => Decided(<<s, i>>, act)',
             Steady /\ Parts(s) => Onward(s)
      PROVE  Serial(s)'
  <2>1. Steady' <=> Steady
    BY <1>3 DEF Steady
  <2>2. RejectionBroke(s) => RejectionBroke(s)'
    BY <1>3 DEF RejectionBroke
  <2> QED  BY <1>3, <2>1, <2>2 DEF SerialAlways, Serial, Orders, Onward
<1>4. ASSUME NEW m \in Msg, Customer(m)  PROVE SerialAlways'
  <2> DEFINE s == SessionOf[m]
  <2>1. s \in Session
    OBVIOUS
  <2>2. Elsewhere(s) /\ env' = env /\ done' = done
    BY <1>4, CustomerElsewhere
  <2>3. Steady /\ Parts(s) => Onward(s)
    BY <1>4, <2>1, CustomerOnward DEF BaseAlways
  <2>4. \A i, act : Decided(<<s, i>>, act) => Decided(<<s, i>>, act)'
    BY <2>2 DEF Decided
  <2> HIDE DEF s
  <2>5. Serial(s)'
    BY <1>3, <2>1, <2>2, <2>3, <2>4
  <2> QED  BY <1>1, <2>1, <2>2, <2>5 DEF Elsewhere, SerialAlways
<1>5. ASSUME NEW r \in Reviewer, Transaction(r) \/ ResumedRun(r)  PROVE SerialAlways'
  <2>1. PICK s \in Session : Own(r, s)
    BY <1>5, RequestInFlight
  <2>2. Steady /\ Parts(s) => Alone(r, s)
    BY <2>1 DEF Alone, OneRequestAtATime, BaseAlways
  <2>3. Steady /\ Parts(s) => Onward(s)
    BY <1>5, <2>2, RequestOnward
  <2>4. Elsewhere(s) /\ env' = env /\ (done' = done \/ CommitDecision(r))
    BY <1>5, <2>1, RequestElsewhere
  <2>5. \A i, act : Decided(<<s, i>>, act) => Decided(<<s, i>>, act)'
    BY <2>4 DEF Decided, CommitDecision
  <2>6. Serial(s)'
    BY <1>3, <2>3, <2>4, <2>5
  <2> QED  BY <1>1, <2>4, <2>6 DEF Elsewhere, SerialAlways
<1>6. ASSUME NEW r \in Reviewer, Client(r)  PROVE SerialAlways'
  <2>1. env' = env /\ done' = done
    BY <1>6, ClientIs DEF dbVars
  <2>2. \A t \in Session : \A i, act : Decided(<<t, i>>, act) => Decided(<<t, i>>, act)'
    BY <2>1 DEF Decided
  <2>3. ASSUME NEW t \in Session  PROVE Serial(t)'
    BY <1>3, <1>6, <2>1, <2>2, ClientOnward
  <2> QED  BY <2>3 DEF SerialAlways
<1>7. ASSUME NEW s \in Session, Escalate(s)  PROVE SerialAlways'
  <2>1. Elsewhere(s) /\ env' = env /\ done' = done
    BY <1>7, EscalateIs
  <2>2. \A i, act : Decided(<<s, i>>, act) => Decided(<<s, i>>, act)'
    BY <2>1 DEF Decided
  <2>3. Parts(s) => Onward(s)
    BY <1>7, EscalateOnward
  <2>4. Serial(s)'
    BY <1>3, <2>1, <2>2, <2>3
  <2> QED  BY <1>1, <2>1, <2>4 DEF Elsewhere, SerialAlways
<1> QED  BY <1>2, <1>4, <1>5, <1>6, <1>7 DEF Next

LEMMA InitSerial == Init => SerialAlways
<1> SUFFICES ASSUME Init, NEW s \in Session  PROVE Parts(s) /\ Sound(s)
  BY DEF SerialAlways, Serial, Orders
<1>1. Idle.at = "idle"
  BY Idles
<1>2. \A i \in Index : status[<<s, i>>] = "none" /\ draft[<<s, i>>] = "none" /\ ~(i < made[s])
  BY DEF Init, Pause, Index
<1>3. /\ cp[s].at = "idle" /\ \A m \in Msg : ~Turning(m, s)
      /\ \A x \in Reviewer : ~Own(x, s)
  BY <1>1 DEF Init, Turning, Own, NoRequest
<1>4. Parts(s)
  BY <1>2, <1>3 DEF Parts, OnlyNewest, TurnClear, PastGate, InStep, Tasks, Guarded, Waits
<1>5. Sound(s)
  BY <1>2, <1>3 DEF Sound, Interrupts, Approved, Placed
<1> QED  BY <1>4, <1>5

LEMMA AlwaysSerial ==
  Spec /\ []OneRequestAtATime => [](TypeOK /\ BaseAlways /\ SerialAlways)
<1>1. TypeOK /\ TypeOK' /\ OneRequestAtATime /\ BaseAlways /\ SerialAlways /\ [Next]_vars =>
        BaseAlways' /\ SerialAlways'
  BY BaseStep, SerialStep DEF BaseAlways
<1> QED  BY <1>1, InitBase, InitSerial, TypeCorrect, PTL DEF Spec

\* services/hitl/service.py, core/agent/nodes/hitl_guard.py: a drafted order is placed only
\* under the pause an administrator approved, unless a rejection of the session may have
\* broken off; as long as its orders keep their tier, and neither the requests about it nor
\* its runs overlap.
THEOREM PlacedWasApproved == Spec /\ []OneRequestAtATime => []OrderWasApproved
<1>1. SerialAlways => OrderWasApproved
  BY DEF SerialAlways, Serial, Orders, Sound, Placed, OrderWasApproved
<1> QED  BY <1>1, AlwaysSerial, PTL

\* core/agent/nodes/hitl_guard.py: a pause nobody edited can be decided, under the same
\* conditions: its thread has an interrupt, or the tasks of a run that broke off.
THEOREM PausesAreResumable == Spec /\ []OneRequestAtATime => []PausedResumable
<1>1. SerialAlways => PausedResumable
  BY DEF SerialAlways, Serial, Parts, Waits, PausedResumable, Resumable
<1> QED  BY <1>1, AlwaysSerial, PTL
=============================================================================
