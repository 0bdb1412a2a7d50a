-------------------------- MODULE AnswerTurns_proofs --------------------------
(****************************************************************************)
(* Theorems about AnswerTurns, for any questions, turns, worlds, splits,    *)
(* bounds and number of changes of product data.                            *)
(****************************************************************************)
EXTENDS AnswerTurns, TLAPS

\* A turn that calls a rung has one.
CallHasRung == \A t \in Turns : pc[t] = "call" => turn[t].rungs # <<>>

Typed == TypeOK /\ CallHasRung

Places == {"new", "search", "choose", "tools", "tool", "ladder", "rung",
           "call", "grade", "merge", "insert", "trace", "hold"}

\* A turn that knows nothing yet, and the rungs from any model, have their types.
LEMMA BlankType == Blank \in Knows
  BY QuestionsAssumption, MaxVersionAssumption DEF Blank, Knows

LEMMA RungsType == ASSUME NEW m \in Models PROVE RungsFrom(m) \in Seq(Models)
<1>1. Ladder \in Seq(Models) /\ <<Economy>> \in Seq(Models) /\ <<m>> \in Seq(Models)
  BY DEF Ladder, Models, Premium, Economy, Light, Fallback
<1>2. <<m>> \o Ladder \in Seq(Models)
  BY <1>1
<1> QED  BY <1>1, <1>2, Zenon DEF RungsFrom

\* What the turns share.
SharedType ==
  /\ CacheTypeOK /\ world \in Worlds /\ cooling \subseteq Cloud /\ full \in BOOLEAN
  /\ held \in [Turns -> SUBSET Models] /\ rows \subseteq Turns /\ queue \subseteq Turns

\* The types, as those of what is shared and those of the turns.
LEMMA TypedParts ==
  Typed <=> SharedType /\ pc \in [Turns -> Places] /\ turn \in [Turns -> Knows] /\ CallHasRung
  BY DEF Typed, TypeOK, SharedType, Places

\* A turn that learns k and goes to p keeps the types of the turns.
LEMMA MoveType ==
  ASSUME Typed, SharedType', NEW t \in Turns, NEW k \in Knows, NEW p \in Places,
         Learn(t, k), Goto(t, p), p = "call" => k.rungs # <<>>
  PROVE  Typed'
<1>1. turn' \in [Turns -> Knows] /\ turn'[t] = k /\ \A u \in Turns \ {t} : turn'[u] = turn[u]
  BY TypedParts DEF Learn
<1>2. pc' \in [Turns -> Places] /\ pc'[t] = p /\ \A u \in Turns \ {t} : pc'[u] = pc[u]
  BY TypedParts DEF Goto
<1>3. CallHasRung'
  BY <1>1, <1>2, TypedParts DEF CallHasRung
<1> QED  BY <1>1, <1>2, <1>3 DEF Typed, TypeOK, SharedType, Places

\* So does one that only learns, or only goes.
LEMMA LearnType ==
  ASSUME Typed, SharedType', NEW t \in Turns, NEW k \in Knows, Learn(t, k), UNCHANGED pc,
         k.rungs # <<>> \/ pc[t] # "call"
  PROVE  Typed'
<1>1. pc[t] \in Places /\ Goto(t, pc[t])
  BY TypedParts DEF Goto
<1> QED  BY <1>1, MoveType

LEMMA GoType ==
  ASSUME Typed, SharedType', NEW t \in Turns, NEW p \in Places, UNCHANGED turn, Goto(t, p),
         p = "call" => turn[t].rungs # <<>>
  PROVE  Typed'
<1>1. turn[t] \in Knows /\ Learn(t, turn[t])
  BY TypedParts DEF Learn
<1> QED  BY <1>1, MoveType

\* A private step leaves what is shared alone.
LEMMA PrivateType == ASSUME Typed, Private PROVE SharedType'
  BY TypedParts DEF SharedType, Private, CacheTypeOK, cacheVars, session
--------------------------------------------------------------------------------
\* The search keeps the types.
LEMMA SearchType ==
  ASSUME Typed, NEW t \in Turns, Begin(t) \/ Hit(t) \/ Found(t) \/ Decline(t) \/ Split(t)
  PROVE  Typed'
<1> USE TypedParts, PrivateType
<1>1. turn[t] \in Knows /\ version \in 0 .. MaxVersion /\ "trace" \in Places
      /\ "search" \in Places /\ "choose" \in Places
  BY DEF SharedType, CacheTypeOK, Places
<1>2. CASE Begin(t)
  <2>1. PICK k \in world.kinds, q \in world.asks :
          /\ Learn(t, [Blank EXCEPT !.kind = k, !.asked = q, !.key = q])
          /\ Goto(t, IF k \in {"plain", "vague", "query"} THEN "search" ELSE "choose")
    BY <1>2 DEF Begin
  <2>2. k \in AllKinds /\ q \in Questions
    BY WorldsAssumption DEF SharedType, World
  <2>3. [Blank EXCEPT !.kind = k, !.asked = q, !.key = q] \in Knows
    BY <2>2, BlankType DEF Knows
  <2> QED  BY <1>1, <1>2, <2>1, <2>3, MoveType DEF Begin
<1>3. CASE Hit(t)
  <2>1. [turn[t] EXCEPT !.from = "cache"] \in Knows
    BY <1>1 DEF Knows
  <2> QED  BY <1>1, <1>3, <2>1, MoveType DEF Hit
<1>4. CASE Found(t)
  <2>1. [turn[t] EXCEPT !.seen = version, !.vector = TRUE, !.context = TRUE] \in Knows
    BY <1>1 DEF Knows
  <2> QED  BY <1>1, <1>4, <2>1, MoveType DEF Found
<1>5. CASE Decline(t)
  <2>1. [turn[t] EXCEPT !.from = "decline"] \in Knows
    BY <1>1 DEF Knows
  <2> QED  BY <1>1, <1>5, <2>1, MoveType DEF Decline
<1>6. CASE Split(t)
  <2> DEFINE parts == Parts[turn[t].asked]
             hits == {q \in parts : Cached(q)}
             ages == {version} \union {cache[q].seen : q \in hits}
             taint == \E q \in hits : cache[q].overlap \/ change = "committed"
  <2>0. turn[t].asked \in Questions
    BY <1>1 DEF Knows
  <2>1. parts \subseteq Questions
    BY <2>0, PartsAssumption
  <2>2. ages \subseteq 0 .. MaxVersion
    BY <1>1, <2>1 DEF SharedType, CacheTypeOK, Cached, Entry
  <2>3. PICK last \in parts, vector \in BOOLEAN, oldest \in ages :
          Learn(t, [turn[t] EXCEPT !.key = last, !.vector = vector, !.context = TRUE,
                                   !.seen = oldest, !.overlap = taint])
    BY <1>6 DEF Split
  <2>4. last \in Questions /\ oldest \in 0 .. MaxVersion /\ taint \in BOOLEAN
    BY <2>1, <2>2
  <2> HIDE DEF parts, hits, ages, taint
  <2>5. [turn[t] EXCEPT !.key = last, !.vector = vector, !.context = TRUE,
                        !.seen = oldest, !.overlap = taint] \in Knows
    BY <1>1, <2>4 DEF Knows
  <2> QED  BY <1>1, <1>6, <2>3, <2>5, MoveType DEF Split
<1> QED  BY <1>2, <1>3, <1>4, <1>5, <1>6
--------------------------------------------------------------------------------
\* The choice of a model and the tool loop keep the types.
LEMMA ChoiceType ==
  ASSUME Typed, NEW t \in Turns,
         Direct(t) \/ DirectFails(t) \/ Choose(t) \/ Downgrade(t) \/ Capped(t)
  PROVE  Typed'
<1> USE TypedParts, PrivateType
<1>1. turn[t] \in Knows /\ {"grade", "trace", "tools", "ladder"} \subseteq Places
  BY DEF Places
<1>2. CASE Direct(t)
  <2>1. [turn[t] EXCEPT !.from = Economy, !.model = Economy] \in Knows
    BY <1>1 DEF Knows, Models
  <2> QED  BY <1>1, <1>2, <2>1, MoveType DEF Direct
<1>3. CASE DirectFails(t)
  <2>1. [turn[t] EXCEPT !.from = "decline"] \in Knows
    BY <1>1 DEF Knows
  <2> QED  BY <1>1, <1>3, <2>1, MoveType DEF DirectFails
<1>4. CASE Choose(t)
  <2> DEFINE rungs == RungsFrom(IF Cascades(t) THEN Economy ELSE Chosen(t))
  <2>1. rungs \in Seq(Models) /\ Cascades(t) \in BOOLEAN
    BY RungsType DEF Cascades, Chosen, Models
  <2> HIDE DEF rungs
  <2>2. [turn[t] EXCEPT !.rungs = rungs, !.target = Cascades(t)] \in Knows
    BY <1>1, <2>1 DEF Knows
  <2> QED  BY <1>1, <1>4, <2>2, MoveType DEF Choose, rungs
<1>5. CASE Downgrade(t)
  <2>1. RungsFrom(Light) \in Seq(Models)
    BY RungsType DEF Models
  <2>2. [turn[t] EXCEPT !.rungs = RungsFrom(Light)] \in Knows
    BY <1>1, <2>1 DEF Knows
  <2> QED  BY <1>1, <1>5, <2>2, MoveType DEF Downgrade
<1>6. CASE Capped(t)
  <2>1. [turn[t] EXCEPT !.from = "capped"] \in Knows
    BY <1>1 DEF Knows
  <2> QED  BY <1>1, <1>6, <2>1, MoveType DEF Capped
<1> QED  BY <1>2, <1>3, <1>4, <1>5, <1>6

\* The tool loop keeps the types.
LEMMA ToolsType ==
  ASSUME Typed, NEW t \in Turns, ToolsStart(t) \/ ToolCall(t) \/ ToolFails(t)
  PROVE  Typed'
<1> USE TypedParts
<1>1. turn[t] \in Knows /\ turn[t].hops \in Nat
      /\ {"tool", "trace", "ladder"} \subseteq Places /\ <<>> \in Seq(Models)
  BY DEF Knows, Places
<1>2. CASE ToolsStart(t)
  <2>1. PICK spent \in MayBeExhausted(t) :
          Goto(t, IF Premium \in cooling \/ spent THEN "ladder" ELSE "tool")
    BY <1>2 DEF ToolsStart
  <2> QED  BY <1>1, <1>2, <2>1, GoType, PrivateType DEF ToolsStart
<1>3. CASE ToolCall(t)
  <2>1. SharedType'
    BY <1>3 DEF ToolCall, CountUse, SharedType, CacheTypeOK, cacheVars, Models
  <2>2. [turn[t] EXCEPT !.from = "tools", !.rungs = <<>>, !.hops = 0] \in Knows
    BY <1>1 DEF Knows
  <2>3. [turn[t] EXCEPT !.hops = @ + 1] \in Knows
    <3>1. \A n \in Nat : [turn[t] EXCEPT !.hops = n] \in Knows
      BY <1>1 DEF Knows
    <3>2. turn[t].hops + 1 \in Nat
      BY <1>1
    <3> QED  BY <3>1, <3>2
  <2>4. [turn[t] EXCEPT !.hops = 0] \in Knows
    BY <1>1 DEF Knows
  <2>5. pc[t] # "call"
    BY <1>3 DEF ToolCall, At
  <2> QED  BY <1>1, <1>3, <2>1, <2>2, <2>3, <2>4, <2>5, MoveType, LearnType DEF ToolCall
<1>4. CASE ToolFails(t)
  <2>1. SharedType'
    BY <1>4 DEF ToolFails, SharedType, CacheTypeOK, cacheVars, session, Cloud
  <2>2. /\ [turn[t] EXCEPT !.from = "qwen3-4b", !.rungs = <<>>, !.hops = 0] \in Knows
        /\ [turn[t] EXCEPT !.hops = 0, !.trouble = TRUE] \in Knows
    BY <1>1 DEF Knows
  <2> QED  BY <1>1, <1>4, <2>1, <2>2, MoveType DEF ToolFails
<1> QED  BY <1>2, <1>3, <1>4

\* The ladder keeps the types: a turn at "call" has a rung to call.
LEMMA LadderType ==
  ASSUME Typed, NEW t \in Turns,
         LadderStart(t) \/ SkipRung(t) \/ TryRung(t) \/ RungAnswers(t) \/ RungFails(t)
           \/ Degrade(t)
  PROVE  Typed'
<1> USE TypedParts
<1>1. turn[t] \in Knows /\ turn[t].rungs \in Seq(Models) /\ <<>> \in Seq(Models)
      /\ {"rung", "call", "grade", "trace", "hold"} \subseteq Places
  BY DEF Knows, Places
<1>2. turn[t].rungs # <<>> => /\ Head(turn[t].rungs) \in Models
                             /\ Tail(turn[t].rungs) \in Seq(Models)
  BY <1>1
<1>3. CASE LadderStart(t)
  <2>1. \A spent \in BOOLEAN : [turn[t] EXCEPT !.skip = spent] \in Knows
    BY <1>1 DEF Knows
  <2>2. MayBeExhausted(t) \subseteq BOOLEAN
    BY DEF MayBeExhausted
  <2> QED  BY <1>1, <1>3, <2>1, <2>2, MoveType, PrivateType DEF LadderStart
<1>4. CASE SkipRung(t)
  <2>1. Tail(turn[t].rungs) \in Seq(Models) /\ pc[t] # "call"
    BY <1>2, <1>4 DEF SkipRung, Stops, At
  <2>2. [turn[t] EXCEPT !.rungs = Tail(@), !.trouble = TRUE] \in Knows
    BY <1>1, <2>1 DEF Knows
  <2> QED  BY <1>4, <2>1, <2>2, LearnType, PrivateType DEF SkipRung
<1>5. CASE TryRung(t)
  BY <1>1, <1>5, GoType, PrivateType DEF TryRung, Stops
<1>6. CASE RungAnswers(t)
  <2> DEFINE m == Head(turn[t].rungs)
  <2>1. m \in Models
    BY <1>2, <1>6 DEF RungAnswers, At, CallHasRung
  <2> HIDE DEF m
  <2>2. SharedType'
    BY <1>6, <2>1 DEF RungAnswers, CountUse, SharedType, CacheTypeOK, cacheVars, m
  <2>3. [turn[t] EXCEPT !.from = m, !.model = m, !.rungs = <<>>, !.skip = FALSE] \in Knows
    BY <1>1, <2>1 DEF Knows
  <2> QED  BY <1>1, <1>6, <2>2, <2>3, MoveType DEF RungAnswers, m
<1>7. CASE RungFails(t)
  <2>1. SharedType'
    BY <1>7 DEF RungFails, SharedType, CacheTypeOK, cacheVars, session
  <2>2. Tail(turn[t].rungs) \in Seq(Models)
    BY <1>2, <1>7 DEF RungFails, At, CallHasRung
  <2>3. \A late \in BOOLEAN :
          [turn[t] EXCEPT !.rungs = Tail(@), !.late = late, !.trouble = TRUE] \in Knows
    BY <1>1, <2>2 DEF Knows
  <2>4. [turn[t] EXCEPT !.rungs = Tail(@), !.trouble = TRUE] \in Knows
    BY <1>1, <2>2 DEF Knows
  <2> QED  BY <1>1, <1>7, <2>1, <2>3, <2>4, MoveType DEF RungFails
<1>8. CASE Degrade(t)
  <2>1. SharedType'
    BY <1>8 DEF Degrade, SharedType, CacheTypeOK, cacheVars
  <2>2. [turn[t] EXCEPT !.from = "holding"] \in Knows
    BY <1>1 DEF Knows
  <2> QED  BY <1>1, <1>8, <2>1, <2>2, MoveType DEF Degrade
<1> QED  BY <1>3, <1>4, <1>5, <1>6, <1>7, <1>8

\* The groundedness check keeps the types.
LEMMA CheckType ==
  ASSUME Typed, NEW t \in Turns,
         Passes(t) \/ Refused(t) \/ Regenerate(t) \/ RegenerationFails(t)
  PROVE  Typed'
<1> USE TypedParts, PrivateType
<1>1. turn[t] \in Knows /\ turn[t].regens + 1 \in Nat /\ turn[t].uncounted \in BOOLEAN
      /\ {"merge", "trace"} \subseteq Places
  BY DEF Knows, Places
<1>2. [turn[t] EXCEPT !.from = "decline"] \in Knows
  BY <1>1 DEF Knows
<1>3. Regenerator(t) \in Models \union {"none"}
  BY <1>1 DEF Regenerator, Knows, Models
<1>4. CASE Passes(t)
  BY <1>1, <1>4, GoType DEF Passes
<1>5. CASE Refused(t)
  BY <1>1, <1>2, <1>5, MoveType DEF Refused
<1>6. CASE Regenerate(t)
  <2>1. \A n \in Nat, m \in Models \union {"none"}, u \in BOOLEAN :
          [turn[t] EXCEPT !.regens = n, !.target = FALSE, !.model = m, !.from = m,
                          !.uncounted = u] \in Knows
    BY <1>1 DEF Knows
  <2>2. pc[t] # "call"
    BY <1>6 DEF Regenerate, At
  <2> QED  BY <1>1, <1>3, <1>6, <2>1, <2>2, LearnType DEF Regenerate
<1>7. CASE RegenerationFails(t)
  <2>1. \A n \in Nat, m \in Models \union {"none"} :
          [turn[t] EXCEPT !.regens = n, !.target = FALSE, !.model = m, !.from = Economy]
            \in Knows
    BY <1>1 DEF Knows, Models
  <2>2. pc[t] # "call"
    BY <1>7 DEF RegenerationFails, At
  <2> QED  BY <1>1, <1>2, <1>3, <1>7, <2>1, <2>2, LearnType, MoveType DEF RegenerationFails
<1> QED  BY <1>4, <1>5, <1>6, <1>7

\* The commit and the rollback of a session keep the types of the counters.
LEMMA SessionType ==
  ASSUME Typed, NEW t \in Turns, Commit(t) \/ Rollback(t)
  PROVE  /\ full' \in BOOLEAN /\ held' \in [Turns -> SUBSET Models]
         /\ rows' \subseteq Turns /\ queue' \subseteq Turns
  BY TypedParts DEF SharedType, Commit, Rollback

\* The writes that close a turn keep the types.
LEMMA WritesType ==
  ASSUME Typed, NEW t \in Turns,
         MergeRow(t) \/ WriteRow(t) \/ WriteClashes(t) \/ Trace(t) \/ Hold(t)
  PROVE  Typed'
<1> USE TypedParts
<1>1. turn[t] \in Knows /\ turn[t].uncounted \in BOOLEAN /\ turn[t].key \in Questions
      /\ {"insert", "trace", "new"} \subseteq Places
  BY DEF Knows, Places
<1>2. CASE MergeRow(t)
  <2>1. \A e \in BOOLEAN : [turn[t] EXCEPT !.exists = e] \in Knows
    BY <1>1 DEF Knows
  <2>2. Cached(turn[t].key) \in BOOLEAN
    BY DEF Cached
  <2> QED  BY <1>1, <1>2, <2>1, <2>2, MoveType, PrivateType DEF MergeRow
<1>3. CASE WriteRow(t)
  <2> DEFINE row == [about |-> turn[t].asked, seen |-> turn[t].seen,
                     overlap |-> turn[t].overlap]
  <2>1. row \in Entry
    BY <1>1 DEF Knows, Entry
  <2> HIDE DEF row
  <2>2. cache' = [cache EXCEPT ![turn[t].key] = row]
    BY <1>3 DEF WriteRow, row
  <2>3. CacheTypeOK'
    BY <1>1, <1>3, <2>1, <2>2 DEF WriteRow, SharedType, CacheTypeOK
  <2>4. SharedType'
    BY <1>3, <2>3, SessionType DEF WriteRow, SharedType
  <2> QED  BY <1>1, <1>3, <2>4, GoType DEF WriteRow
<1>4. CASE WriteClashes(t)
  <2>1. SharedType'
    BY <1>4, SessionType DEF WriteClashes, SharedType, CacheTypeOK, cacheVars
  <2>2. \A u \in BOOLEAN : [turn[t] EXCEPT !.broken = TRUE, !.uncounted = u] \in Knows
    BY <1>1 DEF Knows
  <2> QED  BY <1>1, <1>4, <2>1, <2>2, MoveType DEF WriteClashes
<1>5. CASE Trace(t)
  <2>1. SharedType'
    BY <1>5, SessionType DEF Trace, SharedType, CacheTypeOK, cacheVars
  <2> QED  BY <1>1, <1>5, <2>1, BlankType, MoveType DEF Trace
<1>6. CASE Hold(t)
  <2>1. SharedType'
    BY <1>6, SessionType DEF Hold, SharedType, CacheTypeOK, cacheVars
  <2> QED  BY <1>1, <1>6, <2>1, BlankType, MoveType DEF Hold
<1> QED  BY <1>2, <1>3, <1>4, <1>5, <1>6

\* So do a model that is used again, a change of product data and what empties
\* the cache.
LEMMA WorldType ==
  ASSUME Typed, (\E m \in Models : CoolOff(m)) \/ ChangeData \/ CleanCache
  PROVE  Typed'
<1> USE TypedParts
<1>1. CASE \E m \in Models : CoolOff(m)
  <2>1. SharedType' /\ UNCHANGED <<pc, turn>>
    BY <1>1 DEF CoolOff, SharedType, CacheTypeOK, cacheVars, session
  <2> QED  BY <2>1 DEF Typed, TypeOK, SharedType, Places, CallHasRung
<1>2. CASE ChangeData
  <2>1. version \in Nat /\ MaxVersion \in Nat /\ version + 1 \in 0 .. MaxVersion
    BY <1>2, MaxVersionAssumption DEF ChangeData, CommitChange, SharedType, CacheTypeOK
  <2>2. SharedType'
    BY <1>2, <2>1 DEF ChangeData, CommitChange, SharedType, CacheTypeOK, session
  <2>3. \A t \in Turns : turn[t] \in Knows /\ [turn[t] EXCEPT !.overlap = TRUE] \in Knows
    <3> TAKE t \in Turns
    <3>1. turn[t] \in Knows
      OBVIOUS
    <3> QED  BY <3>1 DEF Knows
  <2>4. turn' \in [Turns -> Knows]
    BY <1>2, <2>3 DEF ChangeData
  <2>5. \A t \in Turns : turn'[t].rungs = turn[t].rungs
    <3> TAKE t \in Turns
    <3>1. turn[t] \in Knows
      OBVIOUS
    <3> QED  BY <1>2, <3>1 DEF ChangeData, Knows
  <2>6. CallHasRung' /\ pc' = pc
    BY <1>2, <2>5 DEF ChangeData, CallHasRung
  <2> QED  BY <2>2, <2>4, <2>6 DEF Typed, TypeOK, SharedType, Places
<1>3. CASE CleanCache
  <2>1. SharedType' /\ UNCHANGED <<pc, turn>>
    BY <1>3 DEF CleanCache, Invalidate, InvalidationFails, Expire, SharedType, CacheTypeOK, session
  <2> QED  BY <2>1 DEF Typed, TypeOK, SharedType, Places, CallHasRung
<1> QED  BY <1>1, <1>2, <1>3

\* At the start the types hold.
LEMMA InitType == Init => Typed
<1> SUFFICES ASSUME Init PROVE Typed
  OBVIOUS
<1>1. CacheTypeOK
  <2>1. 0 \in 0 .. MaxVersion
    BY MaxVersionAssumption
  <2>2. [q \in Questions |-> NoEntry] \in [Questions -> Entry \union {NoEntry}]
    OBVIOUS
  <2> QED  BY <2>1, <2>2, Zenon DEF Init, CacheInit, CacheTypeOK
<1>2. turn \in [Turns -> Knows] /\ pc \in [Turns -> Places] /\ held \in [Turns -> SUBSET Models]
  BY BlankType DEF Init, Places
<1>3. CallHasRung
  BY DEF Init, CallHasRung
<1>4. SharedType
  BY <1>1, <1>2 DEF Init, SharedType
<1> QED  BY <1>2, <1>3, <1>4, TypedParts

\* Every step keeps the types.
LEMMA NextType == Typed /\ [Next]_vars => Typed'
<1> SUFFICES ASSUME Typed, [Next]_vars PROVE Typed'
  OBVIOUS
<1>1. ASSUME NEW t \in Turns, Begin(t) \/ Step(t) PROVE Typed'
  BY <1>1, SearchType, ChoiceType, ToolsType, LadderType, CheckType, WritesType DEF Step
<1>2. CASE UNCHANGED vars
  BY <1>2 DEF vars, cacheVars, session, Typed, TypeOK, CacheTypeOK, CallHasRung
<1> QED  BY <1>1, <1>2, WorldType DEF Next

\* Whatever turns are answered at once, what they know and the rows they share
\* have their types, and a turn that calls a rung of the ladder has one: the
\* ladder never looks past its last rung (resilience.py complete_with_ladder).
THEOREM TypeCorrect == Spec => [](TypeOK /\ CallHasRung)
<1>1. Spec => []Typed
  BY InitType, NextType, PTL DEF Spec
<1> QED  BY <1>1, PTL DEF Typed
--------------------------------------------------------------------------------
(****************************************************************************)
(* Staleness.  StaleNeedsOverlap is about the rows; it is inductive with    *)
(* the same fact about the context of every turn that may write one, and    *)
(* with the places at which a turn has a vector to write it under.          *)
(****************************************************************************)
\* What a turn at place p knows: old products are known to be old.
Aware(k, p) ==
  /\ k.vector /\ k.seen < version => k.overlap \/ stays
  /\ p \in {"new", "search"} => ~k.vector
  /\ p \in {"merge", "insert"} => k.vector

TurnsAware == \A t \in Turns : Aware(turn[t], pc[t])

IInv == Typed /\ StaleNeedsOverlap /\ TurnsAware

\* A turn that moves and leaves the cache alone has only itself to answer for.
LEMMA MoveAware ==
  ASSUME IInv, UNCHANGED cacheVars, NEW t \in Turns, NEW k, NEW p,
         Learn(t, k), Goto(t, p), Aware(k, p)
  PROVE  StaleNeedsOverlap' /\ TurnsAware'
<1>1. StaleNeedsOverlap'
  BY DEF IInv, StaleNeedsOverlap, cacheVars, Cached
<1>2. ASSUME NEW u \in Turns PROVE Aware(turn[u], pc[u])'
  <2>1. Aware(turn'[u], pc'[u])
    BY TypedParts DEF IInv, TurnsAware, Learn, Goto
  <2> QED  BY <2>1 DEF Aware, cacheVars
<1> QED  BY <1>1, <1>2 DEF TurnsAware

\* k knows of the products what j knows.
Alike(k, j) == k.vector = j.vector /\ k.seen = j.seen /\ k.overlap = j.overlap

\* A turn whose context is what it was stays aware of its age, unless it goes
\* on to write it.
LEMMA AlikeAware ==
  ASSUME IInv, UNCHANGED cacheVars, NEW t \in Turns, NEW k, NEW p, Learn(t, k), Goto(t, p),
         Alike(k, turn[t]),
         p \in {"new", "search", "merge", "insert"} => p = pc[t] \/ (p \in {"merge", "insert"} /\ k.vector)
  PROVE  StaleNeedsOverlap' /\ TurnsAware'
<1>1. Aware(turn[t], pc[t])
  BY DEF IInv, TurnsAware
<1>2. Aware(k, p)
  BY <1>1 DEF Aware, Alike
<1> QED  BY <1>2, MoveAware

\* The places a turn goes to on its way to an answer.
Between == {"choose", "tools", "tool", "ladder", "rung", "call", "grade", "trace", "hold"}

\* The search: a context that the hybrid search found is as new as the data, and
\* one with a hit in it is as old as the hit, which is known of.
LEMMA SearchAware ==
  ASSUME IInv, NEW t \in Turns, Begin(t) \/ Hit(t) \/ Found(t) \/ Decline(t) \/ Split(t)
  PROVE  StaleNeedsOverlap' /\ TurnsAware'
<1>1. turn[t] \in Knows /\ version \in Nat /\ UNCHANGED cacheVars
  <2>1. turn[t] \in Knows /\ version \in 0 .. MaxVersion
    BY TypedParts DEF IInv, SharedType, CacheTypeOK
  <2>2. UNCHANGED cacheVars
    BY Zenon DEF Begin, Hit, Found, Decline, Split, Private
  <2> QED  BY <2>1, <2>2, MaxVersionAssumption
<1>2. CASE Begin(t)
  <2>1. PICK k \in world.kinds, q \in world.asks :
          /\ Learn(t, [Blank EXCEPT !.kind = k, !.asked = q, !.key = q])
          /\ Goto(t, IF k \in {"plain", "vague", "query"} THEN "search" ELSE "choose")
    BY <1>2 DEF Begin
  <2>2. ~[Blank EXCEPT !.kind = k, !.asked = q, !.key = q].vector
    BY DEF Blank
  <2> QED  BY <1>1, <2>1, <2>2, MoveAware DEF Aware
<1>3. CASE Hit(t)
  <2>1. Alike([turn[t] EXCEPT !.from = "cache"], turn[t])
    BY <1>1 DEF Alike, Knows
  <2> QED  BY <1>1, <1>3, <2>1, AlikeAware DEF Hit
<1>4. CASE Found(t)
  <2> DEFINE k == [turn[t] EXCEPT !.seen = version, !.vector = TRUE, !.context = TRUE]
  <2>1. k.seen = version
    BY <1>1 DEF Knows
  <2> HIDE DEF k
  <2>2. Aware(k, "choose")
    BY <1>1, <2>1 DEF Aware
  <2> QED  BY <1>1, <1>4, <2>2, MoveAware DEF Found, k
<1>5. CASE Decline(t)
  <2>1. Alike([turn[t] EXCEPT !.from = "decline"], turn[t])
    BY <1>1 DEF Alike, Knows
  <2> QED  BY <1>1, <1>5, <2>1, AlikeAware DEF Decline
<1>6. CASE Split(t)
  <2> DEFINE parts == Parts[turn[t].asked]
             hits == {q \in parts : Cached(q)}
             ages == {version} \union {cache[q].seen : q \in hits}
             taint == \E q \in hits : cache[q].overlap \/ change = "committed"
  <2>1. PICK last \in parts, vector \in BOOLEAN, oldest \in ages :
          Learn(t, [turn[t] EXCEPT !.key = last, !.vector = vector, !.context = TRUE,
                                   !.seen = oldest, !.overlap = taint])
    BY <1>6 DEF Split
  <2>2. hits \subseteq Questions /\ \A q \in hits : Cached(q)
    <3>1. turn[t].asked \in Questions
      BY <1>1 DEF Knows
    <3> QED  BY <3>1, PartsAssumption
  <2>3. oldest < version => taint \/ stays
    <3>1. SUFFICES ASSUME oldest < version, ~stays PROVE taint
      OBVIOUS
    <3>2. PICK q \in hits : oldest = cache[q].seen
      BY <1>1, <3>1
    <3> QED  BY <2>2, <3>1, <3>2 DEF IInv, StaleNeedsOverlap
  <2> HIDE DEF parts, hits, ages, taint
  <2> DEFINE k == [turn[t] EXCEPT !.key = last, !.vector = vector, !.context = TRUE,
                                  !.seen = oldest, !.overlap = taint]
  <2>4. k.seen = oldest /\ k.overlap = taint
    BY <1>1 DEF Knows
  <2> HIDE DEF k
  <2>5. Aware(k, "choose")
    BY <2>3, <2>4 DEF Aware
  <2> QED  BY <1>1, <1>6, <2>1, <2>5, MoveAware DEF Split, k
<1> QED  BY <1>2, <1>3, <1>4, <1>5, <1>6

\* What makes and checks the answer leaves its context alone.
LEMMA MakeAware ==
  ASSUME IInv, NEW t \in Turns,
         \/ Direct(t) \/ DirectFails(t) \/ Choose(t) \/ Downgrade(t) \/ Capped(t)
         \/ ToolsStart(t) \/ ToolCall(t) \/ ToolFails(t)
         \/ LadderStart(t) \/ SkipRung(t) \/ TryRung(t) \/ RungAnswers(t) \/ RungFails(t)
         \/ Degrade(t) \/ Refused(t) \/ Regenerate(t) \/ RegenerationFails(t)
  PROVE  StaleNeedsOverlap' /\ TurnsAware'
<1>1. turn[t] \in Knows
  BY TypedParts DEF IInv
<1>2. ASSUME NEW k, NEW p, UNCHANGED cacheVars, Learn(t, k), Goto(t, p),
             Alike(k, turn[t]), p \in Between
      PROVE  StaleNeedsOverlap' /\ TurnsAware'
  BY <1>2, AlikeAware DEF Between
<1>3. UNCHANGED turn => Learn(t, turn[t]) /\ Alike(turn[t], turn[t])
  BY TypedParts DEF IInv, Learn, Alike
<1>4. UNCHANGED pc /\ pc[t] \in Between => \E p \in Between : Goto(t, p)
  BY TypedParts DEF IInv, Goto
<1>5. CASE Direct(t) \/ DirectFails(t) \/ Choose(t) \/ Downgrade(t) \/ Capped(t)
  <2>1. \A m : Alike([turn[t] EXCEPT !.from = m, !.model = m], turn[t])
    BY <1>1 DEF Alike, Knows
  <2>2. \A f : Alike([turn[t] EXCEPT !.from = f], turn[t])
    BY <1>1 DEF Alike, Knows
  <2>3. \A r, b : Alike([turn[t] EXCEPT !.rungs = r, !.target = b], turn[t])
    BY <1>1 DEF Alike, Knows
  <2>4. \A r : Alike([turn[t] EXCEPT !.rungs = r], turn[t])
    BY <1>1 DEF Alike, Knows
  <2> QED  BY <1>2, <1>5, <2>1, <2>2, <2>3, <2>4
           DEF Direct, DirectFails, Choose, Downgrade, Capped, Private, Between
<1>6. CASE ToolsStart(t) \/ LadderStart(t) \/ TryRung(t)
  <2>1. \A b : Alike([turn[t] EXCEPT !.skip = b], turn[t])
    BY <1>1 DEF Alike, Knows
  <2> QED  BY <1>2, <1>3, <1>6, <2>1 DEF ToolsStart, LadderStart, TryRung, Private, Between
<1>7. CASE ToolCall(t)
  <2>1. \A f, r, n : Alike([turn[t] EXCEPT !.from = f, !.rungs = r, !.hops = n], turn[t])
    BY <1>1 DEF Alike, Knows
  <2>2. \A n : Alike([turn[t] EXCEPT !.hops = n], turn[t])
    BY <1>1 DEF Alike, Knows
  <2>3. pc[t] = "tool" /\ UNCHANGED cacheVars
    BY <1>7 DEF ToolCall, At
  <2>4. \E k, p : Learn(t, k) /\ Goto(t, p) /\ Alike(k, turn[t]) /\ p \in Between
    BY <1>4, <1>7, <2>1, <2>2, <2>3 DEF ToolCall, Between
  <2> QED  BY <1>2, <2>3, <2>4
<1>8. CASE ToolFails(t)
  <2>1. \A f, r, n : Alike([turn[t] EXCEPT !.from = f, !.rungs = r, !.hops = n], turn[t])
    BY <1>1 DEF Alike, Knows
  <2>2. \A n, b : Alike([turn[t] EXCEPT !.hops = n, !.trouble = b], turn[t])
    BY <1>1 DEF Alike, Knows
  <2> QED  BY <1>2, <1>8, <2>1, <2>2 DEF ToolFails, Between
<1>9. CASE SkipRung(t)
  <2>1. \A r, b : Alike([turn[t] EXCEPT !.rungs = r, !.trouble = b], turn[t])
    BY <1>1 DEF Alike, Knows
  <2>2. pc[t] = "rung" /\ UNCHANGED cacheVars
    BY <1>9 DEF SkipRung, At, Private
  <2> QED  BY <1>2, <1>4, <1>9, <2>1, <2>2 DEF SkipRung, Between
<1>10. CASE RungAnswers(t)
  <2>1. \A m : Alike([turn[t] EXCEPT !.from = m, !.model = m, !.rungs = <<>>, !.skip = FALSE],
                      turn[t])
    BY <1>1 DEF Alike, Knows
  <2> QED  BY <1>2, <1>10, <2>1 DEF RungAnswers, Between
<1>11. CASE RungFails(t)
  <2>1. \A r, b, c : Alike([turn[t] EXCEPT !.rungs = r, !.late = b, !.trouble = c], turn[t])
    BY <1>1 DEF Alike, Knows
  <2>2. \A r, c : Alike([turn[t] EXCEPT !.rungs = r, !.trouble = c], turn[t])
    BY <1>1 DEF Alike, Knows
  <2> QED  BY <1>2, <1>11, <2>1, <2>2 DEF RungFails, Between
<1>12. CASE Degrade(t) \/ Refused(t)
  <2>1. \A f : Alike([turn[t] EXCEPT !.from = f], turn[t])
    BY <1>1 DEF Alike, Knows
  <2> QED  BY <1>2, <1>12, <2>1 DEF Degrade, Refused, Private, Between
<1>13. CASE Regenerate(t) \/ RegenerationFails(t)
  <2>1. \A n, m, b : Alike([turn[t] EXCEPT !.regens = n, !.target = FALSE, !.model = m,
                                           !.from = m, !.uncounted = b], turn[t])
    BY <1>1 DEF Alike, Knows
  <2>2. \A n, m, f : Alike([turn[t] EXCEPT !.regens = n, !.target = FALSE, !.model = m,
                                           !.from = f], turn[t])
    BY <1>1 DEF Alike, Knows
  <2>3. \A f : Alike([turn[t] EXCEPT !.from = f], turn[t])
    BY <1>1 DEF Alike, Knows
  <2>4. pc[t] = "grade" /\ UNCHANGED cacheVars
    BY <1>13 DEF Regenerate, RegenerationFails, At, Private
  <2>5. \E k, p : Learn(t, k) /\ Goto(t, p) /\ Alike(k, turn[t]) /\ p \in Between
    BY <1>4, <1>13, <2>1, <2>2, <2>3, <2>4 DEF Regenerate, RegenerationFails, Between
  <2> QED  BY <1>2, <2>4, <2>5
<1> QED  BY <1>5, <1>6, <1>7, <1>8, <1>9, <1>10, <1>11, <1>12, <1>13

\* The writes: only a turn with a vector writes a row, and the row is no older
\* than the context it was written from.
LEMMA WriteAware ==
  ASSUME IInv, NEW t \in Turns,
         \/ Passes(t) \/ MergeRow(t) \/ WriteRow(t) \/ WriteClashes(t) \/ Trace(t) \/ Hold(t)
  PROVE  StaleNeedsOverlap' /\ TurnsAware'
<1>1. turn[t] \in Knows /\ pc[t] \in Places /\ Aware(turn[t], pc[t])
  BY TypedParts DEF IInv, TurnsAware
<1>2. CASE Passes(t)
  <2>1. UNCHANGED cacheVars /\ Learn(t, turn[t])
    BY <1>2, TypedParts DEF IInv, Passes, Private, Learn
  <2>2. \E p : Goto(t, p) /\ Aware(turn[t], p)
    BY <1>1, <1>2 DEF Passes, Aware
  <2> QED  BY <2>1, <2>2, MoveAware
<1>3. CASE MergeRow(t)
  <2>1. \A e : Alike([turn[t] EXCEPT !.exists = e], turn[t])
    BY <1>1 DEF Alike, Knows
  <2>2. turn[t].vector
    BY <1>1, <1>3 DEF MergeRow, At, Aware
  <2>3. \A e : Aware([turn[t] EXCEPT !.exists = e], "insert")
    BY <1>1, <2>1, <2>2 DEF Alike, Aware
  <2> QED  BY <1>3, <2>3, MoveAware DEF MergeRow, Private
<1>4. CASE WriteRow(t)
  <2> DEFINE row == [about |-> turn[t].asked, seen |-> turn[t].seen,
                     overlap |-> turn[t].overlap]
  <2>1. UNCHANGED <<version, change, stays, turn>> /\ Goto(t, "trace")
    BY <1>4 DEF WriteRow
  <2>2. cache' = [cache EXCEPT ![turn[t].key] = row]
    BY <1>4 DEF WriteRow
  <2>3. row.seen < version => row.overlap \/ stays
    BY <1>1, <1>4 DEF WriteRow, At, Aware
  <2> HIDE DEF row
  <2>4. \A q \in Questions : cache'[q] = row \/ cache'[q] = cache[q]
    BY <2>2, TypedParts DEF IInv, SharedType, CacheTypeOK
  <2>5. StaleNeedsOverlap'
    BY <2>1, <2>3, <2>4 DEF IInv, StaleNeedsOverlap, Cached
  <2>6. ASSUME NEW u \in Turns PROVE Aware(turn[u], pc[u])'
    <3>1. pc'[u] = pc[u] \/ pc'[u] = "trace"
      BY <2>1, TypedParts DEF IInv, Goto
    <3> QED  BY <2>1, <3>1 DEF IInv, TurnsAware, Aware
  <2> QED  BY <2>5, <2>6 DEF TurnsAware
<1>5. CASE WriteClashes(t)
  <2>1. \A b, u : Alike([turn[t] EXCEPT !.broken = b, !.uncounted = u], turn[t])
    BY <1>1 DEF Alike, Knows
  <2> QED  BY <1>5, <2>1, AlikeAware DEF WriteClashes
<1>6. CASE Trace(t) \/ Hold(t)
  <2>1. Aware(Blank, "new")
    BY DEF Aware, Blank
  <2> QED  BY <1>6, <2>1, MoveAware DEF Trace, Hold
<1> QED  BY <1>2, <1>3, <1>4, <1>5, <1>6

\* The rest: a change of product data taints every turn that has a context.
LEMMA WorldAware ==
  ASSUME IInv, (\E m \in Models : CoolOff(m)) \/ ChangeData \/ CleanCache \/ UNCHANGED vars
  PROVE  StaleNeedsOverlap' /\ TurnsAware'
<1>1. CASE (\E m \in Models : CoolOff(m)) \/ UNCHANGED vars
  <2>1. UNCHANGED <<cacheVars, turn, pc>>
    BY <1>1 DEF CoolOff, vars
  <2> QED  BY <2>1 DEF IInv, StaleNeedsOverlap, TurnsAware, Aware, cacheVars, Cached
<1>2. CASE ChangeData
  <2>1. StaleNeedsOverlap'
    BY <1>2 DEF ChangeData, CommitChange, StaleNeedsOverlap
  <2>2. ASSUME NEW u \in Turns PROVE Aware(turn[u], pc[u])'
    <3>1. turn[u] \in Knows /\ Aware(turn[u], pc[u])
      BY TypedParts DEF IInv, TurnsAware
    <3>2. CASE pc[u] \in {"new", "search"}
      BY <1>2, <3>1, <3>2 DEF ChangeData, CommitChange, Aware
    <3>3. CASE pc[u] \notin {"new", "search"}
      <4> DEFINE k == [turn[u] EXCEPT !.overlap = TRUE]
      <4>1. k.overlap /\ k.vector = turn[u].vector
        BY <3>1 DEF Knows
      <4>2. turn'[u] = k /\ pc'[u] = pc[u]
        BY <1>2, <3>3 DEF ChangeData
      <4> HIDE DEF k
      <4> QED  BY <3>1, <3>3, <4>1, <4>2 DEF Aware
    <3> QED  BY <3>2, <3>3
  <2> QED  BY <2>1, <2>2 DEF TurnsAware
<1>3. CASE CleanCache
  <2>1. UNCHANGED <<version, turn, pc>> /\ (stays => stays')
    BY <1>3 DEF CleanCache, Invalidate, InvalidationFails, Expire
  <2>2. TurnsAware'
    BY <2>1 DEF IInv, TurnsAware, Aware
  <2>3. CASE Invalidate
    BY <2>2, <2>3 DEF Invalidate, StaleNeedsOverlap, Cached
  <2>4. CASE InvalidationFails
    BY <2>2, <2>4 DEF InvalidationFails, StaleNeedsOverlap
  <2>5. CASE \E q \in Questions : Expire(q)
    <3>1. PICK p \in Questions : Expire(p)
      BY <2>5
    <3>2. \A q \in Questions : cache'[q] = NoEntry \/ cache'[q] = cache[q]
      BY <3>1, TypedParts DEF IInv, SharedType, CacheTypeOK, Expire
    <3> QED  BY <2>1, <2>2, <3>1, <3>2 DEF IInv, StaleNeedsOverlap, Cached, Expire
  <2> QED  BY <1>3, <2>3, <2>4, <2>5 DEF CleanCache
<1> QED  BY <1>1, <1>2, <1>3

\* A cached answer that states old prices or stock was written by a turn that a
\* change overtook, or survived an invalidation that failed, or is about to be
\* deleted (semantic_cache.py invalidate_all, set_cache): however many turns and
\* changes there are, nothing else leaves a stale row behind.
THEOREM Staleness == Spec => []StaleNeedsOverlap
<1>1. Init => IInv
  <2> SUFFICES ASSUME Init PROVE IInv
    OBVIOUS
  <2>1. StaleNeedsOverlap
    BY DEF Init, CacheInit, StaleNeedsOverlap, Cached
  <2>2. Aware(Blank, "new")
    BY DEF Aware, Blank
  <2> QED  BY <2>1, <2>2, InitType DEF IInv, TurnsAware, Init
<1>2. IInv /\ [Next]_vars => IInv'
  <2> SUFFICES ASSUME IInv, [Next]_vars PROVE IInv'
    OBVIOUS
  <2>1. Typed'
    BY NextType DEF IInv
  <2>2. ASSUME NEW t \in Turns, Begin(t) \/ Step(t)
        PROVE  StaleNeedsOverlap' /\ TurnsAware'
    BY <2>2, SearchAware, MakeAware, WriteAware DEF Step
  <2> QED  BY <2>1, <2>2, WorldAware DEF IInv, Next
<1>3. IInv => StaleNeedsOverlap
  BY DEF IInv
<1> QED  BY <1>1, <1>2, <1>3, PTL DEF Spec
================================================================================
