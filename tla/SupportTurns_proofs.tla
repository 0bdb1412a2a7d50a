-------------------------- MODULE SupportTurns_proofs --------------------------
(****************************************************************************)
(* What holds of SupportTurns for any number of requests, sessions and      *)
(* messages and any quota: the cache serves factual, unrefused texts only,  *)
(* and a customer who answers a clarifying question is not asked again      *)
(* unless turns overlapped or one was cut off.                              *)
(*                                                                          *)
(* Every step of a turn but its beginning and its end changes the place and *)
(* the knowledge of that turn, its session's thread and perhaps the cache.  *)
(* TurnMoves says once what such a step does; the invariants follow from    *)
(* it without a look at the single steps.                                   *)
(****************************************************************************)
EXTENDS SupportTurns, SequenceTheorems, TLAPS

Places == {"router", "search", "confidence", "clarify", "answer", "call", "judge",
           "store", "reply"}

\* What a turn at a place knows, whatever other turns do.
Fit(place, knows) ==
  /\ place = "search" => knows.kind \notin SmallTalk
  /\ place \in {"idle", "router", "search"} \/ knows.kind \in SmallTalk
       \/ knows.key \in Keys
  /\ place = "clarify" =>
       knows.kind = "info" /\ Len(knows.key) = 1 /\ knows.thread.count < Quota
  /\ place \in {"judge", "store"} =>
       /\ knows.kind \in {"info", "pricing"} /\ ~knows.refused
       /\ knows.text \in {"answer", "decline", "blank"}
  /\ knows.text = "question" =>
       /\ place = "reply" /\ knows.kind = "info" /\ Len(knows.key) = 1
       /\ knows.thread.pending # None

AllFit == \A t \in Turns : Fit(pc[t], turn[t])

Sound == TypeOK /\ AllFit /\ CacheIsSound

\* The pending question of a message that answers one waits to be merged, or has
\* been; small talk leaves it waiting.
Follows(place, knows) ==
  knows.answersQuestion =>
    IF place \in {"router", "search"} \/ knows.kind \in SmallTalk
    THEN knows.thread.pending # None
    ELSE Len(knows.key) > 1

\* What a step within a turn does to it.
Moves(t, place, knows) ==
  /\ pc[t] # "idle" /\ Goto(t, place) /\ Learn(t, knows)
  /\ knows \in Knows /\ place \in Places /\ Fit(place, knows)
  /\ knows.session = turn[t].session
  /\ knows.alone = turn[t].alone
  /\ knows.answersQuestion = turn[t].answersQuestion
  /\ Follows(pc[t], turn[t]) => Follows(place, knows)

\* ... and to the rest.
Around ==
  /\ UNCHANGED <<world, asking, upset>>
  /\ saved' \in [Sessions -> Thread]
  /\ \A s \in Sessions : InFlight(s) = {} => saved'[s] = saved[s]
  /\ cache' \in [Keys -> Row \union {None}]
  /\ CacheIsSound'

--------------------------------------------------------------------------------
LEMMA BlankKnows == Blank \in Knows
<1>1. /\ (CHOOSE s \in Sessions : TRUE) \in Sessions
      /\ (CHOOSE m \in Messages : TRUE) \in Messages
  BY SessionsAssumption, MessagesAssumption
<1> QED
  BY <1>1, BoundsAssumption DEF Blank, Knows, Kinds, Thread

LEMMA BlankFits == Fit("idle", Blank)
BY DEF Fit, Blank, SmallTalk

LEMMA SearchTextIsKey ==
  ASSUME TypeOK, NEW t \in Turns
  PROVE  /\ SearchText(t) \in Keys
         /\ Len(SearchText(t)) = IF Merges(t) THEN 2 ELSE 1
         /\ Consumed(t) \in Thread /\ Consumed(t).count <= Quota
BY BoundsAssumption DEF TypeOK, Knows, Thread, Keys, SearchText, Merges, Consumed

\* The search merges a pending question, and only that makes the text longer.
LEMMA SearchFollows ==
  ASSUME TypeOK, NEW t \in Turns, NEW place, NEW knows, place \notin {"router", "search"},
         knows.kind = turn[t].kind, knows.kind \notin SmallTalk,
         knows.key = SearchText(t), knows.answersQuestion = turn[t].answersQuestion
  PROVE  Follows("search", turn[t]) => Follows(place, knows)
<1> SUFFICES ASSUME Follows("search", turn[t]), knows.answersQuestion
             PROVE  Len(knows.key) > 1
  BY DEF Follows
<1>1. Merges(t)
  BY DEF Follows, Merges
<1>2. Len(SearchText(t)) = 2
  BY <1>1, SearchTextIsKey
<1> QED  BY <1>2

LEMMA NodeEndsAround ==
  ASSUME Sound, NEW t \in Turns, NEW k \in Knows, pc[t] # "idle", Learn(t, k), NodeEnds(t),
         k.session = turn[t].session
  PROVE  Around
<1>1. turn'[t] = k
  BY DEF Sound, TypeOK, Learn
<1>2. turn[t].session \in Sessions /\ k.thread \in Thread
  BY DEF Sound, TypeOK, Knows
<1>3. saved' = [saved EXCEPT ![turn[t].session] = k.thread]
  BY <1>1 DEF NodeEnds, Save
<1>4. saved' \in [Sessions -> Thread]
  BY <1>2, <1>3 DEF Sound, TypeOK
<1>5. \A s \in Sessions : InFlight(s) = {} => saved'[s] = saved[s]
  BY <1>2, <1>3 DEF Sound, TypeOK, InFlight
<1> QED  BY <1>4, <1>5 DEF NodeEnds, Sound, TypeOK, Around, CacheIsSound

LEMMA WithinAround == ASSUME Sound, Within PROVE Around
BY DEF Sound, TypeOK, Within, Around, CacheIsSound

LEMMA RouteMoves ==
  ASSUME Sound, NEW t \in Turns, Route(t)
  PROVE  (\E place, knows : Moves(t, place, knows)) /\ Around
<1>1. PICK kind \in Kinds :
        /\ Learn(t, [turn[t] EXCEPT !.kind = kind])
        /\ Goto(t, IF kind \in SmallTalk THEN "answer" ELSE "search")
  <2>1. turn[t].kind \in Kinds /\ "info" \in Kinds
    BY DEF Sound, TypeOK, Knows, Kinds
  <2> QED  BY <2>1 DEF Route
<1> DEFINE k == [turn[t] EXCEPT !.kind = kind]
           p == IF kind \in SmallTalk THEN "answer" ELSE "search"
<1>2. turn[t] \in Knows /\ pc[t] = "router" /\ Fit("router", turn[t])
  BY DEF Route, At, Sound, TypeOK, AllFit
<1>3. k \in Knows
  BY <1>2 DEF Knows
<1>4. Fit(p, k)
  BY <1>2 DEF Fit, Knows
<1>5. Moves(t, p, k)
  BY <1>1, <1>2, <1>3, <1>4 DEF Moves, Knows, Places, Follows
<1>6. Around
  BY <1>1, <1>3, <1>2, NodeEndsAround DEF Route, Knows
<1> QED  BY <1>5, <1>6

LEMMA HitMoves ==
  ASSUME Sound, NEW t \in Turns, Hit(t)
  PROVE  (\E place, knows : Moves(t, place, knows)) /\ Around
<1> DEFINE k(vector) ==
      [turn[t] EXCEPT !.thread = Consumed(t), !.key = SearchText(t),
                      !.context = TRUE, !.vector = vector,
                      !.text = IF cache[SearchText(t)].text = "blank"
                               THEN "none" ELSE "cached"]
<1>1. PICK vector \in BOOLEAN : Learn(t, k(vector))
  BY DEF Hit
<1>2. turn[t] \in Knows /\ pc[t] = "search" /\ Fit("search", turn[t])
  BY DEF Hit, At, Sound, TypeOK, AllFit
<1>3. k(vector) \in Knows
  BY <1>2, SearchTextIsKey DEF Knows, Sound
<1>4. Fit("confidence", k(vector))
  BY <1>2, SearchTextIsKey DEF Fit, Knows, Sound
<1>5. Follows("search", turn[t]) => Follows("confidence", k(vector))
  <2>1. turn[t].kind \notin SmallTalk
    BY <1>2 DEF Fit
  <2>2. /\ k(vector).kind = turn[t].kind /\ k(vector).key = SearchText(t)
        /\ k(vector).answersQuestion = turn[t].answersQuestion
    BY <1>2 DEF Knows
  <2>3. "confidence" \notin {"router", "search"} /\ TypeOK
    BY DEF Sound
  <2> HIDE DEF k
  <2> QED  BY <2>1, <2>2, <2>3, SearchFollows
<1>6. Moves(t, "confidence", k(vector))
  BY <1>1, <1>2, <1>3, <1>4, <1>5 DEF Moves, Knows, Places, Hit
<1>7. Around
  <2>1. k(vector).session = turn[t].session
    BY <1>2 DEF Knows
  <2> QED  BY <1>1, <1>2, <1>3, <2>1, NodeEndsAround DEF Hit
<1> QED  BY <1>6, <1>7

LEMMA FoundMoves ==
  ASSUME Sound, NEW t \in Turns, Found(t)
  PROVE  (\E place, knows : Moves(t, place, knows)) /\ Around
<1> DEFINE k(tie) ==
      [turn[t] EXCEPT !.thread = Consumed(t), !.key = SearchText(t), !.tie = tie,
                      !.context = TRUE, !.vector = TRUE]
<1>1. PICK tie \in BOOLEAN : Learn(t, k(tie))
  BY DEF Found
<1>2. turn[t] \in Knows /\ pc[t] = "search" /\ Fit("search", turn[t])
  BY DEF Found, At, Sound, TypeOK, AllFit
<1>3. k(tie) \in Knows
  BY <1>2, SearchTextIsKey DEF Knows, Sound
<1>4. Fit("confidence", k(tie))
  BY <1>2, SearchTextIsKey DEF Fit, Knows, Sound
<1>5. Follows("search", turn[t]) => Follows("confidence", k(tie))
  <2>1. turn[t].kind \notin SmallTalk
    BY <1>2 DEF Fit
  <2>2. /\ k(tie).kind = turn[t].kind /\ k(tie).key = SearchText(t)
        /\ k(tie).answersQuestion = turn[t].answersQuestion
    BY <1>2 DEF Knows
  <2>3. "confidence" \notin {"router", "search"} /\ TypeOK
    BY DEF Sound
  <2> HIDE DEF k
  <2> QED  BY <2>1, <2>2, <2>3, SearchFollows
<1>6. Moves(t, "confidence", k(tie))
  BY <1>1, <1>2, <1>3, <1>4, <1>5 DEF Moves, Knows, Places, Found
<1>7. Around
  <2>1. k(tie).session = turn[t].session
    BY <1>2 DEF Knows
  <2> QED  BY <1>1, <1>2, <1>3, <2>1, NodeEndsAround DEF Found
<1> QED  BY <1>6, <1>7

LEMMA NotFoundMoves ==
  ASSUME Sound, NEW t \in Turns, NotFound(t)
  PROVE  (\E place, knows : Moves(t, place, knows)) /\ Around
<1> DEFINE k == [turn[t] EXCEPT !.thread = Consumed(t), !.key = SearchText(t),
                                !.declined = TRUE]
<1>1. Learn(t, k)
  BY DEF NotFound
<1>2. turn[t] \in Knows /\ pc[t] = "search" /\ Fit("search", turn[t])
  BY DEF NotFound, At, Sound, TypeOK, AllFit
<1>3. k \in Knows
  BY <1>2, SearchTextIsKey DEF Knows, Sound
<1>4. Fit("confidence", k)
  BY <1>2, SearchTextIsKey DEF Fit, Knows, Sound
<1>5. Follows("search", turn[t]) => Follows("confidence", k)
  <2>1. turn[t].kind \notin SmallTalk
    BY <1>2 DEF Fit
  <2>2. /\ k.kind = turn[t].kind /\ k.key = SearchText(t)
        /\ k.answersQuestion = turn[t].answersQuestion
    BY <1>2 DEF Knows
  <2>3. "confidence" \notin {"router", "search"} /\ TypeOK
    BY DEF Sound
  <2> HIDE DEF k
  <2> QED  BY <2>1, <2>2, <2>3, SearchFollows
<1>6. Moves(t, "confidence", k)
  BY <1>1, <1>2, <1>3, <1>4, <1>5 DEF Moves, Knows, Places, NotFound
<1>7. Around
  <2>1. k.session = turn[t].session
    BY <1>2 DEF Knows
  <2> QED  BY <1>1, <1>2, <1>3, <2>1, NodeEndsAround DEF NotFound
<1> QED  BY <1>6, <1>7

\* An unclear search text is a single message: Resolved is what the confidence
\* node asks first.
LEMMA ConfidenceMoves ==
  ASSUME Sound, NEW t \in Turns, Confidence(t)
  PROVE  (\E place, knows : Moves(t, place, knows)) /\ Around
<1> DEFINE k == [turn[t] EXCEPT !.tie = FALSE]
           p == IF Unclear(t) THEN "clarify" ELSE "answer"
<1>1. Learn(t, k) /\ Goto(t, p)
  BY DEF Confidence
<1>2. turn[t] \in Knows /\ pc[t] = "confidence" /\ Fit("confidence", turn[t])
  BY DEF Confidence, At, Sound, TypeOK, AllFit
<1>3. k \in Knows
  BY <1>2 DEF Knows
<1>4. Unclear(t) => turn[t].kind = "info" /\ Len(turn[t].key) = 1
                      /\ turn[t].thread.count < Quota
  <2>1. "info" \notin SmallTalk
    BY DEF SmallTalk
  <2>2. \A key \in Keys : Len(key) \in {1, 2}
    BY DEF Keys
  <2> QED  BY <1>2, <2>1, <2>2 DEF Unclear, Resolved, Fit
<1>5. Fit(p, k)
  BY <1>2, <1>4 DEF Fit, Knows
<1>6. Moves(t, p, k)
  BY <1>1, <1>2, <1>3, <1>5 DEF Moves, Knows, Places, Follows
<1>7. Around
  <2>1. k.session = turn[t].session
    BY <1>2 DEF Knows
  <2> QED  BY <1>1, <1>2, <1>3, <2>1, NodeEndsAround DEF Confidence
<1> QED  BY <1>6, <1>7

LEMMA ClarifyMoves ==
  ASSUME Sound, NEW t \in Turns, Clarify(t)
  PROVE  (\E place, knows : Moves(t, place, knows)) /\ Around
<1> DEFINE k == [turn[t] EXCEPT !.text = "question",
                                !.thread = [pending |-> turn[t].asked,
                                            count |-> turn[t].thread.count + 1]]
<1>1. Learn(t, k) /\ Goto(t, "reply")
  BY DEF Clarify
<1>2. turn[t] \in Knows /\ pc[t] = "clarify" /\ Fit("clarify", turn[t])
  BY DEF Clarify, At, Sound, TypeOK, AllFit
<1>3. k.thread \in Thread /\ k.thread.pending # None
  BY <1>2, BoundsAssumption, MessagesAssumption DEF Fit, Knows, Thread
<1>4. k \in Knows
  BY <1>2, <1>3 DEF Knows
<1>5. Fit("reply", k)
  BY <1>2, <1>3 DEF Fit, Knows
<1>6. Follows("clarify", turn[t]) => Follows("reply", k)
  BY <1>2, <1>3 DEF Follows, Knows
<1>7. Moves(t, "reply", k)
  BY <1>1, <1>2, <1>4, <1>5, <1>6 DEF Moves, Knows, Places
<1>8. Around
  <2>1. k.session = turn[t].session
    BY <1>2 DEF Knows
  <2> QED  BY <1>1, <1>2, <1>4, <2>1, NodeEndsAround DEF Clarify
<1> QED  BY <1>7, <1>8

\* The steps of the answer node up to the write leave the thread, the key and the
\* history alone.
LEMMA AnswerNodeMoves ==
  ASSUME Sound, NEW t \in Turns, NEW k \in Knows, NEW p \in Places,
         pc[t] \notin {"idle", "router", "search"}, p \notin {"router", "search"},
         Learn(t, k), Goto(t, p), Within, Fit(p, k),
         k.kind = turn[t].kind, k.key = turn[t].key, k.thread = turn[t].thread,
         k.session = turn[t].session, k.alone = turn[t].alone,
         k.answersQuestion = turn[t].answersQuestion
  PROVE  (\E place, knows : Moves(t, place, knows)) /\ Around
<1>1. Moves(t, p, k)
  BY DEF Moves, Follows
<1> QED  BY <1>1, WithinAround

LEMMA AnswerMoves ==
  ASSUME Sound, NEW t \in Turns, Answer(t)
  PROVE  (\E place, knows : Moves(t, place, knows)) /\ Around
<1>1. PICK text \in {turn[t].text, "greeting", "decline", "capped"} :
        Learn(t, [turn[t] EXCEPT !.text = text])
  BY DEF Answer
<1>2. PICK p \in {"reply", "call"} : Goto(t, p)
  BY DEF Answer
<1> DEFINE k == [turn[t] EXCEPT !.text = text]
<1>3. turn[t] \in Knows /\ pc[t] = "answer" /\ Fit("answer", turn[t])
  BY DEF Answer, At, Sound, TypeOK, AllFit
<1>4. k \in Knows
  BY <1>3 DEF Knows
<1>5. Fit(p, k)
  BY <1>3 DEF Fit, Knows
<1>6. /\ k.kind = turn[t].kind /\ k.key = turn[t].key /\ k.thread = turn[t].thread
      /\ k.session = turn[t].session /\ k.alone = turn[t].alone
      /\ k.answersQuestion = turn[t].answersQuestion
  BY <1>3 DEF Knows
<1>7. Learn(t, k) /\ Within /\ p \in Places
  BY <1>1 DEF Answer, Places
<1> HIDE DEF k
<1> QED  BY <1>2, <1>3, <1>4, <1>5, <1>6, <1>7, AnswerNodeMoves

LEMMA DraftedMoves ==
  ASSUME Sound, NEW t \in Turns, Drafted(t)
  PROVE  (\E place, knows : Moves(t, place, knows)) /\ Around
<1>1. PICK text \in {"answer", "decline", "blank"} :
        Learn(t, [turn[t] EXCEPT !.waits = 0, !.refused = FALSE, !.text = text])
  BY DEF Drafted
<1> DEFINE k == [turn[t] EXCEPT !.waits = 0, !.refused = FALSE, !.text = text]
           p == IF Factual(t) THEN "judge" ELSE "reply"
<1>2. turn[t] \in Knows /\ pc[t] = "call" /\ Fit("call", turn[t])
  BY DEF Drafted, At, Sound, TypeOK, AllFit
<1>3. k \in Knows
  <2>1. 0 \in 0 .. MaxWaits
    BY BoundsAssumption
  <2> QED  BY <1>2, <2>1 DEF Knows
<1>4. Fit(p, k)
  BY <1>2 DEF Fit, Knows, Factual
<1>5. /\ k.kind = turn[t].kind /\ k.key = turn[t].key /\ k.thread = turn[t].thread
      /\ k.session = turn[t].session /\ k.alone = turn[t].alone
      /\ k.answersQuestion = turn[t].answersQuestion
  BY <1>2 DEF Knows
<1>6. Learn(t, k) /\ Goto(t, p) /\ Within /\ p \in Places /\ p \notin {"router", "search"}
  BY <1>1 DEF Drafted, Places
<1> HIDE DEF k, p
<1> QED  BY <1>2, <1>3, <1>4, <1>5, <1>6, AnswerNodeMoves

LEMMA WaitsMoves ==
  ASSUME Sound, NEW t \in Turns, Waits(t)
  PROVE  (\E place, knows : Moves(t, place, knows)) /\ Around
<1> DEFINE k == [turn[t] EXCEPT !.waits = @ + 1]
<1>1. turn[t] \in Knows /\ pc[t] = "call" /\ Fit("call", turn[t])
  BY DEF Waits, At, Sound, TypeOK, AllFit
<1>2. k \in Knows
  BY <1>1, BoundsAssumption DEF Knows, Waits
<1>3. Fit("call", k)
  BY <1>1 DEF Fit, Knows
<1>4. /\ k.kind = turn[t].kind /\ k.key = turn[t].key /\ k.thread = turn[t].thread
      /\ k.session = turn[t].session /\ k.alone = turn[t].alone
      /\ k.answersQuestion = turn[t].answersQuestion
  BY <1>1 DEF Knows
<1>5. Learn(t, k) /\ Goto(t, "call") /\ Within /\ "call" \in Places
  BY <1>1 DEF Waits, Goto, Places, Sound, TypeOK
<1> HIDE DEF k
<1> QED  BY <1>1, <1>2, <1>3, <1>4, <1>5, AnswerNodeMoves

\* Whatever text a turn ends with is sent: no claim is left to be judged.
LEMMA EndsMoves ==
  ASSUME Sound, NEW t \in Turns, pc[t] \in {"call", "judge", "store"},
         NEW text \in {"holding", "answer", "decline", "blank"},
         NEW declined \in BOOLEAN, Learn(t, Ends(t, text, declined)), Goto(t, "reply")
  PROVE  /\ \E place, knows : Moves(t, place, knows)
         /\ Within => Around
<1> DEFINE k == Ends(t, text, declined)
<1>1. turn[t] \in Knows /\ Fit(pc[t], turn[t])
  BY DEF Sound, TypeOK, AllFit
<1>2. k \in Knows
  <2>1. 0 \in 0 .. MaxWaits /\ 0 \in 0 .. MaxRegen
    BY BoundsAssumption
  <2> QED  BY <1>1, <2>1 DEF Knows, Ends
<1>3. /\ k.kind = turn[t].kind /\ k.key = turn[t].key /\ k.thread = turn[t].thread
      /\ k.session = turn[t].session /\ k.alone = turn[t].alone
      /\ k.answersQuestion = turn[t].answersQuestion /\ k.text = text
  BY <1>1 DEF Knows, Ends
<1> HIDE DEF k
<1>4. Fit("reply", k)
  BY <1>1, <1>3 DEF Fit
<1>5. Moves(t, "reply", k)
  BY <1>2, <1>3, <1>4 DEF Moves, Follows, Places, k
<1> QED  BY <1>5, WithinAround

LEMMA CallFailsMoves ==
  ASSUME Sound, NEW t \in Turns, CallFails(t)
  PROVE  (\E place, knows : Moves(t, place, knows)) /\ Around
<1>1. PICK text \in {"holding", "decline"}, declined \in BOOLEAN :
        Learn(t, Ends(t, text, declined))
  BY DEF CallFails
<1> QED  BY <1>1, EndsMoves DEF CallFails, At

LEMMA SupportedMoves ==
  ASSUME Sound, NEW t \in Turns, Supported(t)
  PROVE  (\E place, knows : Moves(t, place, knows)) /\ Around
<1>1. turn[t] \in Knows /\ pc[t] = "judge" /\ Fit("judge", turn[t])
  BY DEF Supported, At, Sound, TypeOK, AllFit
<1>2. Fit("store", turn[t])
  BY <1>1 DEF Fit
<1>3. Learn(t, turn[t]) /\ Goto(t, "store") /\ Within /\ "store" \in Places
  BY DEF Supported, Learn, Places, Sound, TypeOK
<1> QED  BY <1>1, <1>2, <1>3, AnswerNodeMoves

LEMMA NotAnswerableMoves ==
  ASSUME Sound, NEW t \in Turns, NotAnswerable(t)
  PROVE  (\E place, knows : Moves(t, place, knows)) /\ Around
BY EndsMoves DEF NotAnswerable, At

LEMMA UnsupportedMoves ==
  ASSUME Sound, NEW t \in Turns, Unsupported(t)
  PROVE  (\E place, knows : Moves(t, place, knows)) /\ Around
<1>1. CASE turn[t].regens < MaxRegen
  <2> DEFINE k == [turn[t] EXCEPT !.regens = @ + 1, !.refused = TRUE]
  <2>1. turn[t] \in Knows /\ pc[t] = "judge" /\ Fit("judge", turn[t])
    BY DEF Unsupported, At, Sound, TypeOK, AllFit
  <2>2. k \in Knows
    <3>1. turn[t].regens \in 0 .. MaxRegen
      BY <2>1 DEF Knows
    <3>2. turn[t].regens + 1 \in 0 .. MaxRegen
      BY <1>1, <3>1, BoundsAssumption
    <3> QED  BY <2>1, <3>2 DEF Knows
  <2>3. Fit("call", k)
    BY <2>1 DEF Fit, Knows
  <2>4. /\ k.kind = turn[t].kind /\ k.key = turn[t].key /\ k.thread = turn[t].thread
        /\ k.session = turn[t].session /\ k.alone = turn[t].alone
        /\ k.answersQuestion = turn[t].answersQuestion
    BY <2>1 DEF Knows
  <2>5. Learn(t, k) /\ Goto(t, "call") /\ Within /\ "call" \in Places
    BY <1>1 DEF Unsupported, Places
  <2> HIDE DEF k
  <2> QED  BY <2>1, <2>2, <2>3, <2>4, <2>5, AnswerNodeMoves
<1>2. CASE ~(turn[t].regens < MaxRegen)
  BY <1>2, EndsMoves DEF Unsupported, At
<1> QED  BY <1>1, <1>2

\* What is written is factual and not refused, under the text of the search.
LEMMA StoreMoves ==
  ASSUME Sound, NEW t \in Turns, Store(t)
  PROVE  (\E place, knows : Moves(t, place, knows)) /\ Around
<1>1. turn[t] \in Knows /\ pc[t] = "store" /\ Fit("store", turn[t])
  BY DEF Store, At, Sound, TypeOK, AllFit
<1>2. turn[t].key \in Keys
  BY <1>1 DEF Fit, SmallTalk
<1>3. \E place, knows : Moves(t, place, knows)
  <2>1. turn[t].text \in {"answer", "decline", "blank"}
    BY <1>1 DEF Fit
  <2> QED  BY <1>1, <2>1, EndsMoves DEF Store
<1> DEFINE written == [text |-> turn[t].text, factual |-> Factual(t),
                       refused |-> turn[t].refused]
<1>4. written \in Row /\ written.factual /\ ~written.refused
  <2>1. turn[t].refused = FALSE
    BY <1>1 DEF Fit, Knows
  <2> QED  BY <1>1, <2>1 DEF Fit, Row, Factual
<1>5. cache' = cache \/ cache' = [cache EXCEPT ![turn[t].key] = written]
  BY DEF Store
<1>6. cache' \in [Keys -> Row \union {None}] /\ CacheIsSound'
  <2> HIDE DEF written
  <2> QED  BY <1>2, <1>4, <1>5 DEF Sound, TypeOK, CacheIsSound
<1>7. /\ UNCHANGED <<world, asking, upset>> /\ saved' \in [Sessions -> Thread]
      /\ \A s \in Sessions : InFlight(s) = {} => saved'[s] = saved[s]
  BY DEF Store, Sound, TypeOK
<1> QED  BY <1>3, <1>6, <1>7 DEF Around

LEMMA TurnMoves ==
  ASSUME Sound, NEW t \in Turns, Step(t), ~Reply(t)
  PROVE  (\E place, knows : Moves(t, place, knows)) /\ Around
BY RouteMoves, HitMoves, FoundMoves, NotFoundMoves, ConfidenceMoves, ClarifyMoves,
   AnswerMoves, DraftedMoves, WaitsMoves, CallFailsMoves, SupportedMoves,
   NotAnswerableMoves, UnsupportedMoves, StoreMoves DEF Step

LEMMA SoundInit == Init => Sound
<1> SUFFICES ASSUME Init  PROVE Sound
  OBVIOUS
<1>1. TypeOK
  BY BlankKnows, BoundsAssumption DEF Init, TypeOK, Thread
<1>2. AllFit /\ CacheIsSound
  BY BlankFits DEF Init, AllFit, CacheIsSound
<1> QED  BY <1>1, <1>2 DEF Sound

LEMMA MovesSound ==
  ASSUME Sound, NEW t \in Turns, NEW p, NEW k, Moves(t, p, k), Around
  PROVE  Sound'
<1>1. TypeOK'
  <2>1. pc' \in [Turns -> {"idle"} \union Places]
    BY DEF Moves, Goto, Sound, TypeOK, Places
  <2>2. turn' \in [Turns -> Knows]
    BY DEF Moves, Learn, Sound, TypeOK
  <2> QED  BY <2>1, <2>2 DEF Around, Sound, TypeOK, Places
<1>2. AllFit'
  BY DEF Moves, Goto, Learn, Sound, TypeOK, AllFit
<1> QED  BY <1>1, <1>2 DEF Sound, Around

\* What Begin knows.
Fresh(t, s, m, k) ==
  [Blank EXCEPT !.session = s, !.asked = m, !.kind = k, !.thread = saved[s],
                !.answersQuestion = asking[s], !.alone = (InFlight(s) = {})]

LEMMA FreshKnows ==
  ASSUME TypeOK, NEW t \in Turns, NEW s \in Sessions, NEW m \in Messages, NEW k \in Kinds
  PROVE  /\ Fresh(t, s, m, k) \in Knows /\ Fit("router", Fresh(t, s, m, k))
         /\ Fresh(t, s, m, k).session = s /\ Fresh(t, s, m, k).thread = saved[s]
         /\ Fresh(t, s, m, k).answersQuestion = asking[s]
         /\ Fresh(t, s, m, k).alone = (InFlight(s) = {})
<1>1. Fresh(t, s, m, k) \in Knows
  <2>1. saved[s] \in Thread /\ asking[s] \in BOOLEAN
    BY DEF TypeOK
  <2> QED  BY <2>1, BlankKnows DEF Fresh, Knows
<1>2. Fresh(t, s, m, k).text = "none"
  BY DEF Fresh, Blank
<1>3. /\ Fresh(t, s, m, k).session = s /\ Fresh(t, s, m, k).thread = saved[s]
      /\ Fresh(t, s, m, k).answersQuestion = asking[s]
      /\ Fresh(t, s, m, k).alone = (InFlight(s) = {})
  BY DEF Fresh, Blank
<1> QED  BY <1>1, <1>2, <1>3 DEF Fit

\* Begin changes the turns of the session it meets, and no others.
Meets(s, u) == [turn[u] EXCEPT !.alone = @ /\ u \notin InFlight(s)]

LEMMA MeetsKnows ==
  ASSUME TypeOK, NEW s \in Sessions, NEW u \in Turns
  PROVE  /\ Meets(s, u) \in Knows
         /\ \A place : Fit(place, Meets(s, u)) <=> Fit(place, turn[u])
         /\ \A place : Follows(place, Meets(s, u)) <=> Follows(place, turn[u])
         /\ Meets(s, u).session = turn[u].session
         /\ Meets(s, u).answersQuestion = turn[u].answersQuestion
         /\ Meets(s, u).alone = (turn[u].alone /\ u \notin InFlight(s))
<1>1. turn[u] \in Knows
  BY DEF TypeOK
<1>2. Meets(s, u) \in Knows
  BY <1>1 DEF Meets, Knows
<1>3. /\ Meets(s, u).kind = turn[u].kind /\ Meets(s, u).key = turn[u].key
      /\ Meets(s, u).thread = turn[u].thread /\ Meets(s, u).refused = turn[u].refused
      /\ Meets(s, u).text = turn[u].text /\ Meets(s, u).session = turn[u].session
      /\ Meets(s, u).answersQuestion = turn[u].answersQuestion
      /\ Meets(s, u).alone = (turn[u].alone /\ u \notin InFlight(s))
  BY <1>1 DEF Meets, Knows
<1> QED  BY <1>2, <1>3 DEF Fit, Follows

LEMMA BeginEffect ==
  ASSUME TypeOK, NEW t \in Turns, Begin(t)
  PROVE  \E s \in Sessions, m \in Messages, k \in Kinds :
           /\ pc[t] = "idle" /\ pc' = [pc EXCEPT ![t] = "router"]
           /\ turn' = [u \in Turns |-> IF u = t THEN Fresh(t, s, m, k) ELSE Meets(s, u)]
           /\ upset' = [upset EXCEPT ![s] = @ \/ InFlight(s) # {}]
           /\ UNCHANGED <<world, saved, cache, asking>>
<1>1. world.asks \subseteq Messages /\ world.kinds \subseteq Kinds
  BY WorldsAssumption DEF TypeOK, World
<1>2. PICK s \in Sessions, m \in world.asks, k \in world.kinds :
        /\ InFlight(s) = {} \/ world.overlaps
        /\ turn' = [u \in Turns |->
             IF u = t
             THEN [Blank EXCEPT !.session = s, !.asked = m, !.kind = k, !.thread = saved[s],
                                !.answersQuestion = asking[s], !.alone = (InFlight(s) = {})]
             ELSE [turn[u] EXCEPT !.alone = @ /\ u \notin InFlight(s)]]
        /\ upset' = [upset EXCEPT ![s] = @ \/ InFlight(s) # {}]
  BY Zenon DEF Begin
<1>3. turn' = [u \in Turns |-> IF u = t THEN Fresh(t, s, m, k) ELSE Meets(s, u)]
  BY <1>2 DEF Fresh, Meets
<1>4. /\ pc[t] = "idle" /\ pc' = [pc EXCEPT ![t] = "router"]
      /\ UNCHANGED <<world, saved, cache, asking>>
  BY DEF Begin, At, Goto
<1>5. s \in Sessions /\ m \in Messages /\ k \in Kinds
  BY <1>1, <1>2
<1> USE <1>5
<1> WITNESS s \in Sessions, m \in Messages, k \in Kinds
<1> QED  BY <1>2, <1>3, <1>4

LEMMA BeginSound ==
  ASSUME Sound, NEW t \in Turns, Begin(t)
  PROVE  Sound'
<1>1. PICK s \in Sessions, m \in Messages, k \in Kinds :
        /\ pc[t] = "idle" /\ pc' = [pc EXCEPT ![t] = "router"]
        /\ turn' = [u \in Turns |-> IF u = t THEN Fresh(t, s, m, k) ELSE Meets(s, u)]
        /\ upset' = [upset EXCEPT ![s] = @ \/ InFlight(s) # {}]
        /\ UNCHANGED <<world, saved, cache, asking>>
  BY BeginEffect DEF Sound
<1>2. /\ Fresh(t, s, m, k) \in Knows /\ Fit("router", Fresh(t, s, m, k))
      /\ \A u \in Turns : Meets(s, u) \in Knows
      /\ \A u \in Turns : \A place : Fit(place, Meets(s, u)) <=> Fit(place, turn[u])
  BY FreshKnows, MeetsKnows DEF Sound
<1>3. TypeOK'
  BY <1>1, <1>2 DEF Sound, TypeOK
<1>4. AllFit'
  BY <1>1, <1>2 DEF Sound, TypeOK, AllFit
<1>5. CacheIsSound'
  BY <1>1 DEF Sound, CacheIsSound
<1> QED  BY <1>3, <1>4, <1>5 DEF Sound

LEMMA EndSound ==
  ASSUME Sound, NEW t \in Turns, Reply(t) \/ CutOff(t)
  PROVE  Sound'
<1>1. turn[t] \in Knows /\ turn[t].session \in Sessions /\ turn[t].thread \in Thread
      /\ turn[t].alone \in BOOLEAN
  BY DEF Sound, TypeOK, Knows
<1>2. pc' = [pc EXCEPT ![t] = "idle"] /\ turn' = [turn EXCEPT ![t] = Blank]
  BY DEF Reply, CutOff, Goto, Learn
<1>3. saved' \in [Sessions -> Thread] /\ asking' \in [Sessions -> BOOLEAN]
  BY <1>1 DEF Reply, CutOff, Sound, TypeOK
<1>4. upset' \in [Sessions -> BOOLEAN]
  <2>1. CASE Reply(t)
    BY <1>1, <2>1 DEF Reply, Sound, TypeOK
  <2>2. CASE CutOff(t)
    BY <1>1, <2>2 DEF CutOff, Sound, TypeOK
  <2> QED  BY <2>1, <2>2
<1>5. UNCHANGED <<world, cache>>
  BY DEF Reply, CutOff
<1>6. TypeOK'
  BY <1>2, <1>3, <1>4, <1>5, BlankKnows DEF Sound, TypeOK
<1>7. AllFit'
  BY <1>2, BlankFits DEF Sound, TypeOK, AllFit
<1> QED  BY <1>5, <1>6, <1>7 DEF Sound, CacheIsSound

LEMMA ExpireSound ==
  ASSUME Sound, NEW k \in Keys, Expire(k)
  PROVE  Sound'
BY DEF Expire, Sound, TypeOK, AllFit, CacheIsSound

LEMMA SoundStep == Sound /\ [Next]_vars => Sound'
<1> SUFFICES ASSUME Sound, [Next]_vars  PROVE Sound'
  OBVIOUS
<1>1. ASSUME NEW t \in Turns, Step(t), ~Reply(t)  PROVE Sound'
  <2>1. PICK p, k : Moves(t, p, k)
    BY <1>1, TurnMoves
  <2>2. Around
    BY <1>1, TurnMoves
  <2> QED  BY <2>1, <2>2, MovesSound
<1>2. CASE UNCHANGED vars
  BY <1>2 DEF vars, Sound, TypeOK, AllFit, CacheIsSound
<1> QED  BY <1>1, <1>2, BeginSound, EndSound, ExpireSound DEF Next

\* Requests, threads, keys and rows keep their shape, and a turn knows at each
\* place what it should.
THEOREM SoundAlways == Spec => []Sound
BY SoundInit, SoundStep, PTL DEF Spec

\* No wait, regeneration or clarifying question beyond its bound, for any bounds.
THEOREM TypeCorrect == Spec => []TypeOK
<1>1. Sound => TypeOK
  BY DEF Sound
<1> QED  BY <1>1, SoundAlways, PTL

\* What the cache serves to anybody was written for a factual question, and is no
\* text the judge refused (support_answer_node, write_cache).
THEOREM CacheStaysSound == Spec => []CacheIsSound
<1>1. Sound => CacheIsSound
  BY DEF Sound
<1> QED  BY <1>1, SoundAlways, PTL

--------------------------------------------------------------------------------
(****************************************************************************)
(* A session nobody has upset.                                              *)
(****************************************************************************)
\* Nobody else is in flight while a turn is alone.
Alone ==
  \A t, u \in Turns :
    /\ pc[t] # "idle" /\ turn[t].alone
    /\ pc[u] # "idle" /\ turn[u].session = turn[t].session
    => u = t

\* A turn that met another one has upset its session, for as long as it runs.
Met == \A t \in Turns : pc[t] # "idle" /\ ~turn[t].alone => upset[turn[t].session]

\* Between turns a question that was asked is pending.
Waiting ==
  \A s \in Sessions :
    ~upset[s] /\ InFlight(s) = {} /\ asking[s] => saved[s].pending # None

\* During a turn it is pending until it is merged.
Answering ==
  \A t \in Turns :
    pc[t] # "idle" /\ ~upset[turn[t].session] =>
      /\ turn[t].answersQuestion = asking[turn[t].session]
      /\ Follows(pc[t], turn[t])

Settled == Alone /\ Met /\ Waiting /\ Answering

LEMMA SettledInit == Init => Settled
BY DEF Init, Settled, Alone, Met, Waiting, Answering

\* A turn that ends without upset was alone.
LEMMA LastOne ==
  ASSUME Settled, NEW t \in Turns, pc[t] # "idle",
         turn[t].alone \/ ~upset[turn[t].session]
  PROVE  \A u \in Turns : pc[u] # "idle" /\ turn[u].session = turn[t].session => u = t
BY DEF Settled, Alone, Met

LEMMA MovesSettled ==
  ASSUME Sound, Settled, NEW t \in Turns, NEW p, NEW k, Moves(t, p, k), Around
  PROVE  Settled'
<1>1. /\ \A u \in Turns : turn'[u].session = turn[u].session
      /\ \A u \in Turns : turn'[u].alone = turn[u].alone
      /\ \A u \in Turns : turn'[u].answersQuestion = turn[u].answersQuestion
      /\ \A u \in Turns : pc'[u] # "idle" <=> pc[u] # "idle"
      /\ \A u \in Turns : Follows(pc[u], turn[u]) => Follows(pc'[u], turn'[u])
  BY DEF Moves, Goto, Learn, Sound, TypeOK, Places
<1>2. \A s : InFlight(s)' = InFlight(s)
  BY <1>1 DEF InFlight
<1>3. \A s \in Sessions : InFlight(s) = {} => saved'[s] = saved[s]
  BY DEF Around, Moves
<1>4. Alone' /\ Met'
  BY <1>1, <1>2 DEF Settled, Alone, Met, Around
<1>5. Waiting'
  BY <1>2, <1>3 DEF Settled, Waiting, Around
<1>6. Answering'
  BY <1>1 DEF Settled, Answering, Around
<1> QED  BY <1>4, <1>5, <1>6 DEF Settled

LEMMA BeginSettled ==
  ASSUME Sound, Settled, NEW t \in Turns, Begin(t)
  PROVE  Settled'
<1>1. PICK s \in Sessions, m \in Messages, k \in Kinds :
        /\ pc[t] = "idle" /\ pc' = [pc EXCEPT ![t] = "router"]
        /\ turn' = [u \in Turns |-> IF u = t THEN Fresh(t, s, m, k) ELSE Meets(s, u)]
        /\ upset' = [upset EXCEPT ![s] = @ \/ InFlight(s) # {}]
        /\ UNCHANGED <<world, saved, cache, asking>>
  BY BeginEffect DEF Sound
<1>2. /\ turn'[t].session = s /\ turn'[t].thread = saved[s]
      /\ turn'[t].answersQuestion = asking[s]
      /\ turn'[t].alone = (InFlight(s) = {})
  BY <1>1, FreshKnows DEF Sound
<1>3. ASSUME NEW u \in Turns, u # t
      PROVE  /\ pc'[u] = pc[u] /\ turn'[u].session = turn[u].session
             /\ turn'[u].answersQuestion = turn[u].answersQuestion
             /\ turn'[u].alone = (turn[u].alone /\ u \notin InFlight(s))
             /\ Follows(pc'[u], turn'[u]) <=> Follows(pc[u], turn[u])
  BY <1>1, <1>3, MeetsKnows DEF Sound, TypeOK
<1>4. pc'[t] = "router" /\ t \notin InFlight(s)
  BY <1>1 DEF Sound, TypeOK, InFlight
<1>5. \A r : InFlight(r)' = IF r = s THEN InFlight(s) \union {t} ELSE InFlight(r)
  BY <1>1, <1>2, <1>3, <1>4 DEF InFlight
<1>6. /\ \A r \in Sessions : r # s => upset'[r] = upset[r]
      /\ upset'[s] = (upset[s] \/ InFlight(s) # {})
  BY <1>1 DEF Sound, TypeOK
<1>7. Alone'
  <2> SUFFICES ASSUME NEW u \in Turns, pc'[u] # "idle", turn'[u].alone,
                      NEW v \in Turns, pc'[v] # "idle", turn'[v].session = turn'[u].session
               PROVE  v = u
    BY DEF Alone
  <2>1. CASE u = t /\ v # t
    <3>1. turn[v].session = s /\ pc[v] # "idle"
      BY <1>2, <1>3, <2>1
    <3>2. InFlight(s) = {}
      BY <1>2, <2>1
    <3> QED  BY <3>1, <3>2 DEF InFlight
  <2>2. CASE v = t /\ u # t
    BY <1>2, <1>3, <2>2 DEF InFlight
  <2>3. CASE u # t /\ v # t
    BY <1>3, <2>3 DEF Settled, Alone
  <2> QED  BY <2>1, <2>2, <2>3
<1>8. Met'
  <2> SUFFICES ASSUME NEW u \in Turns, pc'[u] # "idle", ~turn'[u].alone
               PROVE  upset'[turn'[u].session]
    BY DEF Met
  <2>1. CASE u = t
    BY <1>2, <1>6, <2>1
  <2>2. CASE u # t /\ u \in InFlight(s)
    <3>1. turn'[u].session = s
      BY <1>3, <2>2 DEF InFlight
    <3> QED  BY <1>6, <2>2, <3>1
  <2>3. CASE u # t /\ u \notin InFlight(s)
    <3>1. pc[u] # "idle" /\ ~turn[u].alone /\ turn[u].session \in Sessions
      BY <1>3, <2>3 DEF Sound, TypeOK, Knows
    <3>2. upset[turn[u].session]
      BY <3>1 DEF Settled, Met
    <3> QED  BY <1>3, <1>6, <2>3, <3>1, <3>2
  <2> QED  BY <2>1, <2>2, <2>3
<1>9. Waiting'
  BY <1>1, <1>5, <1>6 DEF Settled, Waiting
<1>10. Answering'
  <2> SUFFICES ASSUME NEW u \in Turns, pc'[u] # "idle", ~upset'[turn'[u].session]
               PROVE  /\ turn'[u].answersQuestion = asking'[turn'[u].session]
                      /\ Follows(pc'[u], turn'[u])
    BY DEF Answering
  <2>1. CASE u = t
    <3>1. ~upset[s] /\ InFlight(s) = {}
      BY <1>2, <1>6, <2>1
    <3>2. asking[s] => saved[s].pending # None
      BY <3>1 DEF Settled, Waiting
    <3> QED  BY <1>1, <1>2, <1>4, <2>1, <3>2 DEF Follows
  <2>2. CASE u # t
    <3>1. turn[u].session \in Sessions
      BY DEF Sound, TypeOK, Knows
    <3>2. pc[u] # "idle" /\ ~upset[turn[u].session]
      BY <1>3, <1>6, <2>2, <3>1
    <3> QED  BY <1>1, <1>3, <2>2, <3>2 DEF Settled, Answering
  <2> QED  BY <2>1, <2>2
<1> QED  BY <1>7, <1>8, <1>9, <1>10 DEF Settled

\* What the end of a turn leaves to the others.
LEMMA EndOthers ==
  ASSUME Sound, NEW t \in Turns, pc[t] # "idle",
         pc' = [pc EXCEPT ![t] = "idle"], turn' = [turn EXCEPT ![t] = Blank]
  PROVE  /\ pc'[t] = "idle"
         /\ \A u \in Turns : u # t => pc'[u] = pc[u] /\ turn'[u] = turn[u]
         /\ \A s : InFlight(s)' = InFlight(s) \ {t}
<1>1. /\ pc'[t] = "idle"
      /\ \A u \in Turns : u # t => pc'[u] = pc[u] /\ turn'[u] = turn[u]
  BY DEF Sound, TypeOK
<1> QED  BY <1>1 DEF InFlight

LEMMA ReplySettled ==
  ASSUME Sound, Settled, NEW t \in Turns, Reply(t)
  PROVE  Settled'
<1> DEFINE small == turn[t].kind \in SmallTalk
<1>0. PICK s \in Sessions : s = turn[t].session
  BY DEF Sound, TypeOK, Knows
<1>1. /\ turn[t] \in Knows /\ s = turn[t].session /\ Fit("reply", turn[t]) /\ pc[t] = "reply"
  BY <1>0 DEF Reply, At, Sound, TypeOK, AllFit
<1>2. /\ pc'[t] = "idle"
      /\ \A u \in Turns : u # t => pc'[u] = pc[u] /\ turn'[u] = turn[u]
      /\ \A r : InFlight(r)' = InFlight(r) \ {t}
  BY <1>1, EndOthers DEF Reply, Goto, Learn
<1>3. /\ saved'[s] = turn[t].thread
      /\ asking'[s] = IF small THEN asking[s] ELSE turn[t].text = "question"
      /\ upset'[s] = (upset[s] /\ (small \/ ~turn[t].alone))
      /\ \A r \in Sessions : r # s =>
           saved'[r] = saved[r] /\ asking'[r] = asking[r] /\ upset'[r] = upset[r]
  BY <1>1 DEF Reply, Sound, TypeOK
<1>4. ~upset'[s] => \A u \in Turns : pc[u] # "idle" /\ turn[u].session = s => u = t
  <2>1. ~upset'[s] => turn[t].alone \/ ~upset[s]
    BY <1>3
  <2> QED  BY <1>1, <2>1, LastOne
<1>5. \A u \in Turns : pc'[u] # "idle" => turn'[u].session \in Sessions
  BY <1>2 DEF Sound, TypeOK, Knows
<1> HIDE DEF small
<1>6. Alone'
  BY <1>2 DEF Settled, Alone
<1>7. Met'
  <2> SUFFICES ASSUME NEW u \in Turns, pc'[u] # "idle", ~turn'[u].alone
               PROVE  upset'[turn'[u].session]
    BY DEF Met
  <2>1. u # t /\ pc[u] # "idle" /\ turn'[u] = turn[u]
    BY <1>2
  <2>2. CASE turn[u].session = s
    BY <1>4, <2>1, <2>2 DEF InFlight
  <2>3. CASE turn[u].session # s
    BY <1>3, <1>5, <2>1, <2>3 DEF Settled, Met
  <2> QED  BY <2>2, <2>3
<1>8. Waiting'
  <2> SUFFICES ASSUME NEW r \in Sessions, ~upset'[r], InFlight(r)' = {}, asking'[r]
               PROVE  saved'[r].pending # None
    BY DEF Waiting
  <2>1. CASE r # s
    <3>1. t \notin InFlight(r)
      BY <1>1, <2>1 DEF InFlight
    <3>2. InFlight(r) = {}
      BY <1>2, <3>1
    <3> QED  BY <1>3, <2>1, <3>2 DEF Settled, Waiting
  <2>2. CASE r = s /\ ~small
    BY <1>1, <1>3, <2>2 DEF Fit
  <2>3. CASE r = s /\ small
    <3>1. ~upset[s] /\ asking[s]
      BY <1>3, <2>3
    <3>2. turn[t].answersQuestion /\ Follows("reply", turn[t])
      BY <1>1, <3>1 DEF Settled, Answering
    <3> QED  BY <1>3, <2>3, <3>2 DEF Follows, small
  <2> QED  BY <2>1, <2>2, <2>3
<1>9. Answering'
  <2> SUFFICES ASSUME NEW u \in Turns, pc'[u] # "idle", ~upset'[turn'[u].session]
               PROVE  /\ turn'[u].answersQuestion = asking'[turn'[u].session]
                      /\ Follows(pc'[u], turn'[u])
    BY DEF Answering
  <2>1. u # t /\ pc'[u] = pc[u] /\ turn'[u] = turn[u]
    BY <1>2
  <2>2. turn[u].session # s
    BY <1>4, <2>1 DEF InFlight
  <2> QED  BY <1>3, <1>5, <2>1, <2>2 DEF Settled, Answering
<1> QED  BY <1>6, <1>7, <1>8, <1>9 DEF Settled

LEMMA CutOffSettled ==
  ASSUME Sound, Settled, NEW t \in Turns, CutOff(t)
  PROVE  Settled'
<1>1. PICK s \in Sessions : s = turn[t].session
  BY DEF Sound, TypeOK, Knows
<1>2. /\ pc'[t] = "idle"
      /\ \A u \in Turns : u # t => pc'[u] = pc[u] /\ turn'[u] = turn[u]
      /\ \A r : InFlight(r)' = InFlight(r) \ {t}
  BY EndOthers DEF CutOff, Goto, Learn
<1>3. /\ upset'[s] /\ \A r \in Sessions : r # s => upset'[r] = upset[r]
      /\ UNCHANGED <<saved, asking>>
  BY <1>1 DEF CutOff, Sound, TypeOK
<1>4. \A u \in Turns : turn[u].session \in Sessions
  BY DEF Sound, TypeOK, Knows
<1>5. Alone'
  BY <1>2 DEF Settled, Alone
<1>6. Met'
  <2> SUFFICES ASSUME NEW u \in Turns, pc'[u] # "idle", ~turn'[u].alone
               PROVE  upset'[turn'[u].session]
    BY DEF Met
  <2>1. u # t /\ pc[u] # "idle" /\ turn'[u] = turn[u]
    BY <1>2
  <2> QED  BY <1>3, <1>4, <2>1 DEF Settled, Met
<1>7. Waiting'
  <2> SUFFICES ASSUME NEW r \in Sessions, ~upset'[r], InFlight(r)' = {}, asking'[r]
               PROVE  saved'[r].pending # None
    BY DEF Waiting
  <2>1. r # s
    BY <1>3
  <2>2. InFlight(r) = {}
    BY <1>1, <1>2, <2>1 DEF InFlight
  <2> QED  BY <1>3, <2>1, <2>2 DEF Settled, Waiting
<1>8. Answering'
  <2> SUFFICES ASSUME NEW u \in Turns, pc'[u] # "idle", ~upset'[turn'[u].session]
               PROVE  /\ turn'[u].answersQuestion = asking'[turn'[u].session]
                      /\ Follows(pc'[u], turn'[u])
    BY DEF Answering
  <2>1. u # t /\ pc'[u] = pc[u] /\ turn'[u] = turn[u]
    BY <1>2
  <2> QED  BY <1>3, <1>4, <2>1 DEF Settled, Answering
<1> QED  BY <1>5, <1>6, <1>7, <1>8 DEF Settled

LEMMA SettledStep == Sound /\ Settled /\ [Next]_vars => Settled'
<1> SUFFICES ASSUME Sound, Settled, [Next]_vars  PROVE Settled'
  OBVIOUS
<1>1. ASSUME NEW t \in Turns, Step(t), ~Reply(t)  PROVE Settled'
  <2>1. PICK p, k : Moves(t, p, k)
    BY <1>1, TurnMoves
  <2>2. Around
    BY <1>1, TurnMoves
  <2> QED  BY <2>1, <2>2, MovesSettled
<1>2. ASSUME UNCHANGED <<pc, turn, saved, asking, upset>>  PROVE Settled'
  BY <1>2 DEF Settled, Alone, Met, Waiting, Answering, InFlight
<1>3. ASSUME NEW k \in Keys, Expire(k)  PROVE Settled'
  BY <1>2, <1>3 DEF Expire
<1>4. CASE UNCHANGED vars
  BY <1>2, <1>4 DEF vars
<1> QED
  BY <1>1, <1>3, <1>4, BeginSettled, ReplySettled, CutOffSettled DEF Next

LEMMA SettledAlways == Spec => []Settled
BY SoundAlways, SettledInit, SettledStep, PTL DEF Spec

\* A customer whose message follows a clarifying question, with or without small talk
\* in between, is not asked another one, unless two turns of the session overlapped or
\* one was cut off: the pending question survives in the thread until the search
\* merges it, and a merged text is resolved (retrieval.py, confidence_node).
THEOREM NotAskedAgain == Spec => []AskedAgainNeedsUpset
<1>1. Sound /\ Settled => AskedAgainNeedsUpset
  <2> SUFFICES ASSUME Sound, Settled, NEW t \in Turns, turn[t].text = "question",
                      turn[t].answersQuestion, ~upset[turn[t].session]
               PROVE  FALSE
    BY DEF AskedAgainNeedsUpset
  <2>1. pc[t] = "reply" /\ turn[t].kind = "info" /\ Len(turn[t].key) = 1
    BY DEF Sound, AllFit, Fit
  <2>2. Follows("reply", turn[t])
    BY <2>1 DEF Settled, Answering
  <2> QED  BY <2>1, <2>2 DEF Follows, SmallTalk
<1> QED  BY <1>1, SoundAlways, SettledAlways, PTL
================================================================================
