----------------------------- MODULE SupportTurns -----------------------------
(****************************************************************************)
(* The graph of the support persona: POST /support/query, its router, the   *)
(* search it shares with the sales graph, the clarifying question that      *)
(* waits for the customer's next message, and the answer with its waits,    *)
(* its groundedness check and its cache write (core/support,                *)
(* api/routes/support.py, nodes/retrieval.py, nodes/confidence.py).         *)
(*                                                                          *)
(* A session's thread is loaded when a turn begins and saved after every    *)
(* node, whole, as that turn knows it.  Nothing keeps two requests of one   *)
(* session apart, so a turn may save over what another one has saved.       *)
(* A question asked in so many words is a member of Messages; whoever       *)
(* refers to a product seen earlier (retrieval.py's pronouns and recall)    *)
(* asks another question.                                                   *)
(****************************************************************************)
EXTENDS Naturals, Sequences

CONSTANTS
  Turns,        \* the requests in flight
  Sessions,     \* the threads
  Messages,     \* what customers write
  Worlds,       \* what a behaviour may meet, see World
  Quota,        \* CLARIFY_MAX_ROUNDS
  MaxWaits,     \* _RATE_LIMIT_RETRIES
  MaxRegen,     \* GROUNDEDNESS_MAX_REGEN
  None          \* no pending question, no row

\* greeting: the router's fast path, "ok" and "cảm ơn" included.  chat: what
\* the model classifies as SMALLTALK.
Kinds == {"greeting", "chat", "info", "pricing", "complaint"}
SmallTalk == {"greeting", "chat"}

\* overlaps: whether a customer writes again before the reply.
World ==
  [kinds : SUBSET Kinds, asks : SUBSET Messages,
   capped : BOOLEAN, fails : BOOLEAN, overlaps : BOOLEAN]

ASSUME MessagesAssumption == Messages # {} /\ None \notin Messages
ASSUME SessionsAssumption == Sessions # {}
ASSUME WorldsAssumption == Worlds \subseteq World
ASSUME BoundsAssumption == Quota \in Nat /\ MaxWaits \in Nat /\ MaxRegen \in Nat

VARIABLES
  world,        \* the member of Worlds this behaviour lives in
  pc,           \* where each request is
  turn,         \* what each request knows, see Blank
  saved,        \* the checkpointed thread of a session
  cache,        \* semantic_cache: key -> row
  asking,       \* the last reply to anything but small talk is a question
  upset         \* history: since then two turns overlapped or one was cut off

vars == <<world, pc, turn, saved, cache, asking, upset>>

\* The channels that outlive a turn: clarify_original_query, which is set while
\* awaiting_clarification is, and clarify_count.
Thread == [pending : Messages \union {None}, count : 0 .. Quota]

\* The search text: a question, or the pending one with the reply after it.
Keys == {<<m>> : m \in Messages} \union {<<m, r>> : m, r \in Messages}

\* An answer by what it says, and what is known of how it came about.
Row == [text : {"answer", "decline", "blank"}, factual : BOOLEAN, refused : BOOLEAN]

\* answersQuestion and alone are history: what the customer had seen, and
\* whether no other turn of the session was in flight meanwhile.
Blank ==
  [session |-> CHOOSE s \in Sessions : TRUE, asked |-> CHOOSE m \in Messages : TRUE,
   kind |-> "greeting", thread |-> [pending |-> None, count |-> 0],
   key |-> <<>>, declined |-> FALSE, tie |-> FALSE,
   context |-> FALSE, vector |-> FALSE, waits |-> 0, regens |-> 0,
   text |-> "none", refused |-> FALSE, answersQuestion |-> FALSE, alone |-> TRUE]

Knows ==
  [session : Sessions, asked : Messages, kind : Kinds, thread : Thread,
   key : Keys \union {<<>>}, declined : BOOLEAN, tie : BOOLEAN,
   context : BOOLEAN, vector : BOOLEAN, waits : 0 .. MaxWaits, regens : 0 .. MaxRegen,
   text : {"none", "question", "cached", "greeting", "capped", "holding",
           "answer", "decline", "blank"},
   refused : BOOLEAN, answersQuestion : BOOLEAN, alone : BOOLEAN]

Init ==
  /\ world \in Worlds
  /\ pc = [t \in Turns |-> "idle"]
  /\ turn = [t \in Turns |-> Blank]
  /\ saved = [s \in Sessions |-> [pending |-> None, count |-> 0]]
  /\ cache = [k \in Keys |-> None]
  /\ asking = [s \in Sessions |-> FALSE]
  /\ upset = [s \in Sessions |-> FALSE]

At(t, place) == pc[t] = place

Goto(t, place) == pc' = [pc EXCEPT ![t] = place]

Learn(t, knows) == turn' = [turn EXCEPT ![t] = knows]

InFlight(s) == {t \in Turns : pc[t] # "idle" /\ turn[t].session = s}

\* A node ends: the thread is saved as the turn has it.
Save(t) == saved' = [saved EXCEPT ![turn[t].session] = turn'[t].thread]

\* Steps within a node.
Within == UNCHANGED <<world, saved, cache, asking, upset>>

NodeEnds(t) == Save(t) /\ UNCHANGED <<world, cache, asking, upset>>
--------------------------------------------------------------------------------
(****************************************************************************)
(* The router and the search.                                               *)
(****************************************************************************)
\* post_support_query loads the thread; no gateway asks whether another turn
\* of the session is under way.
Begin(t) ==
  /\ At(t, "idle")
  /\ \E s \in Sessions, m \in world.asks, k \in world.kinds :
       /\ InFlight(s) = {} \/ world.overlaps
       /\ turn' = [u \in Turns |->
            IF u = t
            THEN [Blank EXCEPT !.session = s, !.asked = m, !.kind = k, !.thread = saved[s],
                               !.answersQuestion = asking[s], !.alone = (InFlight(s) = {})]
            ELSE [turn[u] EXCEPT !.alone = @ /\ u \notin InFlight(s)]]
       /\ upset' = [upset EXCEPT ![s] = @ \/ InFlight(s) # {}]
  /\ Goto(t, "router")
  /\ UNCHANGED <<world, saved, cache, asking>>

\* support_router_node: small talk is answered at once, a pending question
\* stays pending.  A classification that fails gives INFO_QUERY.
Route(t) ==
  /\ At(t, "router")
  /\ \E kind \in {turn[t].kind} \union
                (IF world.fails /\ turn[t].kind # "greeting" THEN {"info"} ELSE {}) :
       /\ Learn(t, [turn[t] EXCEPT !.kind = kind])
       /\ Goto(t, IF kind \in SmallTalk THEN "answer" ELSE "search")
  /\ NodeEnds(t)

Merges(t) == turn[t].thread.pending # None

\* The text the search is given: a message after a clarifying question is
\* taken for the reply to it.
SearchText(t) ==
  IF Merges(t) THEN <<turn[t].thread.pending, turn[t].asked>> ELSE <<turn[t].asked>>

\* Nothing is pending any more; without a reply the count begins again.
Consumed(t) ==
  [pending |-> None, count |-> IF Merges(t) THEN turn[t].thread.count ELSE 0]

\* confidence_node takes a search text that differs from the message for
\* resolved.
Resolved(t) == Len(turn[t].key) > 1

\* A cached answer, whatever the intent; an empty text counts as none, and the
\* products of the row are the context.  Only the hash lookup lacks a vector.
Hit(t) ==
  LET key == SearchText(t) IN
  /\ At(t, "search") /\ cache[key] # None
  /\ \E vector \in BOOLEAN :
       Learn(t, [turn[t] EXCEPT !.thread = Consumed(t), !.key = key,
                                !.context = TRUE, !.vector = vector,
                                !.text = IF cache[key].text = "blank" THEN "none" ELSE "cached"])
  /\ Goto(t, "confidence")
  /\ NodeEnds(t)

\* The catalogue is searched when neither lookup of the cache finds a row, or
\* both fail.  tie: the score is below the second threshold, and the best two results are
\* as good as equal.
Found(t) ==
  LET key == SearchText(t) IN
  /\ At(t, "search") /\ (cache[key] = None \/ world.fails)
  /\ \E tie \in BOOLEAN :
       Learn(t, [turn[t] EXCEPT !.thread = Consumed(t), !.key = key, !.tie = tie,
                                !.context = TRUE, !.vector = TRUE])
  /\ Goto(t, "confidence")
  /\ NodeEnds(t)

\* Nothing above the first threshold, or the search fails.
NotFound(t) ==
  /\ At(t, "search") /\ (cache[SearchText(t)] = None \/ world.fails)
  /\ Learn(t, [turn[t] EXCEPT !.thread = Consumed(t), !.key = SearchText(t),
                              !.declined = TRUE])
  /\ Goto(t, "confidence")
  /\ NodeEnds(t)

\* Mutant: a merged reply is judged like a new question.
UnclearAgain(t) ==
  /\ ~turn[t].declined /\ turn[t].tie
  /\ turn[t].kind = "info"
  /\ turn[t].thread.count < Quota

\* confidence_node and the edge behind it: a question of information between
\* two results that tie is asked about, within the quota and unless it has
\* been resolved; prices and complaints go on to the answer.
Unclear(t) ==
  /\ ~turn[t].declined /\ turn[t].tie
  /\ turn[t].kind = "info"
  /\ ~Resolved(t)
  /\ turn[t].thread.count < Quota

Confidence(t) ==
  /\ At(t, "confidence")
  /\ Goto(t, IF Unclear(t) THEN "clarify" ELSE "answer")
  /\ Learn(t, [turn[t] EXCEPT !.tie = FALSE])
  /\ NodeEnds(t)

\* support_clarify_node: a model words the question, or a fixed text does.
Clarify(t) ==
  /\ At(t, "clarify")
  /\ Learn(t, [turn[t] EXCEPT !.text = "question",
                              !.thread = [pending |-> turn[t].asked, count |-> @.count + 1]])
  /\ Goto(t, "reply")
  /\ NodeEnds(t)
--------------------------------------------------------------------------------
(****************************************************************************)
(* support_answer_node.                                                     *)
(****************************************************************************)
Factual(t) == turn[t].kind \in {"info", "pricing"}

Refusal(t) == turn[t].declined /\ turn[t].kind # "complaint"

\* The replies that cost nothing: the cached one, the greeting, the refusal of
\* anything but a complaint, and the message over the customer's daily cap.
Answer(t) ==
  LET ready == turn[t].text # "none"
      free == ready \/ turn[t].kind = "greeting" \/ Refusal(t) \/ world.capped IN
  /\ At(t, "answer")
  /\ Learn(t, [turn[t] EXCEPT !.text =
       CASE ready -> @
         [] ~ready /\ turn[t].kind = "greeting" -> "greeting"
         [] ~ready /\ Refusal(t) -> "decline"
         [] ~ready /\ ~Refusal(t) /\ turn[t].kind # "greeting" /\ world.capped -> "capped"
         [] OTHER -> @])
  /\ Goto(t, IF free THEN "reply" ELSE "call")
  /\ Within

\* What is left to know once the text of the reply is settled.
Ends(t, text, declined) ==
  [turn[t] EXCEPT !.text = text, !.declined = declined,
                  !.waits = 0, !.regens = 0, !.refused = FALSE, !.vector = FALSE]

\* The model answers, perhaps with nothing: a first draft becomes the decline
\* message, the regenerated one is left as it is.
Drafted(t) ==
  /\ At(t, "call")
  /\ \E empty \in {FALSE, world.fails} :
       Learn(t, [turn[t] EXCEPT !.waits = 0, !.refused = FALSE,
                                !.text = CASE ~empty -> "answer"
                                           [] empty /\ turn[t].regens = 0 -> "decline"
                                           [] OTHER -> "blank"])
  /\ Goto(t, IF Factual(t) THEN "judge" ELSE "reply")
  /\ Within

\* Mutant: after the last wait the count begins again.
WaitsOn(t) ==
  /\ At(t, "call") /\ world.fails
  /\ Learn(t, [turn[t] EXCEPT !.waits = IF @ < MaxWaits THEN @ + 1 ELSE 0])
  /\ UNCHANGED pc
  /\ Within

\* A 429: the call waits as long as the provider says, and is made again.
Waits(t) ==
  /\ At(t, "call") /\ world.fails /\ turn[t].waits < MaxWaits
  /\ Learn(t, [turn[t] EXCEPT !.waits = @ + 1])
  /\ UNCHANGED pc
  /\ Within

\* Another error, or one 429 too many: the holding message, or for a
\* regeneration the refusal.
CallFails(t) ==
  /\ At(t, "call") /\ world.fails
  /\ Learn(t, IF turn[t].regens = 0 THEN Ends(t, "holding", FALSE) ELSE Ends(t, "decline", TRUE))
  /\ Goto(t, "reply")
  /\ Within

\* _ground: every claim is supported.  So is an empty text, and any text when
\* the judge fails.
Supported(t) ==
  /\ At(t, "judge")
  /\ Goto(t, "store")
  /\ UNCHANGED turn
  /\ Within

\* The context does not hold the answer; of a regenerated one that is not asked.
NotAnswerable(t) ==
  /\ At(t, "judge") /\ turn[t].regens = 0
  /\ Learn(t, Ends(t, "decline", TRUE))
  /\ Goto(t, "reply")
  /\ Within

\* Mutant: the last draft is sent although the judge refused it.
UnsupportedSent(t) ==
  /\ At(t, "judge") /\ turn[t].text # "blank"
  /\ IF turn[t].regens < MaxRegen
     THEN /\ Learn(t, [turn[t] EXCEPT !.regens = @ + 1])
          /\ Goto(t, "call")
     ELSE /\ Learn(t, [turn[t] EXCEPT !.refused = TRUE])
          /\ Goto(t, "store")
  /\ Within

\* A claim is not supported: one stricter draft, then the refusal.
Unsupported(t) ==
  /\ At(t, "judge") /\ turn[t].text # "blank"
  /\ IF turn[t].regens < MaxRegen
     THEN /\ Learn(t, [turn[t] EXCEPT !.regens = @ + 1, !.refused = TRUE])
          /\ Goto(t, "call")
     ELSE /\ Learn(t, Ends(t, "decline", TRUE))
          /\ Goto(t, "reply")
  /\ Within

\* write_cache, under the text of the search; a write that fails is logged.
Store(t) ==
  /\ At(t, "store")
  /\ cache' \in {cache} \union
       (IF turn[t].vector
        THEN {[cache EXCEPT ![turn[t].key] =
                 [text |-> turn[t].text, factual |-> Factual(t), refused |-> turn[t].refused]]}
        ELSE {})
  /\ Learn(t, Ends(t, turn[t].text, FALSE))
  /\ Goto(t, "reply")
  /\ UNCHANGED <<world, saved, asking, upset>>

\* _turn_citations: the products of this turn's search.
Cites(t) == turn[t].context /\ ~turn[t].declined /\ turn[t].kind \notin SmallTalk

\* The answer node ends and the reply is returned.  As history, a session is
\* settled once a turn that was alone is over.
Reply(t) ==
  LET s == turn[t].session
      small == turn[t].kind \in SmallTalk IN
  /\ At(t, "reply")
  /\ saved' = [saved EXCEPT ![s] = turn[t].thread]
  /\ asking' = [asking EXCEPT ![s] = IF small THEN @ ELSE turn[t].text = "question"]
  /\ upset' = [upset EXCEPT ![s] = @ /\ (small \/ ~turn[t].alone)]
  /\ Learn(t, Blank)
  /\ Goto(t, "idle")
  /\ UNCHANGED <<world, cache>>

\* An exception of the graph, a checkpoint that cannot be written, a restart:
\* the request ends with a 500 and the thread stays as last saved.
CutOff(t) ==
  /\ pc[t] # "idle" /\ world.fails
  /\ upset' = [upset EXCEPT ![turn[t].session] = TRUE]
  /\ Learn(t, Blank)
  /\ Goto(t, "idle")
  /\ UNCHANGED <<world, saved, cache, asking>>

\* CACHE_TTL_SECONDS, or an invalidation.
Expire(k) ==
  /\ cache[k] # None
  /\ cache' = [cache EXCEPT ![k] = None]
  /\ UNCHANGED <<world, pc, turn, saved, asking, upset>>
--------------------------------------------------------------------------------
Step(t) ==
  \/ Route(t) \/ Hit(t) \/ Found(t) \/ NotFound(t) \/ Confidence(t) \/ Clarify(t)
  \/ Answer(t) \/ Drafted(t) \/ Waits(t) \/ CallFails(t)
  \/ Supported(t) \/ NotAnswerable(t) \/ Unsupported(t) \/ Store(t) \/ Reply(t)

Next ==
  \/ \E t \in Turns : Begin(t) \/ Step(t) \/ CutOff(t)
  \/ \E k \in Keys : Expire(k)

Spec == Init /\ [][Next]_vars

\* Every await of a request returns or times out.
LiveSpec == Spec /\ \A t \in Turns : WF_vars(Step(t))
--------------------------------------------------------------------------------
TypeOK ==
  /\ world \in Worlds
  /\ pc \in [Turns -> {"idle", "router", "search", "confidence", "clarify", "answer",
                       "call", "judge", "store", "reply"}]
  /\ turn \in [Turns -> Knows]
  /\ saved \in [Sessions -> Thread]
  /\ cache \in [Keys -> Row \union {None}]
  /\ asking \in [Sessions -> BOOLEAN]
  /\ upset \in [Sessions -> BOOLEAN]

\* A customer whose message follows a clarifying question, with or without
\* small talk in between, is not asked another one, unless two turns of the
\* session overlapped or one was cut off.
AskedAgainNeedsUpset ==
  \A t \in Turns :
    turn[t].text = "question" /\ turn[t].answersQuestion => upset[turn[t].session]

\* What the cache serves to anybody was written for a factual question, and is
\* no text the judge refused.
CacheIsSound ==
  \A k \in Keys : cache[k] # None => cache[k].factual /\ ~cache[k].refused

\* Every request ends, whatever the provider's limits and the judge say.
SupportReplied == \A t \in Turns : pc[t] # "idle" ~> pc[t] = "idle"
--------------------------------------------------------------------------------
(****************************************************************************)
(* What the comments of the code promise and it does not keep.              *)
(****************************************************************************)
\* support/graph.py:53: a complaint is always answered with an apology and a
\* hand-off.
ComplaintHeard ==
  \A t \in Turns : turn[t].kind = "complaint" => turn[t].text # "cached"

\* retrieval.py:266: a complaint is never merged with a pending question.
ComplaintNotMerged == \A t \in Turns : turn[t].kind = "complaint" => ~Resolved(t)

\* support/nodes/clarify.py:4, retrieval.py:286: the message after a question,
\* "ok" included, is merged with it.
ReplyMergedNextTurn ==
  \A t \in Turns :
    At(t, "reply") /\ turn[t].answersQuestion /\ ~upset[turn[t].session]
      => Resolved(t)

\* answer_support.py:195: a row answers the text it is filed under.  The prompt
\* and the judge see the message alone.
FiledByQuestion == \A k \in Keys : cache[k] # None => Len(k) = 1

\* pipeline.py:96: only accepted answers are cached.
OnlyAnswersCached == \A k \in Keys : cache[k] # None => cache[k].text = "answer"

\* api/routes/support.py:67: the citations are the products the answer used.
CitedWasUsed ==
  \A t \in Turns : At(t, "reply") /\ Cites(t) => turn[t].text \in {"answer", "cached"}
================================================================================
