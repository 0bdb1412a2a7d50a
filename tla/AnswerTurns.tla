------------------------------ MODULE AnswerTurns ------------------------------
(****************************************************************************)
(* How a turn of the sales graph finds its answer: the search that may hit  *)
(* the cache, the choice of a model, the tool loop, the fallback ladder and *)
(* its cool-downs, the token budget, the groundedness check with its        *)
(* regeneration, and the writes that close the turn (answer.py,             *)
(* answer_support.py, tool_loop.py, resilience.py, costs.py,                *)
(* groundedness.py, ai.py, rag/pipeline.py).                                *)
(*                                                                          *)
(* Several turns run in one process: they share the cool-downs, the cache   *)
(* and the token counters.  Each has a database session of its own: what it *)
(* has flushed locks the counter rows it touched, and is lost unless a      *)
(* later step of the turn commits.  A turn that is over makes room for the  *)
(* next message.                                                            *)
(****************************************************************************)
EXTENDS AnswerCache, Sequences

CONSTANTS
  Turns,        \* the messages being answered, each in a session of its own
  Worlds,       \* what a behaviour may meet, see World
  Parts,        \* question -> the sub-queries it may be split into
  MaxHops,      \* TOOL_LOOP_MAX_HOPS
  MaxRegen      \* GROUNDEDNESS_MAX_REGEN

\* plain: an advisory question answered on the economy model.  vague: an
\* INFO_QUERY of low similarity, escalated to premium.  mixed: an advisory
\* intent the router kept, with a complaint or a negotiation it doubts among
\* the secondary ones.  risky: COMPLAINT or NEGOTIATION.  small: SMALLTALK.
\* query: a question to POST /query, which has no graph around it.
AllKinds == {"plain", "vague", "mixed", "risky", "small", "query"}

\* kinds and asks: the messages that arrive.  spend: what check_budget finds.
\* fails: whether model calls fail.  changes: whether product data change.
World ==
  [kinds : SUBSET AllKinds, asks : SUBSET Questions,
   spend : SUBSET {"ok", "over", "capped"}, fails : BOOLEAN, changes : BOOLEAN]

ASSUME QuestionsAssumption == Questions # {}
ASSUME WorldsAssumption == Worlds \subseteq World
ASSUME PartsAssumption == Parts \in [Questions -> SUBSET Questions]
ASSUME BoundsAssumption == MaxHops \in Nat /\ MaxRegen \in Nat

VARIABLES
  world,        \* the member of Worlds this behaviour lives in
  pc,           \* where each turn is
  turn,         \* what each turn knows, see Blank
  cooling,      \* _cooldowns: models the ladder leaves alone for now
  full,         \* the committed counter of premium tokens is at its threshold
  held,         \* counter rows each turn has flushed and not committed
  rows,         \* turns whose support row is flushed and not committed
  queue         \* turns whose support row is committed

session == <<full, held, rows, queue>>
vars == <<cacheVars, world, pc, turn, cooling, session>>

Premium == "premium-chat"
Economy == "economy-chat"
Light == "light-chat"
Fallback == "fallback-chat-8b"
Models == {Premium, Economy, Light, Fallback}

\* The rungs, from the best model down, and the kind it gives the last one; a
\* model put on top counts as cloud.  The small models run on the shop's own
\* server: only the providers of the others answer 429 or refuse a key.
Ladder == <<Premium, Fallback, Economy>>
LocalRungs == {Economy}
Local == {Economy, Light}
Cloud == {Premium, Fallback}

\* complete_with_ladder starts at the model the caller prefers; one that is
\* not a rung is put on top of the whole ladder.
RungsFrom(m) ==
  CASE m = Premium -> Ladder
    [] m = Economy -> <<Economy>>
    [] OTHER -> <<m>> \o Ladder

\* What a turn knows.  key: canonical_query.  vector: whether it has a
\* query_vector.  context: retrieved_chunks.  seen: the product data they hold.  target:
\* a premium model is reserved for the regeneration.  from: what wrote the
\* answer.  model: model_used.  trouble, overlap, uncounted are history: a
\* call failed or a rung was closed, product data changed since the search, a
\* premium call was answered outside the counter.
Blank ==
  [kind |-> "none", asked |-> CHOOSE q \in Questions : TRUE,
   key |-> CHOOSE q \in Questions : TRUE, vector |-> FALSE,
   context |-> FALSE, seen |-> 0,
   rungs |-> <<>>, target |-> FALSE, skip |-> FALSE, late |-> FALSE, hops |-> 0,
   regens |-> 0, from |-> "none", model |-> "none", exists |-> FALSE,
   broken |-> FALSE, trouble |-> FALSE, overlap |-> FALSE, uncounted |-> FALSE]

Knows ==
  [kind : AllKinds \union {"none"}, asked : Questions, key : Questions,
   vector : BOOLEAN, context : BOOLEAN, seen : 0 .. MaxVersion,
   rungs : Seq(Models), target : BOOLEAN, skip : BOOLEAN, late : BOOLEAN,
   hops : Nat, regens : Nat,
   from : Models \union {"none", "cache", "decline", "capped", "tools", "qwen3-4b", "holding"},
   model : Models \union {"none"}, exists : BOOLEAN, broken : BOOLEAN,
   trouble : BOOLEAN, overlap : BOOLEAN, uncounted : BOOLEAN]

Risky(t) == turn[t].kind = "risky"
Escalated(t) == turn[t].kind \in {"vague", "mixed", "risky"}
Advisory(t) == turn[t].kind \in {"plain", "vague", "mixed"}

Init ==
  /\ CacheInit
  /\ world \in Worlds
  /\ pc = [t \in Turns |-> "new"]
  /\ turn = [t \in Turns |-> Blank]
  /\ cooling = {}
  /\ full = FALSE
  /\ held = [t \in Turns |-> {}]
  /\ rows = {}
  /\ queue = {}

--------------------------------------------------------------------------------
(****************************************************************************)
(* One step of a turn, and the database session of a turn.                  *)
(****************************************************************************)
At(t, place) == pc[t] = place

Goto(t, place) == pc' = [pc EXCEPT ![t] = place]

Learn(t, knows) == turn' = [turn EXCEPT ![t] = knows]

\* The commit carries everything the session has flushed; the premium counter
\* may have reached its threshold with it.
Commit(t) ==
  /\ full' \in IF Premium \in held[t] THEN {full, TRUE} ELSE {full}
  /\ held' = [held EXCEPT ![t] = {}]
  /\ queue' = queue \union (rows \intersect {t})
  /\ rows' = rows \ {t}

Rollback(t) ==
  /\ held' = [held EXCEPT ![t] = {}]
  /\ rows' = rows \ {t}
  /\ UNCHANGED <<full, queue>>

\* add_token_usage: the upsert waits for a session that has flushed the row.
CountUse(t, m) ==
  /\ \A u \in Turns \ {t} : m \notin held[u]
  /\ held' = [held EXCEPT ![t] = @ \union {m}]
  /\ UNCHANGED <<full, rows, queue>>

\* premium_budget_exhausted, as a session sees the counter: what others have
\* committed and what it has flushed itself.
MayBeExhausted(t) ==
  IF full THEN {TRUE} ELSE IF Premium \in held[t] THEN BOOLEAN ELSE {FALSE}

\* Steps that only the turn itself can see.
Private == UNCHANGED <<cacheVars, world, cooling, session>>
--------------------------------------------------------------------------------
(****************************************************************************)
(* The search (rag/pipeline.py, nodes/retrieval.py).                        *)
(****************************************************************************)
\* A message arrives and is classified; the router sends an escalation past
\* the search, and SMALLTALK needs none.
Begin(t) ==
  /\ At(t, "new")
  /\ \E k \in world.kinds, q \in world.asks :
       /\ Learn(t, [Blank EXCEPT !.kind = k, !.asked = q, !.key = q])
       /\ Goto(t, IF k \in {"plain", "vague", "query"} THEN "search" ELSE "choose")
  /\ Private

\* search_and_retrieve: the cache first, whatever the intent is.
Hit(t) ==
  /\ At(t, "search") /\ Cached(turn[t].key)
  /\ Learn(t, [turn[t] EXCEPT !.from = "cache"])
  /\ Goto(t, "trace")
  /\ Private

\* The hybrid search finds products close enough, if need be for a rewritten
\* query.
Found(t) ==
  /\ At(t, "search") /\ ~Cached(turn[t].key)
  /\ Learn(t, [turn[t] EXCEPT !.seen = version, !.vector = TRUE, !.context = TRUE])
  /\ Goto(t, "choose")
  /\ Private

\* The Layer-1 guard or an embedding that fails, with nothing left to try.
Decline(t) ==
  /\ At(t, "search") /\ ~Cached(turn[t].key)
  /\ Learn(t, [turn[t] EXCEPT !.from = "decline"])
  /\ Goto(t, "trace")
  /\ Private

\* _decompose_query and _merge_subquery_results: the sub-queries of a declined
\* question are searched.  The merged result keeps the key and the vector of
\* the last one that found something; a hit of the hash lookup has no vector.
\* What is a hit brings the citations of its row, as old as they are.
Split(t) ==
  LET parts == Parts[turn[t].asked]
      hits == {q \in parts : Cached(q)}
      ages == {version} \union {cache[q].seen : q \in hits} IN
  /\ At(t, "search") /\ ~Cached(turn[t].key)
  /\ \E last \in parts, vector \in BOOLEAN, oldest \in ages :
       /\ last \notin hits => vector
       /\ \A age \in ages : oldest <= age
       /\ Learn(t, [turn[t] EXCEPT !.key = last, !.vector = vector, !.context = TRUE,
                                   !.seen = oldest,
                                   !.overlap = \E q \in hits : cache[q].overlap \/ change = "committed"])
  /\ Goto(t, "choose")
  /\ Private
--------------------------------------------------------------------------------
(****************************************************************************)
(* The choice of a model (answer.py _generate, costs.py check_budget,       *)
(* nodes/escalation.py).                                                    *)
(****************************************************************************)
Chosen(t) ==
  CASE turn[t].kind = "small" -> Light
    [] Escalated(t) -> Premium
    [] OTHER -> Economy

\* An intent escalation answers on the economy model first; the premium one is
\* kept for the regeneration.
Cascades(t) == turn[t].kind \in {"mixed", "risky"}

UsesTools(t) == Advisory(t) /\ Escalated(t)

\* answer_with_rag: one call of the gateway, with no choice, ladder or counter.
Direct(t) ==
  /\ At(t, "choose") /\ turn[t].kind = "query"
  /\ Learn(t, [turn[t] EXCEPT !.from = Economy, !.model = Economy])
  /\ Goto(t, "grade")
  /\ Private

DirectFails(t) ==
  /\ At(t, "choose") /\ turn[t].kind = "query" /\ world.fails
  /\ Learn(t, [turn[t] EXCEPT !.from = "decline"])
  /\ Goto(t, "trace")
  /\ Private

Choose(t) ==
  /\ At(t, "choose") /\ turn[t].kind # "query" /\ "ok" \in world.spend
  /\ Learn(t, [turn[t] EXCEPT !.rungs = RungsFrom(IF Cascades(t) THEN Economy ELSE Chosen(t)),
                              !.target = Cascades(t)])
  /\ Goto(t, IF UsesTools(t) THEN "tools" ELSE "ladder")
  /\ Private

\* Over the daily cost: the light model, no cascade and no tools.
Downgrade(t) ==
  /\ At(t, "choose") /\ turn[t].kind # "query" /\ "over" \in world.spend
  /\ Learn(t, [turn[t] EXCEPT !.rungs = RungsFrom(Light)])
  /\ Goto(t, "ladder")
  /\ Private

\* Over the customer's daily cap: a fixed message.
Capped(t) ==
  /\ At(t, "choose") /\ turn[t].kind # "query" /\ "capped" \in world.spend
  /\ Learn(t, [turn[t] EXCEPT !.from = "capped"])
  /\ Goto(t, "trace")
  /\ Private
--------------------------------------------------------------------------------
(****************************************************************************)
(* The bounded tool loop on the premium model (tool_loop.py).               *)
(****************************************************************************)
\* The loop is skipped while premium cools down or its budget is spent.
ToolsStart(t) ==
  /\ At(t, "tools")
  /\ \E spent \in MayBeExhausted(t) :
       Goto(t, IF Premium \in cooling \/ spent THEN "ladder" ELSE "tool")
  /\ UNCHANGED turn /\ Private

\* The model answers, asks for tools, or uses up a cap or its one retry of
\* invalid arguments.  A tool-loop answer has no metrics: it is neither
\* checked nor cached.
ToolCall(t) ==
  /\ At(t, "tool")
  /\ CountUse(t, Premium)
  /\ \/ /\ Learn(t, [turn[t] EXCEPT !.from = "tools", !.rungs = <<>>, !.hops = 0])
        /\ Goto(t, "trace")
     \/ /\ turn[t].hops < MaxHops
        /\ Learn(t, [turn[t] EXCEPT !.hops = @ + 1])
        /\ UNCHANGED pc
     \/ /\ Learn(t, [turn[t] EXCEPT !.hops = 0])
        /\ Goto(t, "ladder")
  /\ UNCHANGED <<cacheVars, world, cooling>>

\* The call raises: one attempt on a local model without tools, or the ladder.
ToolFails(t) ==
  /\ At(t, "tool") /\ world.fails
  /\ cooling' \in {cooling, cooling \union {Premium}}
  /\ \/ /\ Learn(t, [turn[t] EXCEPT !.from = "qwen3-4b", !.rungs = <<>>, !.hops = 0])
        /\ Goto(t, "trace")
     \/ /\ Learn(t, [turn[t] EXCEPT !.hops = 0, !.trouble = TRUE])
        /\ Goto(t, "ladder")
  /\ UNCHANGED <<cacheVars, world, session>>
--------------------------------------------------------------------------------
(****************************************************************************)
(* The fallback ladder (resilience.py complete_with_ladder).                *)
(****************************************************************************)
LadderStart(t) ==
  /\ At(t, "ladder")
  /\ \E spent \in MayBeExhausted(t) : Learn(t, [turn[t] EXCEPT !.skip = spent])
  /\ Goto(t, "rung")
  /\ Private

\* A risky turn stops before a local rung; so does any turn past its deadline.
Stops(t) ==
  \/ turn[t].rungs = <<>>
  \/ Risky(t) /\ Head(turn[t].rungs) \in LocalRungs
  \/ turn[t].late

Closed(t) ==
  \/ Head(turn[t].rungs) = Premium /\ turn[t].skip
  \/ Head(turn[t].rungs) \in cooling

\* Mutant: the rung that is skipped is looked at again.
SkipForever(t) ==
  /\ At(t, "rung") /\ ~Stops(t) /\ Closed(t)
  /\ Learn(t, [turn[t] EXCEPT !.trouble = TRUE])
  /\ UNCHANGED pc /\ Private

SkipRung(t) ==
  /\ At(t, "rung") /\ ~Stops(t) /\ Closed(t)
  /\ Learn(t, [turn[t] EXCEPT !.rungs = Tail(@), !.trouble = TRUE])
  /\ UNCHANGED pc /\ Private

TryRung(t) ==
  /\ At(t, "rung") /\ ~Stops(t) /\ ~Closed(t)
  /\ Goto(t, "call")
  /\ UNCHANGED turn /\ Private

\* The rung answers; its use is counted in the turn's own session.  An answer
\* without context is not checked.
RungAnswers(t) ==
  LET m == Head(turn[t].rungs) IN
  /\ At(t, "call")
  /\ CountUse(t, m)
  /\ Learn(t, [turn[t] EXCEPT !.from = m, !.model = m, !.rungs = <<>>, !.skip = FALSE])
  /\ Goto(t, IF turn[t].context THEN "grade" ELSE "trace")
  /\ UNCHANGED <<cacheVars, world, cooling>>

\* A timeout may use up the turn's time; a 429 or a refused key cools the
\* rung down for every turn of the process.
RungFails(t) ==
  LET m == Head(turn[t].rungs) IN
  /\ At(t, "call") /\ world.fails
  /\ \/ /\ \E late \in BOOLEAN :
             Learn(t, [turn[t] EXCEPT !.rungs = Tail(@), !.late = late, !.trouble = TRUE])
        /\ UNCHANGED cooling
     \/ /\ m \in Cloud
        /\ Learn(t, [turn[t] EXCEPT !.rungs = Tail(@), !.trouble = TRUE])
        /\ cooling' = cooling \union {m}
  /\ Goto(t, "rung")
  /\ UNCHANGED <<cacheVars, world, session>>

CoolOff(m) ==
  /\ m \in cooling
  /\ cooling' = cooling \ {m}
  /\ UNCHANGED <<cacheVars, world, pc, turn, session>>

\* degraded_turn_response: no rung answered.  The row for the shop's staff is
\* flushed, the holding message is the answer, and no step commits after it.
Degrade(t) ==
  /\ At(t, "rung") /\ Stops(t)
  /\ Learn(t, [turn[t] EXCEPT !.from = "holding"])
  /\ rows' = rows \union {t}
  /\ Goto(t, "hold")
  /\ UNCHANGED <<cacheVars, world, cooling, full, held, queue>>
--------------------------------------------------------------------------------
(****************************************************************************)
(* The groundedness check (answer.py _verify_grounded, groundedness.py).    *)
(****************************************************************************)
\* Every claim is supported, or the check itself failed and lets it pass.
Passes(t) ==
  /\ At(t, "grade")
  /\ Goto(t, IF turn[t].vector THEN "merge" ELSE "trace")
  /\ UNCHANGED turn /\ Private

\* The context does not hold what was asked, or no regeneration is left.
Refused(t) ==
  /\ At(t, "grade")
  /\ Learn(t, [turn[t] EXCEPT !.from = "decline"])
  /\ Goto(t, "trace")
  /\ Private

Retries(t) == IF turn[t].target /\ MaxRegen < 1 THEN 1 ELSE MaxRegen

\* The model of a regeneration: the first one of a cascade is the premium one.
Regenerator(t) == IF turn[t].target THEN Premium ELSE turn[t].model

\* A claim is not supported and the answer is written again, by a call that
\* goes around the ladder: no cool-down, deadline or counter.
Regenerate(t) ==
  /\ At(t, "grade") /\ turn[t].regens < Retries(t)
  /\ Learn(t, [turn[t] EXCEPT !.regens = @ + 1, !.target = FALSE,
                              !.model = Regenerator(t), !.from = Regenerator(t),
                              !.uncounted = (@ \/ Regenerator(t) = Premium)])
  /\ UNCHANGED pc /\ Private

\* The call fails: the gateway falls back to the economy model, or the answer
\* that was not supported is declined.
RegenerationFails(t) ==
  /\ At(t, "grade") /\ turn[t].regens < Retries(t) /\ world.fails
  /\ \/ /\ Regenerator(t) # Economy
        /\ Learn(t, [turn[t] EXCEPT !.regens = @ + 1, !.target = FALSE,
                                    !.model = Regenerator(t), !.from = Economy])
        /\ UNCHANGED pc
     \/ /\ Learn(t, [turn[t] EXCEPT !.from = "decline"])
        /\ Goto(t, "trace")
  /\ Private
--------------------------------------------------------------------------------
(****************************************************************************)
(* The writes that close a turn.  POST /query writes its trace first, and    *)
(* has nothing else to commit.                                              *)
(****************************************************************************)
\* set_cache: merge reads the row first ...
MergeRow(t) ==
  /\ At(t, "merge")
  /\ Learn(t, [turn[t] EXCEPT !.exists = Cached(turn[t].key)])
  /\ Goto(t, "insert")
  /\ Private

\* ... and then inserts or updates it, with everything the session holds.
WriteRow(t) ==
  /\ At(t, "insert") /\ turn[t].exists = Cached(turn[t].key)
  /\ cache' = [cache EXCEPT ![turn[t].key] =
                 [about |-> turn[t].asked, seen |-> turn[t].seen, overlap |-> turn[t].overlap]]
  /\ Commit(t)
  /\ Goto(t, "trace")
  /\ UNCHANGED <<version, change, stays, world, turn, cooling>>

\* Another turn inserted the row, or an invalidation deleted it, in between:
\* the statement fails, the error is logged, and the session is of no more use.
WriteClashes(t) ==
  /\ At(t, "insert") /\ turn[t].exists # Cached(turn[t].key)
  /\ Learn(t, [turn[t] EXCEPT !.broken = TRUE,
                              !.uncounted = (@ \/ Premium \in held[t])])
  /\ Rollback(t)
  /\ Goto(t, "trace")
  /\ UNCHANGED <<cacheVars, world, cooling>>

\* write_model_trace commits the session, in a broken one it logs its failure;
\* the reply is sent and the session closed.
Trace(t) ==
  /\ At(t, "trace")
  /\ IF turn[t].broken THEN Rollback(t) ELSE Commit(t)
  /\ Learn(t, Blank)
  /\ Goto(t, "new")
  /\ UNCHANGED <<cacheVars, world, cooling>>

\* The holding message is sent and the session closed: what the turn flushed
\* is gone.
Hold(t) ==
  /\ At(t, "hold")
  /\ Rollback(t)
  /\ Learn(t, Blank)
  /\ Goto(t, "new")
  /\ UNCHANGED <<cacheVars, world, cooling>>
--------------------------------------------------------------------------------
\* Product data change; as history, every turn past its search learns of it.
ChangeData ==
  /\ world.changes
  /\ CommitChange
  /\ turn' = [t \in Turns |->
                IF pc[t] \in {"new", "search"} THEN turn[t]
                ELSE [turn[t] EXCEPT !.overlap = TRUE]]
  /\ UNCHANGED <<world, pc, cooling, session>>

CleanCache ==
  /\ \/ Invalidate
     \/ InvalidationFails
     \/ \E q \in Questions : Expire(q)
  /\ UNCHANGED <<world, pc, turn, cooling, session>>

Step(t) ==
  \/ Hit(t) \/ Found(t) \/ Decline(t) \/ Split(t)
  \/ Direct(t) \/ DirectFails(t) \/ Choose(t) \/ Downgrade(t) \/ Capped(t)
  \/ ToolsStart(t) \/ ToolCall(t) \/ ToolFails(t)
  \/ LadderStart(t) \/ SkipRung(t) \/ TryRung(t) \/ RungAnswers(t) \/ RungFails(t)
  \/ Degrade(t)
  \/ Passes(t) \/ Refused(t) \/ Regenerate(t) \/ RegenerationFails(t)
  \/ MergeRow(t) \/ WriteRow(t) \/ WriteClashes(t) \/ Trace(t) \/ Hold(t)

Next ==
  \/ \E t \in Turns : Begin(t) \/ Step(t)
  \/ \E m \in Models : CoolOff(m)
  \/ ChangeData
  \/ CleanCache

Spec == Init /\ [][Next]_vars

\* A turn goes on: every await of it returns or times out, and the database
\* gives a counter row in turn to the sessions that wait for it.
LiveSpec == Spec /\ \A t \in Turns : SF_vars(Step(t))
--------------------------------------------------------------------------------
TypeOK ==
  /\ CacheTypeOK
  /\ world \in Worlds
  /\ pc \in [Turns -> {"new", "search", "choose", "tools", "tool", "ladder", "rung",
                       "call", "grade", "merge", "insert", "trace", "hold"}]
  /\ turn \in [Turns -> Knows]
  /\ cooling \subseteq Cloud
  /\ full \in BOOLEAN
  /\ held \in [Turns -> SUBSET Models]
  /\ rows \subseteq Turns /\ queue \subseteq Turns

\* A row that is older than the product data was written by a turn whose
\* search came before the change, or outlived an invalidation that failed, or
\* is about to be deleted: without those every hit is up to date.
StaleNeedsOverlap ==
  \A q \in Questions :
    Cached(q) /\ cache[q].seen < version =>
      change = "committed" \/ stays \/ cache[q].overlap

\* Every message is replied to: no failing model, cool-down or counter row
\* that another session holds keeps it.
TurnsReplied == \A t \in Turns : pc[t] # "new" ~> pc[t] = "new"
--------------------------------------------------------------------------------
(****************************************************************************)
(* What the comments of the code promise and it does not keep.              *)
(****************************************************************************)
\* semantic_cache.py:164: an invalidation closes the window in which cached
\* answers state old prices or stock.
NeverStale ==
  \A q \in Questions : Cached(q) /\ ~stays /\ change = "none" => cache[q].seen = version

\* answer_support.py:195: the key of a row is the question it answers.
KeyedByQuestion == \A q \in Questions : Cached(q) => cache[q].about = q

\* resilience.py:30: a risky turn never takes an answer of a local model.
RiskyNeverLocal == \A t \in Turns : Risky(t) => turn[t].from \notin Local

\* answer.py:268: an intent escalation is answered on the economy model first,
\* so while all models work nobody is put off with the holding message.
EscalationAnswered ==
  \A t \in Turns : turn[t].from = "holding" => turn[t].trouble

\* answer_support.py:129: a held turn lands in the support queue.
HeldIsQueued == [][\A t \in rows : t \in rows' \union queue']_vars

\* models/schema.py:519: the counter holds the premium calls of the day.
CallsCounted == \A t \in Turns : ~turn[t].uncounted

\* resilience.py:91: a model that is cooling down is left alone.
CoolingIsLeftAlone ==
  [][\A t \in Turns : turn'[t].regens > turn[t].regens => turn'[t].model \notin cooling]_vars
================================================================================
