----------------------------- MODULE Turns_proofs ------------------------------
(****************************************************************************)
(* What holds, for all values of their constants, of a turn in the graph    *)
(* (AgentGraph) and of the way a message takes to a turn (TelegramTurns).   *)
(*                                                                          *)
(* The graph's invariant says which nodes may share a super-step (Beside,   *)
(* Chains), what each of them may write (Writes, May) and where what it     *)
(* wrote can lead (To).  A node that returns keeps it because it writes and *)
(* goes only there; at the barrier, what neighbours lead to are neighbours  *)
(* again.  The properties are read off: neighbours of the search write      *)
(* other channels than it does, an order placed leaves only the answer to   *)
(* run, a verdict stands on the way to the execution, a pending question is *)
(* handed on from the router to the confidence.                             *)
(*                                                                          *)
(* The ingress's says that a permit is free or held by a running turn, and  *)
(* that a task which is not over has an attempt to send left.               *)
(****************************************************************************)
EXTENDS AgentGraph, TelegramTurns, FiniteSetTheorems, TLAPS

\* The nodes of the current super-step.
Live == due \cup DOMAIN wrote

\* The parked order has gone on while its message is searched for.
Slot == ch.intent = "ORDER" /\ ch.order # "none"

\* The channels a node may write in this super-step.
May(n) ==
  IF n = "router"
  THEN {"intent", "hard", "doubts", "awaiting", "rounds", "order", "contact", "response"}
  ELSE IF n = "retrieval"
  THEN {"sim", "declined", "cached", "error", "resolved", "awaiting", "rounds"}
  ELSE IF n = "memory"
  THEN IF ch.intent = "FOLLOW_UP" THEN {"memory", "declined"} ELSE {"memory"}
  ELSE IF n = "confidence"
  THEN IF Slot THEN {"declined", "clarify"}
       ELSE {"declined", "clarify", "exhausted", "loop", "mismatch", "order", "contact"}
  ELSE IF n = "clarify" THEN {"response", "declined", "awaiting", "rounds"}
  ELSE IF n = "guard"
  THEN IF ch.approved THEN {}
       ELSE {"response", "parked", "approved", "exhausted", "count", "error"}
  ELSE IF n = "queue" THEN {"approved", "count", "response", "contact"}
  ELSE IF n = "fresh" THEN {"exhausted"}
  ELSE IF n = "execute" THEN {"exhausted", "error", "response", "order"}
  ELSE IF n = "cancel" THEN {"exhausted", "parked", "response", "order"}
  ELSE IF n = "support" THEN {"response"}
  ELSE IF n = "answer"
  THEN IF ch.response = "none" THEN {"response", "declined"} ELSE {"response"}
  ELSE {}

\* Where a node that wrote w may lead. What it writes tells its paths apart.
To(n, w) ==
  IF n = "router"
  THEN IF "response" \in DOMAIN w THEN {"answer", "retrieval"}
       ELSE IF "order" \in DOMAIN w THEN {"guard", "retrieval"}
       ELSE {NextNode(w)} \cup RouteAfterRouter(w)
  ELSE IF n = "retrieval" THEN {"memory"}
  ELSE IF n = "memory" THEN {"confidence"}
  ELSE IF n = "confidence"
  THEN IF Slot THEN {"guard"} ELSE RouteAfterConfidence(w ++ ch)
  ELSE IF n = "guard"
  THEN IF "approved" \in DOMAIN w THEN {"queue"}
       ELSE IF "exhausted" \in DOMAIN w THEN {"support"} ELSE {"answer"}
  ELSE IF n = "queue"
  THEN IF "approved" \in DOMAIN w THEN {"guard"} ELSE {"fresh", "cancel"}
  ELSE IF n = "fresh"
  THEN IF ch.order = "none" THEN {"answer"}
       ELSE IF "exhausted" \in DOMAIN w THEN {"support"} ELSE {"guard", "execute"}
  ELSE IF n = "execute"
  THEN IF "exhausted" \in DOMAIN w THEN {"answer", "support"} ELSE {"answer"}
  ELSE IF n = "cancel" THEN {"answer", "support"}
  ELSE IF n \in {"clarify", "escalation", "support"} THEN {"answer"}
  ELSE {}

Channels ==
  {"intent", "doubts", "awaiting", "rounds", "parked", "exhausted", "hard", "response",
   "declined", "error", "sim", "cached", "resolved", "memory", "clarify", "loop", "order",
   "contact", "mismatch", "approved", "count"}
\* Values a node may write.
Flag(w, c) == c \in DOMAIN w => w[c] \in BOOLEAN
Fits(w) ==
  /\ DOMAIN w \subseteq Channels
  /\ Flag(w, "awaiting") /\ Flag(w, "parked") /\ Flag(w, "exhausted") /\ Flag(w, "hard")
  /\ Flag(w, "declined") /\ Flag(w, "error") /\ Flag(w, "cached") /\ Flag(w, "resolved")
  /\ Flag(w, "memory") /\ Flag(w, "clarify") /\ Flag(w, "loop") /\ Flag(w, "contact")
  /\ Flag(w, "mismatch") /\ Flag(w, "approved")
  /\ "intent" \in DOMAIN w => w["intent"] \in Intents \cup {"none"}
  /\ "doubts" \in DOMAIN w => w["doubts"] \in 0..1
  /\ "rounds" \in DOMAIN w => w["rounds"] \in 0..Quota
  /\ "response" \in DOMAIN w => w["response"] \in Answers
  /\ "sim" \in DOMAIN w => w["sim"] \in {"low", "mid", "high"}
  /\ "order" \in DOMAIN w =>
       w["order"] \in {"none", "draft", "confirmed", "cancelled", "expired"}
  /\ "count" \in DOMAIN w => w["count"] \in 0..MaxCount + 1

\* What a node writes.
Writes(n, w) ==
  /\ Fits(w) /\ DOMAIN w \subseteq May(n)
  /\ n = "router" =>
       /\ {"intent", "hard"} \subseteq DOMAIN w
       /\ "awaiting" \in DOMAIN w => w["intent"] \in ContextReset
       /\ "response" \in DOMAIN w => w["response"] # "none" /\ w["intent"] # "FOLLOW_UP"
       /\ "order" \in DOMAIN w => w["intent"] = "ORDER" /\ w["order"] # "none"
  /\ n = "retrieval" =>
       "resolved" \in DOMAIN w /\ (ch.awaiting /\ ch.intent # "ORDER" => w["resolved"])
  /\ n = "confidence" /\ "clarify" \in DOMAIN w /\ w["clarify"] =>
       /\ ch.rounds < Quota
       /\ ch.intent = "ORDER" \/ (ch.intent # "FOLLOW_UP" /\ ~ch.resolved)
  /\ n = "clarify" => "awaiting" \in DOMAIN w /\ w["awaiting"]
  /\ n = "guard" =>
       /\ "approved" \in DOMAIN w => w["approved"]
       /\ "count" \in DOMAIN w => w["count"] <= MaxCount
  /\ n = "queue" /\ "approved" \in DOMAIN w => ~w["approved"]
  /\ n = "support" => "response" \in DOMAIN w /\ w["response"] # "none"
  /\ n = "answer" =>
       "response" \in DOMAIN w /\ (ch.response # "none" => w["response"] = ch.response)
  /\ n # "clarify" /\ "response" \in DOMAIN w /\ w["response"] = "question" =>
       n = "answer" /\ ch.response = "question"

\* Every pending write is one of the node's, every edge taken one of a node
\* that returned, and the edges to the answer are taken.
Returned ==
  /\ due \cap DOMAIN wrote = {}
  /\ \A n \in DOMAIN wrote : Writes(n, wrote[n])
  /\ \A t \in sent : \E n \in DOMAIN wrote : t \in To(n, wrote[n])
  /\ DOMAIN wrote \cap {"execute", "cancel", "clarify"} # {} => "answer" \in sent
  /\ ~({"fresh", "cancel"} \subseteq sent)

\* Which nodes may share a super-step with a node.
Beside(n) ==
  IF n = "answer" THEN {"cancel", "confidence", "fresh", "guard", "support", "memory",
                        "queue", "retrieval"}
  ELSE IF n = "guard" THEN {"answer", "support", "confidence", "execute", "queue", "retrieval"}
  ELSE IF n = "support" THEN {"answer", "guard", "memory"}
  ELSE IF n = "cancel" THEN {"answer", "confidence", "escalation", "retrieval"}
  ELSE IF n = "confidence" THEN {"answer", "cancel", "fresh", "guard"}
  ELSE IF n = "retrieval" THEN {"answer", "cancel", "escalation", "guard"}
  ELSE IF n = "memory" THEN {"answer", "queue", "support"}
  ELSE IF n = "queue" THEN {"answer", "guard", "memory"}
  ELSE IF n = "fresh" THEN {"answer", "confidence"}
  ELSE IF n = "execute" THEN {"guard"}
  ELSE IF n = "escalation" THEN {"cancel", "retrieval"}
  ELSE {}

\* What runs in one super-step, and what it takes for granted.
Chains ==
  /\ \A m, n \in Live : m # n => m \in Beside(n)
  /\ Live \cap {"router", "retrieval", "memory", "confidence"} # {} => ~ch.clarify /\ ~ch.loop
  /\ Live \cap {"queue", "fresh", "execute"} # {} => ch.approved
  /\ "confidence" \in Live /\ Live # {"confidence"} => Slot
  /\ {"memory", "queue"} \subseteq Live => Slot
  /\ {"memory", "support"} \subseteq Live /\ "answer" \notin Live => Slot
  /\ {"retrieval", "guard"} \subseteq Live => Slot
  /\ "retrieval" \in Live => ch.intent # "FOLLOW_UP"
  /\ {"memory", "answer"} \subseteq Live => ch.intent # "FOLLOW_UP"
  /\ "answer" \in Live /\ Live \cap {"retrieval", "confidence"} # {} => ch.response # "none"
  /\ "clarify" \in Live => ch.rounds < Quota

\* From the guard's verdict to the execution nothing revokes it.
Verdicts ==
  \/ "queue" \in due \/ sent \cap {"queue", "fresh", "execute"} # {}
  \/ Live \cap {"fresh", "execute"} # {}
  => verdict = "passed"

\* An order placed in this turn is confirmed in the next super-step, the last.
Orders ==
  /\ placed \in {0, 1}
  /\ phase = "idle" /\ placed = 1 /\ ~broken => ch.response = "confirmed"
  /\ phase # "idle" /\ placed = 1 =>
       \/ "execute" \in DOMAIN wrote /\ wrote["execute"] = Placed.set
       \/ Live = {"answer"} /\ ch.response = "confirmed"

\* A question that is pending between two turns decides how far the next one
\* may come without the customer changing the subject.
Questions ==
  /\ phase = "idle" /\ asked # "none" => ch.awaiting
  /\ phase # "idle" /\ ch.response = "question" =>
       Live = {"answer"} /\ ch.awaiting /\ (asked # "none" => ch.intent \in ContextReset)
  /\ asked # "none" =>
       /\ "router" \in Live => ch.awaiting
       /\ "retrieval" \in Live => ch.awaiting \/ ch.intent \in ContextReset
       /\ Live \cap {"memory", "confidence"} # {} =>
            ch.resolved \/ ch.intent \in ContextReset \cup {"FOLLOW_UP"}
       /\ "clarify" \in Live => ch.intent \in ContextReset

\* Reviews and changes of the order are counted within MaxCount + 1.
Counted ==
  /\ phase = "paused" => due = {"guard"} /\ MayPause
  /\ phase = "run" /\ backlog => ch.count <= MaxCount
  /\ "queue" \in DOMAIN wrote => ~backlog

\* The latest super-step a node can run in.
Longest(n) ==
  IF n = "router" THEN 0
  ELSE IF n = "retrieval" THEN 1
  ELSE IF n = "memory" THEN 2
  ELSE IF n = "confidence" THEN 3
  ELSE IF n \in {"clarify", "escalation"} THEN 4
  ELSE IF n = "guard" THEN (IF ch.approved THEN 9 ELSE IF backlog THEN 4 ELSE 6)
  ELSE IF n = "queue"
  THEN (IF \/ backlog
           \/ "queue" \in DOMAIN wrote /\ "approved" \in DOMAIN wrote["queue"] THEN 5 ELSE 7)
  ELSE IF n \in {"fresh", "cancel"} THEN 8
  ELSE IF n = "execute" THEN 9
  ELSE IF n = "support" THEN 10
  ELSE 11
Short == steps <= 11 /\ (phase = "run" => \A n \in Live : steps <= Longest(n))

Inv ==
  /\ TypeOK /\ Returned /\ Counted
  /\ phase # "idle" => Live # {} /\ Chains /\ Verdicts
  /\ Orders /\ Questions
  /\ Limit > 11 => Short
--------------------------------------------------------------------------------
LEMMA ChannelsFit ==
  ASSUME ch \in ChType
  PROVE  DOMAIN ch = Channels /\ Fits(ch)
BY DEF ChType, Channels, Fits, Flag

LEMMA FitIsTyped ==
  ASSUME NEW d, DOMAIN d = Channels, d = [c \in Channels |-> d[c]], Fits(d)
  PROVE  d \in ChType
BY DEF ChType, Channels, Fits, Flag

\* One fact per channel.
LEMMA Kinds ==
  ASSUME ch \in ChType
  PROVE  /\ ch.intent \in Intents \cup {"none"} /\ ch.response \in Answers
         /\ ch.rounds \in 0..Quota /\ ch.count \in 0..MaxCount + 1 /\ ch.doubts \in 0..1
         /\ ch.awaiting \in BOOLEAN
BY DEF ChType

\* Writing over.
LEMMA Over ==
  ASSUME NEW f, NEW g
  PROVE  /\ DOMAIN (f ++ g) = DOMAIN f \cup DOMAIN g
         /\ \A c \in DOMAIN f : (f ++ g)[c] = f[c]
         /\ \A c \in DOMAIN g \ DOMAIN f : (f ++ g)[c] = g[c]
BY DEF ++

LEMMA FitsOver ==
  ASSUME NEW f, NEW g, Fits(f), Fits(g)
  PROVE  Fits(f ++ g)
<1> DEFINE h == f ++ g
<1>1. \A c \in DOMAIN h : h[c] = IF c \in DOMAIN f THEN f[c] ELSE g[c]
  BY DEF ++
<1>2. DOMAIN h = DOMAIN f \cup DOMAIN g
  BY Over
<1> HIDE DEF h
<1>3. Fits(h)
  BY <1>1, <1>2 DEF Fits, Flag
<1> QED  BY <1>3 DEF h

LEMMA NothingFits == DOMAIN Nothing = {} /\ Fits(Nothing)
BY DEF Nothing, Fits, Flag

--------------------------------------------------------------------------------
(****************************************************************************)
(* What each node returns is what Writes and To say of it.                  *)
(****************************************************************************)
LEMMA RetrievalOut ==
  ASSUME ch \in ChType, NEW o \in Retrieval
  PROVE  /\ Writes("retrieval", o.set)
         /\ o.goto \cup Edges("retrieval", o.set ++ ch) \subseteq To("retrieval", o.set)
<1>1. PICK f \in Found \cup {SearchFailed}, r \in Resolved :
        o = Returns(f ++ ([resolved |-> r] ++ Merged), {})
  BY DEF Retrieval
<1> DEFINE w == [resolved |-> r]
           u == w ++ Merged
           v == f ++ u
<1>0. r \in BOOLEAN /\ Fits(w) /\ DOMAIN w = {"resolved"} /\ w["resolved"] = r
  BY DEF Resolved, Fits, Flag, Channels
<1>2. Fits(f) /\ DOMAIN f \subseteq {"sim", "declined", "cached", "error"}
  <2>1. CASE f \in Found
    BY <2>1 DEF Found, Fits, Flag, Channels
  <2>2. CASE f = SearchFailed
    BY <2>2 DEF SearchFailed, Fits, Flag, Channels
  <2> QED  BY <2>1, <2>2
<1>3. Fits(Merged) /\ DOMAIN Merged \subseteq {"awaiting", "rounds"}
  <2>1. Fits([awaiting |-> FALSE, rounds |-> 0]) /\ Fits([awaiting |-> FALSE])
    BY QuotaAssumption DEF Fits, Flag, Channels
  <2> QED  BY <2>1, NothingFits DEF Merged
<1>4. ch.awaiting /\ ch.intent # "ORDER" => w["resolved"]
  BY <1>0, Kinds DEF Resolved, Merges
<1>5. o.set = v /\ o.goto = {}
  BY <1>1 DEF Returns
<1> HIDE DEF w
<1>6. Fits(u) /\ DOMAIN u = DOMAIN w \cup DOMAIN Merged /\ u["resolved"] = w["resolved"]
  BY <1>0, <1>3, FitsOver DEF ++
<1> HIDE DEF u
<1>7. Fits(v) /\ DOMAIN v = DOMAIN f \cup DOMAIN u
  BY <1>2, <1>6, FitsOver, Over
<1>8. v["resolved"] = u["resolved"]
  BY <1>0, <1>2, <1>6 DEF ++
<1> HIDE DEF v
<1>9. Writes("retrieval", v)
  BY <1>0, <1>2, <1>3, <1>4, <1>6, <1>7, <1>8 DEF Writes, May
<1> QED  BY <1>5, <1>9 DEF To, Edges

LEMMA ClassifiedOut ==
  ASSUME NEW i \in Intents, NEW h \in BOOLEAN, NEW d \in 0..1, NEW s \in BOOLEAN,
         NEW w, w = Classified(i, h, d, s)
  PROVE  /\ Fits(w)
         /\ DOMAIN w \subseteq {"intent", "hard", "doubts", "awaiting", "rounds"}
         /\ {"intent", "hard"} \subseteq DOMAIN w
         /\ w["intent"] = i /\ w["hard"] = h
         /\ "awaiting" \in DOMAIN w => i \in ContextReset
<1> DEFINE r == Reset(i, s)
           v == [intent |-> i, hard |-> h, doubts |-> d]
<1>1. Fits(r) /\ DOMAIN r \subseteq {"awaiting", "rounds"}
  <2>1. /\ Fits([awaiting |-> FALSE, rounds |-> 0])
        /\ DOMAIN [awaiting |-> FALSE, rounds |-> 0] = {"awaiting", "rounds"}
    BY QuotaAssumption DEF Fits, Flag, Channels
  <2> QED  BY <2>1, NothingFits DEF Reset
<1>2. "awaiting" \in DOMAIN r => i \in ContextReset
  BY NothingFits DEF Reset
<1>3. Fits(v) /\ DOMAIN v = {"intent", "hard", "doubts"} /\ v["intent"] = i /\ v["hard"] = h
  BY DEF Fits, Flag, Channels
<1>4. w = r ++ v
  BY DEF Classified
<1> HIDE DEF r, v
<1>5. Fits(w)
  BY <1>1, <1>3, <1>4, FitsOver
<1>6. DOMAIN w = DOMAIN r \cup DOMAIN v
  BY <1>4, Over
<1>7. w["intent"] = v["intent"] /\ w["hard"] = v["hard"]
  BY <1>1, <1>3, <1>4 DEF ++
<1> QED  BY <1>1, <1>2, <1>3, <1>5, <1>6, <1>7

LEMMA Small == 0 \in 0..1 /\ 1 \in 0..1 /\ TRUE \in BOOLEAN /\ FALSE \in BOOLEAN
OBVIOUS

\* What apply_transition decides.
LEMMA TransitionOut ==
  ASSUME ch \in ChType, NEW i \in Intents, NEW h \in BOOLEAN, NEW conf
  PROVE  \E j \in Intents, k \in BOOLEAN, d \in 0..1, s \in BOOLEAN :
           Transition(i, h, conf) = Classified(j, k, d, s)
<1>1. ch.intent \in Intents \cup {"none"} /\ ch.doubts \in 0..1
  BY Kinds
<1>2. CASE ch.intent \in {"none", i}
  <2>1. Transition(i, h, conf) = Classified(i, h, 0, FALSE)
    BY <1>2 DEF Transition
  <2> QED  BY <2>1, Small, Zenon
<1>3. CASE ch.intent \notin {"none", i} /\ ch.doubts + 1 >= 2
  <2>1. Transition(i, h, conf) = Classified(i, h, 0, TRUE)
    BY <1>3 DEF Transition
  <2> QED  BY <2>1, Small, Zenon
<1>4. CASE ch.intent \notin {"none", i} /\ ~(ch.doubts + 1 >= 2) /\ conf = "keep"
  <2>1. ch.intent \in Intents /\ ch.doubts + 1 \in 0..1 /\ (h \/ i \in Hard) \in BOOLEAN
    BY <1>1, <1>4
  <2>2. Transition(i, h, conf) = Classified(ch.intent, h \/ i \in Hard, ch.doubts + 1, FALSE)
    BY <1>4 DEF Transition
  <2> QED  BY <2>1, <2>2
<1>5. CASE /\ ch.intent \notin {"none", i} /\ ~(ch.doubts + 1 >= 2) /\ conf # "keep"
           /\ i = "SMALLTALK" /\ ch.intent \in Transactional /\ conf = "mid"
  <2>1. ch.doubts + 1 \in 0..1 /\ "FOLLOW_UP" \in Intents
    BY <1>1, <1>5 DEF Intents
  <2>2. Transition(i, h, conf) = Classified("FOLLOW_UP", FALSE, ch.doubts + 1, FALSE)
    BY <1>5 DEF Transition
  <2> QED  BY <2>1, <2>2
<1>6. CASE /\ ch.intent \notin {"none", i} /\ ~(ch.doubts + 1 >= 2) /\ conf # "keep"
           /\ ~(i = "SMALLTALK" /\ ch.intent \in Transactional /\ conf = "mid")
  <2>1. Transition(i, h, conf) = Classified(i, h, 0, TRUE)
    BY <1>6 DEF Transition
  <2> QED  BY <2>1, Small, Zenon
<1> QED  BY <1>2, <1>3, <1>4, <1>5, <1>6

\* The ways through the router: refused, a reply that gives the contact, or read.
LEMMA ReadOut ==
  ASSUME ch \in ChType, NEW i \in Intents, NEW h \in BOOLEAN, NEW d \in 0..1, NEW s \in BOOLEAN,
         NEW o, o.set = Classified(i, h, d, s), o.goto = {NextNode(o.set)}
  PROVE  /\ Writes("router", o.set)
         /\ o.goto \cup Edges("router", o.set ++ ch) \subseteq To("router", o.set)
<1> DEFINE w == o.set
<1>1. /\ Fits(w) /\ DOMAIN w \subseteq {"intent", "hard", "doubts", "awaiting", "rounds"}
      /\ {"intent", "hard"} \subseteq DOMAIN w
      /\ "awaiting" \in DOMAIN w => w["intent"] \in ContextReset
  BY ClassifiedOut
<1> HIDE DEF w
<1>2. Writes("router", w)
  BY <1>1 DEF Writes, May
<1>3. (w ++ ch)["intent"] = w["intent"] /\ (w ++ ch)["hard"] = w["hard"]
  BY <1>1 DEF ++
<1>4. Edges("router", w ++ ch) = RouteAfterRouter(w)
  BY <1>3 DEF Edges, RouteAfterRouter
<1>5. To("router", w) = {NextNode(w)} \cup RouteAfterRouter(w)
  BY <1>1 DEF To
<1> QED  BY <1>2, <1>4, <1>5 DEF w

LEMMA PlainOut ==
  ASSUME ch \in ChType, NEW i \in Intents, NEW w, w = Plain(i)
  PROVE  /\ Fits(w)
         /\ DOMAIN w \subseteq {"intent", "hard", "doubts", "awaiting", "rounds"}
         /\ {"intent", "hard"} \subseteq DOMAIN w
         /\ w["intent"] = i /\ w["hard"] = FALSE
<1> DEFINE h == FALSE
           d == 0
           s == ch.intent \notin {"none", i}
<1>1. w = Classified(i, h, d, s) /\ h \in BOOLEAN /\ d \in 0..1 /\ s \in BOOLEAN
  BY DEF Plain
<1>2. h = FALSE
  OBVIOUS
<1> HIDE DEF h, d, s
<1> QED  BY <1>1, <1>2, ClassifiedOut

LEMMA RefusedOut ==
  ASSUME ch \in ChType, NEW o,
         o = Returns([intent |-> "OTHER", hard |-> FALSE, response |-> "refusal"], {"answer"})
  PROVE  /\ Writes("router", o.set)
         /\ o.goto \cup Edges("router", o.set ++ ch) \subseteq To("router", o.set)
<1> DEFINE w == [intent |-> "OTHER", hard |-> FALSE, response |-> "refusal"]
<1>1. o.set = w /\ o.goto = {"answer"}
  BY DEF Returns
<1>2. Fits(w)
  BY DEF Fits, Flag, Channels, Intents, Answers
<1>3. /\ DOMAIN w = {"intent", "hard", "response"}
      /\ w["intent"] = "OTHER" /\ w["response"] = "refusal" /\ ~w["hard"]
  OBVIOUS
<1> HIDE DEF w
<1>4. Writes("router", w)
  BY <1>2, <1>3 DEF Writes, May
<1>5. (w ++ ch)["intent"] = "OTHER" /\ (w ++ ch)["hard"] = w["hard"]
  BY <1>3 DEF ++
<1>6. Edges("router", w ++ ch) = {"retrieval"}
  BY <1>3, <1>5 DEF Edges, RouteAfterRouter, Hard
<1> QED  BY <1>1, <1>3, <1>4, <1>6 DEF To

LEMMA SlotOut ==
  ASSUME ch \in ChType, NEW o \in SlotResume
  PROVE  /\ Writes("router", o.set)
         /\ o.goto \cup Edges("router", o.set ++ ch) \subseteq To("router", o.set)
<1>1. PICK c \in BOOLEAN :
        o = Returns(Plain("ORDER") ++ [order |-> "draft", contact |-> c], {"guard"})
  BY DEF SlotResume
<1> DEFINE p == Plain("ORDER")
           v == [order |-> "draft", contact |-> c]
           w == p ++ v
<1>2. o.set = w /\ o.goto = {"guard"}
  BY <1>1 DEF Returns
<1>3. /\ Fits(p) /\ DOMAIN p \subseteq {"intent", "hard", "doubts", "awaiting", "rounds"}
      /\ {"intent", "hard"} \subseteq DOMAIN p
      /\ p["intent"] = "ORDER" /\ p["hard"] = FALSE
  <2>1. "ORDER" \in Intents
    BY DEF Intents
  <2> HIDE DEF p
  <2>2. p = Plain("ORDER")
    BY DEF p
  <2> QED  BY <2>1, <2>2, PlainOut
<1>4. Fits(v) /\ DOMAIN v = {"order", "contact"} /\ v["order"] = "draft"
  BY DEF Fits, Flag, Channels
<1> HIDE DEF p, v
<1>5. Fits(w)
  BY <1>3, <1>4, FitsOver
<1>6. DOMAIN w = DOMAIN p \cup DOMAIN v
  BY Over
<1>7. w["intent"] = "ORDER" /\ w["hard"] = FALSE /\ w["order"] = "draft"
  BY <1>3, <1>4 DEF ++
<1> HIDE DEF w
<1>8. Writes("router", w)
  BY <1>3, <1>4, <1>5, <1>6, <1>7 DEF Writes, May, ContextReset
<1>9. (w ++ ch)["intent"] = "ORDER" /\ (w ++ ch)["hard"] = w["hard"]
  BY <1>3, <1>6, <1>7 DEF ++
<1>10. Edges("router", w ++ ch) = {"retrieval"}
  BY <1>7, <1>9 DEF Edges, RouteAfterRouter, Hard
<1> QED  BY <1>2, <1>3, <1>4, <1>6, <1>8, <1>10 DEF To

LEMMA RouterOut ==
  ASSUME ch \in ChType, NEW o \in Router
  PROVE  /\ Writes("router", o.set)
         /\ o.goto \cup Edges("router", o.set ++ ch) \subseteq To("router", o.set)
<1> DEFINE Fine == /\ Writes("router", o.set)
                   /\ o.goto \cup Edges("router", o.set ++ ch) \subseteq To("router", o.set)
<1>0. ch.intent \in Intents \cup {"none"} /\ Asked \subseteq Intents
  BY Kinds, AskedAssumption
<1>1. CASE o = Returns([intent |-> "OTHER", hard |-> FALSE, response |-> "refusal"], {"answer"})
  BY <1>1, RefusedOut
<1>2. ASSUME NEW i \in Intents, o = Returns(Plain(i), {NextNode(Plain(i))})
      PROVE  Fine
  <2>1. o.set = Classified(i, FALSE, 0, ch.intent \notin {"none", i})
    BY <1>2 DEF Returns, Plain
  <2>2. o.goto = {NextNode(o.set)}
    BY <1>2 DEF Returns
  <2>3. (ch.intent \notin {"none", i}) \in BOOLEAN
    OBVIOUS
  <2> QED  BY <2>1, <2>2, <2>3, Small, ReadOut, Zenon
<1>3. CASE o = Returns(Plain("CANCEL"), {"cancel"})
  <2> DEFINE w == Plain("CANCEL")
  <2>1. "CANCEL" \in Intents /\ w = Plain("CANCEL")
    BY DEF Intents
  <2> HIDE DEF w
  <2>2. w["intent"] = "CANCEL"
    BY <2>1, PlainOut
  <2>3. NextNode(w) = "cancel"
    BY <2>2 DEF NextNode
  <2> QED  BY <1>2, <1>3, <2>1, <2>3
<1>4. CASE o = Returns(Classified("CANCEL", FALSE, 0, TRUE), {"cancel"})
  <2> DEFINE i == "CANCEL"
             h == FALSE
             d == 0
             s == TRUE
  <2>1. i \in Intents /\ h \in BOOLEAN /\ d \in 0..1 /\ s \in BOOLEAN /\ i = "CANCEL"
    BY DEF Intents
  <2>2. o.set = Classified(i, h, d, s) /\ o.goto = {"cancel"}
    BY <1>4 DEF Returns
  <2> HIDE DEF i, h, d, s
  <2>3. o.set["intent"] = i
    BY <2>1, <2>2, ClassifiedOut
  <2>4. NextNode(o.set) = "cancel"
    BY <2>1, <2>3 DEF NextNode
  <2> QED  BY <2>1, <2>2, <2>4, ReadOut
<1>5. CASE o \in SlotResume
  BY <1>5, SlotOut
<1>6. ASSUME NEW r \in Readings,
             o = LET c == Transition(r.intent, r.hard, r.conf) IN Returns(c, {NextNode(c)})
      PROVE  Fine
  <2>1. r.intent \in Intents /\ r.hard \in BOOLEAN
    BY <1>0 DEF Readings
  <2>2. PICK j \in Intents, k \in BOOLEAN, d \in 0..1, s \in BOOLEAN :
          Transition(r.intent, r.hard, r.conf) = Classified(j, k, d, s)
    BY <2>1, TransitionOut
  <2>3. o.set = Classified(j, k, d, s) /\ o.goto = {NextNode(o.set)}
    BY <1>6, <2>2 DEF Returns
  <2> QED  BY <2>3, ReadOut
<1>7. \/ o = Returns([intent |-> "OTHER", hard |-> FALSE, response |-> "refusal"], {"answer"})
      \/ o = Returns(Plain("CANCEL"), {"cancel"})
      \/ o = Returns(Classified("CANCEL", FALSE, 0, TRUE), {"cancel"})
      \/ o \in SlotResume
      \/ \E i \in Intents : o = Returns(Plain(i), {NextNode(Plain(i))})
      \/ \E r \in Readings :
           o = LET c == Transition(r.intent, r.hard, r.conf) IN Returns(c, {NextNode(c)})
  BY <1>0 DEF Router, FastPaths
<1> QED  BY <1>1, <1>2, <1>3, <1>4, <1>5, <1>6, <1>7

LEMMA MemoryOut ==
  ASSUME ch \in ChType, NEW o \in Memory
  PROVE  /\ Writes("memory", o.set)
         /\ o.goto \cup Edges("memory", o.set ++ ch) \subseteq To("memory", o.set)
<1> DEFINE lifted == [declined |-> FALSE]
<1>1. PICK m \in BOOLEAN :
        o = Returns([memory |-> m] ++ IF m /\ ch.intent = "FOLLOW_UP" THEN lifted
                                      ELSE Nothing, {})
  BY DEF Memory
<1> DEFINE v == [memory |-> m]
           u == IF m /\ ch.intent = "FOLLOW_UP" THEN lifted ELSE Nothing
           w == v ++ u
<1>2. o.set = w /\ o.goto = {}
  BY <1>1 DEF Returns
<1>3. Fits(v) /\ DOMAIN v = {"memory"}
  BY DEF Fits, Flag, Channels
<1>4. Fits(lifted) /\ DOMAIN lifted = {"declined"}
  BY DEF Fits, Flag, Channels
<1>5. Fits(u) /\ DOMAIN u \subseteq {"declined"} /\ (ch.intent # "FOLLOW_UP" => DOMAIN u = {})
  <2> HIDE DEF lifted
  <2> QED  BY <1>4, NothingFits
<1> HIDE DEF v, u
<1>6. Fits(w)
  BY <1>3, <1>5, FitsOver
<1>7. DOMAIN w = DOMAIN v \cup DOMAIN u
  BY Over
<1> HIDE DEF w
<1>8. Writes("memory", w)
  BY <1>3, <1>5, <1>6, <1>7 DEF Writes, May
<1> QED  BY <1>2, <1>8 DEF To, Edges

LEMMA ClarifyOut ==
  ASSUME ch \in ChType, ch.rounds < Quota, NEW o \in Clarify
  PROVE  /\ Writes("clarify", o.set)
         /\ o.goto \cup Edges("clarify", o.set ++ ch) \subseteq To("clarify", o.set)
<1> DEFINE n == ch.rounds + 1
<1>1. n \in 0..Quota
  BY Kinds, QuotaAssumption
<1> HIDE DEF n
<1> DEFINE w == [response |-> "question", declined |-> FALSE, awaiting |-> TRUE, rounds |-> n]
<1>2. o.set = w /\ o.goto = {}
  BY DEF Clarify, Returns, n
<1>3. Fits(w)
  BY <1>1 DEF Fits, Flag, Channels, Answers
<1>4. DOMAIN w = {"response", "declined", "awaiting", "rounds"} /\ w["awaiting"]
  OBVIOUS
<1> HIDE DEF w
<1>5. Writes("clarify", w)
  BY <1>3, <1>4 DEF Writes, May
<1> QED  BY <1>2, <1>5 DEF To, Edges

LEMMA EscalationOut ==
  ASSUME ch \in ChType, NEW o \in Escalation
  PROVE  /\ Writes("escalation", o.set)
         /\ o.goto \cup Edges("escalation", o.set ++ ch) \subseteq To("escalation", o.set)
<1>1. o.set = Nothing /\ o.goto = {}
  BY DEF Escalation, Returns
<1>2. Writes("escalation", Nothing)
  BY NothingFits DEF Writes, May
<1> QED  BY <1>1, <1>2 DEF To, Edges

LEMMA SupportOut ==
  ASSUME ch \in ChType, NEW o \in Support
  PROVE  /\ Writes("support", o.set)
         /\ o.goto \cup Edges("support", o.set ++ ch) \subseteq To("support", o.set)
<1> DEFINE w == [response |-> "handoff"]
<1>1. o.set = w /\ o.goto = {"answer"}
  BY DEF Support, Returns
<1>2. Fits(w) /\ DOMAIN w = {"response"} /\ w["response"] = "handoff"
  BY DEF Fits, Flag, Channels, Answers
<1> HIDE DEF w
<1>3. Writes("support", w)
  BY <1>2 DEF Writes, May
<1> QED  BY <1>1, <1>3 DEF To, Edges

LEMMA AnswerOut ==
  ASSUME ch \in ChType, NEW o \in Answer
  PROVE  /\ Writes("answer", o.set)
         /\ o.goto \cup Edges("answer", o.set ++ ch) \subseteq To("answer", o.set)
<1>0. ch.response \in Answers
  BY Kinds
<1>1. CASE ch.response # "none"
  <2> DEFINE w == [response |-> ch.response]
  <2>1. o.set = w /\ o.goto = {}
    BY <1>1 DEF Answer, Returns
  <2>2. Fits(w) /\ DOMAIN w = {"response"} /\ w["response"] = ch.response
    BY <1>0 DEF Fits, Flag, Channels
  <2> HIDE DEF w
  <2>3. Writes("answer", w)
    BY <1>1, <2>2 DEF Writes, May
  <2> QED  BY <2>1, <2>3 DEF To, Edges
<1>2. ASSUME ch.response = "none", NEW w, o = Returns(w, {}), Fits(w),
             "response" \in DOMAIN w, DOMAIN w \subseteq {"response", "declined"},
             w["response"] = "said"
      PROVE  /\ Writes("answer", o.set)
             /\ o.goto \cup Edges("answer", o.set ++ ch) \subseteq To("answer", o.set)
  <2>1. Writes("answer", w)
    BY <1>2 DEF Writes, May
  <2> QED  BY <1>2, <2>1 DEF To, Edges, Returns
<1>3. CASE ch.response = "none" /\ o = Returns([response |-> "said"], {})
  <2> DEFINE w == [response |-> "said"]
  <2>1. Fits(w) /\ DOMAIN w = {"response"} /\ w["response"] = "said"
    BY DEF Fits, Flag, Channels, Answers
  <2>2. o = Returns(w, {})
    BY <1>3
  <2> HIDE DEF w
  <2> QED  BY <1>2, <1>3, <2>1, <2>2
<1>4. ASSUME ch.response = "none", NEW d \in BOOLEAN,
             o = Returns([response |-> "said", declined |-> d], {})
      PROVE  /\ Writes("answer", o.set)
             /\ o.goto \cup Edges("answer", o.set ++ ch) \subseteq To("answer", o.set)
  <2> DEFINE w == [response |-> "said", declined |-> d]
  <2>1. Fits(w) /\ DOMAIN w = {"response", "declined"} /\ w["response"] = "said"
    BY DEF Fits, Flag, Channels, Answers
  <2>2. o = Returns(w, {})
    BY <1>4
  <2> HIDE DEF w
  <2> QED  BY <1>2, <1>4, <2>1, <2>2
<1>5. ch.response = "none" =>
        \/ o = Returns([response |-> "said"], {})
        \/ \E d \in BOOLEAN : o = Returns([response |-> "said", declined |-> d], {})
  BY DEF Answer
<1> QED  BY <1>1, <1>3, <1>4, <1>5

LEMMA ScoredOut ==
  ASSUME NEW d \in BOOLEAN, NEW k \in BOOLEAN, NEW w, w = Scored(d, k)
  PROVE  Fits(w) /\ DOMAIN w = {"declined", "clarify"} /\ w["clarify"] = k
BY DEF Scored, Fits, Flag, Channels

LEMMA HandOverOut ==
  ASSUME NEW w, w = HandOver
  PROVE  /\ Fits(w) /\ DOMAIN w = {"declined", "clarify", "exhausted", "loop"}
         /\ w["clarify"] = FALSE
BY DEF HandOver, Fits, Flag, Channels

\* A search is declined, asked about, handed over, goes on, or is the order of
\* a product found.
LEMMA JudgedKinds ==
  ASSUME NEW tie \in BOOLEAN, NEW w \in Judged(tie)
  PROVE  \/ w = [declined |-> TRUE]
         \/ w = Scored(FALSE, TRUE) /\ ch.rounds < Quota /\ ~Slot
              /\ (ch.intent = "ORDER" \/ (ch.intent # "FOLLOW_UP" /\ ~ch.resolved))
         \/ w = HandOver /\ ~Slot
         \/ \E d \in BOOLEAN : w = Scored(d, FALSE)
         \/ w = [mismatch |-> TRUE] ++ Scored(FALSE, FALSE) /\ ~Slot
         \/ ~Slot /\ \E c \in BOOLEAN :
              w = [order |-> "draft", contact |-> c] ++ Scored(FALSE, FALSE)
<1> USE DEF Slot
<1>1. CASE ch.declined
  BY <1>1 DEF Judged
<1>2. CASE ~ch.declined /\ MayAsk(tie)
  BY <1>2 DEF Judged, MayAsk, MemoryResolved
<1>3. CASE ~ch.declined /\ ~MayAsk(tie) /\ OutOfQuestions
  BY <1>3 DEF Judged, OutOfQuestions
<1>4. CASE ~ch.declined /\ ~MayAsk(tie) /\ ~OutOfQuestions /\ ch.intent = "ORDER"
  <2>1. w \in FoundOrder(tie)
    BY <1>4 DEF Judged
  <2>2. CASE ch.order # "none" \/ ch.sim = "low"
    <3>1. w = Scored(FALSE, FALSE)
      BY <2>1, <2>2 DEF FoundOrder
    <3> QED  BY <3>1, Small, Zenon
  <2>3. CASE ~(ch.order # "none" \/ ch.sim = "low") /\ tie /\ ch.rounds < Quota
    BY <1>4, <2>1, <2>3 DEF FoundOrder
  <2>4. CASE ~(ch.order # "none" \/ ch.sim = "low") /\ tie /\ ~(ch.rounds < Quota)
    BY <2>1, <2>4 DEF FoundOrder
  <2>5. CASE ~(ch.order # "none" \/ ch.sim = "low") /\ ~tie
    BY <2>1, <2>5 DEF FoundOrder
  <2> QED  BY <2>2, <2>3, <2>4, <2>5
<1>5. CASE ~ch.declined /\ ~MayAsk(tie) /\ ~OutOfQuestions /\ ch.intent # "ORDER"
  <2> DEFINE d == /\ ch.sim # "high" /\ ~(MemoryResolved /\ ch.memory)
                  /\ ch.intent \notin Borderline \cup {"FOLLOW_UP"}
  <2>1. w = Scored(d, FALSE)
    BY <1>5 DEF Judged
  <2>2. d \in BOOLEAN
    OBVIOUS
  <2> HIDE DEF d
  <2> QED  BY <2>1, <2>2, Zenon
<1> QED  BY <1>1, <1>2, <1>3, <1>4, <1>5

LEMMA ConfidenceOut ==
  ASSUME ch \in ChType, ~ch.clarify, ~ch.loop, NEW o \in Confidence
  PROVE  /\ Writes("confidence", o.set)
         /\ o.goto \cup Edges("confidence", o.set ++ ch) \subseteq To("confidence", o.set)
<1>0. PICK tie \in BOOLEAN : \E x \in Judged(tie) : o = Returns(x, {})
  BY DEF Confidence
<1> PICK w \in Judged(tie) : o = Returns(w, {})
  BY <1>0
<1>1. o.set = w /\ o.goto = {}
  BY DEF Returns
\* What distinguishes the outcomes.
<1>2. ASSUME Fits(w), DOMAIN w \subseteq {"declined", "clarify", "exhausted", "loop", "mismatch",
                                          "order", "contact"},
             Slot => DOMAIN w \subseteq {"declined", "clarify"},
             "clarify" \in DOMAIN w /\ w["clarify"] =>
               /\ ch.rounds < Quota /\ ~Slot
               /\ ch.intent = "ORDER" \/ (ch.intent # "FOLLOW_UP" /\ ~ch.resolved)
      PROVE  /\ Writes("confidence", w)
             /\ Edges("confidence", w ++ ch) \subseteq To("confidence", w)
  <2>1. Writes("confidence", w)
    BY <1>2 DEF Writes, May
  <2>2. Edges("confidence", w ++ ch) = RouteAfterConfidence(w ++ ch)
    BY DEF Edges
  <2>3. CASE Slot
    <3>0. DOMAIN ch = Channels
      BY ChannelsFit
    <3>1. (w ++ ch)["intent"] = "ORDER" /\ (w ++ ch)["loop"] = ch.loop
      BY <1>2, <2>3, <3>0 DEF ++, Slot, Channels
    <3>2. ~(w ++ ch)["clarify"]
      <4>1. CASE "clarify" \in DOMAIN w
        <5>1. (w ++ ch)["clarify"] = w["clarify"]
          BY <4>1 DEF ++
        <5> QED  BY <1>2, <2>3, <4>1, <5>1
      <4>2. CASE "clarify" \notin DOMAIN w
        <5>1. (w ++ ch)["clarify"] = ch["clarify"]
          BY <4>2, <3>0 DEF ++, Channels
        <5> QED  BY <5>1
      <4> QED  BY <4>1, <4>2
    <3>3. RouteAfterConfidence(w ++ ch) = {"guard"}
      BY <3>1, <3>2 DEF RouteAfterConfidence
    <3> QED  BY <2>1, <2>2, <2>3, <3>3 DEF To
  <2>4. CASE ~Slot
    BY <2>1, <2>2, <2>4 DEF To
  <2> QED  BY <2>3, <2>4
<1>3. CASE w = [declined |-> TRUE]
  <2>1. Fits(w) /\ DOMAIN w = {"declined"}
    BY <1>3 DEF Fits, Flag, Channels
  <2> QED  BY <1>1, <1>2, <2>1
<1>4. CASE w = Scored(FALSE, TRUE) /\ ch.rounds < Quota /\ ~Slot
             /\ (ch.intent = "ORDER" \/ (ch.intent # "FOLLOW_UP" /\ ~ch.resolved))
  <2> DEFINE d == FALSE
             k == TRUE
  <2>1. d \in BOOLEAN /\ k \in BOOLEAN /\ w = Scored(d, k)
    BY <1>4
  <2> HIDE DEF d, k
  <2>2. Fits(w) /\ DOMAIN w = {"declined", "clarify"}
    BY <2>1, ScoredOut
  <2> QED  BY <1>1, <1>2, <1>4, <2>2
<1>5. CASE w = HandOver /\ ~Slot
  <2>1. Fits(w) /\ DOMAIN w = {"declined", "clarify", "exhausted", "loop"} /\ ~w["clarify"]
    BY <1>5, HandOverOut
  <2> QED  BY <1>1, <1>2, <1>5, <2>1
<1>6. ASSUME NEW d \in BOOLEAN, NEW v, v = Scored(d, FALSE)
      PROVE  Fits(v) /\ DOMAIN v = {"declined", "clarify"} /\ ~v["clarify"]
  <2> DEFINE k == FALSE
  <2>1. k \in BOOLEAN /\ v = Scored(d, k) /\ ~k
    BY <1>6
  <2> HIDE DEF k
  <2> QED  BY <2>1, ScoredOut
<1>7. ASSUME NEW d \in BOOLEAN, w = Scored(d, FALSE)
      PROVE  /\ Writes("confidence", w)
             /\ Edges("confidence", w ++ ch) \subseteq To("confidence", w)
  <2>1. Fits(w) /\ DOMAIN w = {"declined", "clarify"} /\ ~w["clarify"]
    BY <1>6, <1>7
  <2> QED  BY <1>2, <2>1
<1>8. ASSUME ~Slot, NEW u, Fits(u), DOMAIN u \subseteq {"mismatch", "order", "contact"},
             w = u ++ Scored(FALSE, FALSE)
      PROVE  /\ Writes("confidence", w)
             /\ Edges("confidence", w ++ ch) \subseteq To("confidence", w)
  <2> DEFINE d == FALSE
             v == Scored(d, FALSE)
  <2>1. d \in BOOLEAN /\ v = Scored(d, FALSE) /\ w = u ++ v
    BY <1>8
  <2> HIDE DEF d, v
  <2>2. Fits(v) /\ DOMAIN v = {"declined", "clarify"} /\ ~v["clarify"]
    BY <1>6, <2>1
  <2>3. Fits(w)
    BY <1>8, <2>1, <2>2, FitsOver
  <2>4. DOMAIN w = DOMAIN u \cup DOMAIN v
    BY <2>1, Over
  <2>5. w["clarify"] = v["clarify"]
    BY <1>8, <2>1, <2>2 DEF ++
  <2> QED  BY <1>2, <1>8, <2>2, <2>3, <2>4, <2>5
<1>9. CASE ~Slot /\ w = [mismatch |-> TRUE] ++ Scored(FALSE, FALSE)
  <2> DEFINE u == [mismatch |-> TRUE]
  <2>1. Fits(u) /\ DOMAIN u = {"mismatch"} /\ w = u ++ Scored(FALSE, FALSE)
    BY <1>9 DEF Fits, Flag, Channels
  <2> HIDE DEF u
  <2> QED  BY <1>1, <1>8, <1>9, <2>1
<1>10. ASSUME ~Slot, NEW c \in BOOLEAN,
              w = [order |-> "draft", contact |-> c] ++ Scored(FALSE, FALSE)
      PROVE  /\ Writes("confidence", w)
             /\ Edges("confidence", w ++ ch) \subseteq To("confidence", w)
  <2> DEFINE u == [order |-> "draft", contact |-> c]
  <2>1. Fits(u) /\ DOMAIN u = {"order", "contact"} /\ w = u ++ Scored(FALSE, FALSE)
    BY <1>10 DEF Fits, Flag, Channels
  <2> HIDE DEF u
  <2> QED  BY <1>8, <1>10, <2>1
<1> QED
  BY <1>1, <1>3, <1>4, <1>5, <1>7, <1>9, <1>10, JudgedKinds

LEMMA ToSupportOut ==
  ASSUME NEW s, Fits(s), "exhausted" \notin DOMAIN s, NEW o, o = ToSupport(s)
  PROVE  /\ Fits(o.set) /\ DOMAIN o.set = {"exhausted"} \cup DOMAIN s /\ o.goto = {"support"}
         /\ \A c \in DOMAIN s : o.set[c] = s[c]
<1> DEFINE v == [exhausted |-> FALSE]
<1>1. o.set = v ++ s /\ o.goto = {"support"}
  BY DEF ToSupport, Returns
<1>2. Fits(v) /\ DOMAIN v = {"exhausted"}
  BY DEF Fits, Flag, Channels
<1> HIDE DEF v
<1>3. Fits(o.set)
  BY <1>1, <1>2, FitsOver
<1>4. DOMAIN o.set = DOMAIN v \cup DOMAIN s
  BY <1>1, Over
<1>5. \A c \in DOMAIN s : o.set[c] = s[c]
  BY <1>1, <1>2 DEF ++
<1> QED  BY <1>1, <1>2, <1>3, <1>4, <1>5

\* What an outcome of the guard that is not approved yet looks like.
LEMMA GuardWrites ==
  ASSUME ~ch.approved, NEW w, NEW t, Fits(w),
         DOMAIN w \subseteq {"response", "parked", "approved", "exhausted", "count", "error"},
         "approved" \in DOMAIN w => w["approved"] /\ t = "queue",
         "count" \in DOMAIN w => w["count"] <= MaxCount,
         "approved" \notin DOMAIN w =>
           t = IF "exhausted" \in DOMAIN w THEN "support" ELSE "answer",
         "response" \in DOMAIN w => w["response"] # "question",
         NEW o, o.set = w, o.goto = {t}
  PROVE  /\ Writes("guard", o.set)
         /\ o.goto \cup Edges("guard", o.set ++ ch) \subseteq To("guard", o.set)
<1>1. Writes("guard", w)
  BY DEF Writes, May
<1>2. {t} \subseteq To("guard", w)
  BY DEF To
<1>3. Edges("guard", w ++ ch) = {}
  BY DEF Edges
<1> QED  BY <1>1, <1>2, <1>3

LEMMA GuardReplyOut ==
  ASSUME ch \in ChType, ~ch.approved, NEW o \in GuardReplies
  PROVE  /\ Writes("guard", o.set)
         /\ o.goto \cup Edges("guard", o.set ++ ch) \subseteq To("guard", o.set)
<1>1. \/ o = Returns([response |-> "mismatch"], {"answer"})
      \/ o = Returns([response |-> "unknown"], {"answer"})
      \/ o = Returns([response |-> "contact", parked |-> TRUE], {"answer"})
  BY DEF GuardReplies
<1>2. ASSUME NEW w, o = Returns(w, {"answer"}), Fits(w),
             DOMAIN w \subseteq {"response", "parked"}, w["response"] # "question"
      PROVE  /\ Writes("guard", o.set)
             /\ o.goto \cup Edges("guard", o.set ++ ch) \subseteq To("guard", o.set)
  <2>1. o.set = w /\ o.goto = {"answer"}
    BY <1>2 DEF Returns
  <2> QED  BY <1>2, <2>1, GuardWrites
<1>3. ASSUME NEW x \in {"mismatch", "unknown"}, o = Returns([response |-> x], {"answer"})
      PROVE  /\ Writes("guard", o.set)
             /\ o.goto \cup Edges("guard", o.set ++ ch) \subseteq To("guard", o.set)
  <2> DEFINE w == [response |-> x]
  <2>1. Fits(w) /\ DOMAIN w = {"response"} /\ w["response"] # "question"
    BY DEF Fits, Flag, Channels, Answers
  <2>2. o = Returns(w, {"answer"})
    BY <1>3
  <2> HIDE DEF w
  <2> QED  BY <1>2, <2>1, <2>2
<1>4. CASE o = Returns([response |-> "contact", parked |-> TRUE], {"answer"})
  <2> DEFINE w == [response |-> "contact", parked |-> TRUE]
  <2>1. Fits(w) /\ DOMAIN w = {"response", "parked"} /\ w["response"] # "question"
    BY DEF Fits, Flag, Channels, Answers
  <2>2. o = Returns(w, {"answer"})
    BY <1>4
  <2> HIDE DEF w
  <2> QED  BY <1>2, <2>1, <2>2
<1> QED  BY <1>1, <1>3, <1>4

LEMMA PassedOut ==
  ASSUME ch \in ChType, ~ch.approved,
         NEW o, o = Returns([approved |-> TRUE, parked |-> FALSE], {"queue"})
  PROVE  /\ Writes("guard", o.set)
         /\ o.goto \cup Edges("guard", o.set ++ ch) \subseteq To("guard", o.set)
<1> DEFINE w == [approved |-> TRUE, parked |-> FALSE]
<1>1. o.set = w /\ o.goto = {"queue"}
  BY DEF Returns
<1>2. Fits(w) /\ DOMAIN w = {"approved", "parked"} /\ w["approved"]
  BY DEF Fits, Flag, Channels
<1> HIDE DEF w
<1> QED  BY <1>1, <1>2, GuardWrites

LEMMA NothingOut ==
  ASSUME ch \in ChType, NEW o, o = Returns(Nothing, {"answer"})
  PROVE  /\ Writes("guard", o.set)
         /\ o.goto \cup Edges("guard", o.set ++ ch) \subseteq To("guard", o.set)
<1>1. o.set = Nothing /\ o.goto = {"answer"}
  BY DEF Returns
<1>2. Writes("guard", Nothing)
  BY NothingFits DEF Writes, May
<1> QED  BY <1>1, <1>2, NothingFits DEF To, Edges

\* A hand-over by the guard, which may clear the parking or count a rejection.
LEMMA GuardHandsOver ==
  ASSUME ch \in ChType, ~ch.approved, NEW s, Fits(s), DOMAIN s \subseteq {"parked", "count"},
         "count" \in DOMAIN s => s["count"] <= MaxCount, NEW o, o = ToSupport(s)
  PROVE  /\ Writes("guard", o.set)
         /\ o.goto \cup Edges("guard", o.set ++ ch) \subseteq To("guard", o.set)
<1>1. /\ Fits(o.set) /\ DOMAIN o.set = {"exhausted"} \cup DOMAIN s /\ o.goto = {"support"}
      /\ \A c \in DOMAIN s : o.set[c] = s[c]
  BY ToSupportOut
<1> QED  BY <1>1, GuardWrites

LEMMA GuardOut ==
  ASSUME ch \in ChType, NEW o,
         o \in Guard \/ (MayPause /\ o \in {Approve, Reject, ResumeFails})
  PROVE  /\ Writes("guard", o.set)
         /\ o.goto \cup Edges("guard", o.set ++ ch) \subseteq To("guard", o.set)
<1>1. CASE o = Returns(Nothing, {"answer"})
  BY <1>1, NothingOut
<1>2. CASE ch.approved
  <2>1. o \in Guard
    BY <1>2 DEF MayPause
  <2> QED  BY <1>1, <1>2, <2>1 DEF Guard
<1>3. CASE ~ch.approved /\ o \in GuardReplies
  BY <1>3, GuardReplyOut
<1>4. CASE ~ch.approved /\ o = Tier3
  <2> DEFINE s == [parked |-> FALSE]
  <2>1. Fits(s) /\ DOMAIN s = {"parked"} /\ o = ToSupport(s)
    BY <1>4 DEF Tier3, Fits, Flag, Channels
  <2> HIDE DEF s
  <2> QED  BY <1>4, <2>1, GuardHandsOver
<1>5. CASE ~ch.approved /\ o = ToSupport(Nothing)
  BY <1>5, NothingFits, GuardHandsOver
<1>6. CASE ~ch.approved /\ (o = Tier1 \/ o = Approve)
  BY <1>1, <1>6, PassedOut DEF Tier1, Approve
<1>7. CASE MayPause /\ o = Reject
  <2> DEFINE n == ch.count + 1
  <2>1. n \in 0..MaxCount /\ n \in 0..MaxCount + 1 /\ n <= MaxCount /\ ~ch.approved
    BY <1>7, Kinds, QuotaAssumption DEF MayPause
  <2> DEFINE s == [count |-> n, parked |-> FALSE]
  <2>2. o = ToSupport(s)
    BY <1>7 DEF Reject
  <2> HIDE DEF n
  <2>3. Fits(s) /\ DOMAIN s = {"parked", "count"} /\ s["count"] = n
    BY <2>1 DEF Fits, Flag, Channels
  <2> HIDE DEF s
  <2> QED  BY <2>1, <2>2, <2>3, GuardHandsOver
<1>8. CASE MayPause /\ o = ResumeFails
  <2> DEFINE w == [error |-> TRUE]
  <2>1. o.set = w /\ o.goto = {"answer"} /\ ~ch.approved
    BY <1>8 DEF ResumeFails, Returns, MayPause
  <2>2. Fits(w) /\ DOMAIN w = {"error"}
    BY DEF Fits, Flag, Channels
  <2> HIDE DEF w
  <2> QED  BY <2>1, <2>2, GuardWrites
<1>9. o \in Guard /\ ~ch.approved => o \in GuardReplies \cup {Tier1, Tier3, ToSupport(Nothing)}
  BY DEF Guard
<1>10. MayPause => ~ch.approved
  BY DEF MayPause
<1> QED  BY <1>2, <1>3, <1>4, <1>5, <1>6, <1>7, <1>8, <1>9, <1>10

LEMMA QueueOut ==
  ASSUME ch \in ChType, backlog => ch.count <= MaxCount, NEW o \in Queue
  PROVE  /\ Writes("queue", o.set)
         /\ o.goto \cup Edges("queue", o.set ++ ch) \subseteq To("queue", o.set)
         /\ ~({"fresh", "cancel"} \subseteq o.goto \cup Edges("queue", o.set ++ ch))
         /\ ~backlog => "approved" \notin DOMAIN o.set
<1> DEFINE Fine == /\ Writes("queue", o.set)
                   /\ o.goto \cup Edges("queue", o.set ++ ch) \subseteq To("queue", o.set)
                   /\ ~({"fresh", "cancel"} \subseteq o.goto \cup Edges("queue", o.set ++ ch))
<1>0. Edges("queue", o.set ++ ch) = {}
  BY DEF Edges
<1>1. ASSUME NEW t \in {"fresh", "cancel"}, o = Returns(Nothing, {t})
      PROVE  Fine /\ "approved" \notin DOMAIN o.set
  <2>1. o.set = Nothing /\ o.goto = {t}
    BY <1>1 DEF Returns
  <2>2. Writes("queue", Nothing)
    BY NothingFits DEF Writes, May
  <2>3. To("queue", Nothing) = {"fresh", "cancel"}
    BY NothingFits DEF To
  <2> QED  BY <1>0, <2>1, <2>2, <2>3, NothingFits
<1>2. ASSUME NEW w, o.set = w, o.goto = {"guard"}, Fits(w),
             "approved" \in DOMAIN w, ~w["approved"],
             DOMAIN w \subseteq {"approved", "count", "response", "contact"},
             "response" \in DOMAIN w => w["response"] # "question"
      PROVE  Fine
  <2>1. Writes("queue", w)
    BY <1>2 DEF Writes, May
  <2>2. To("queue", w) = {"guard"}
    BY <1>2 DEF To
  <2> QED  BY <1>0, <1>2, <2>1, <2>2
<1>3. backlog => Fits(Re) /\ DOMAIN Re = {"approved", "count"} /\ ~Re["approved"]
  <2> DEFINE n == ch.count + 1
  <2>1. backlog => n \in 0..MaxCount + 1
    BY Kinds, QuotaAssumption
  <2> HIDE DEF n
  <2>2. Re = [approved |-> FALSE, count |-> n]
    BY DEF Re, n
  <2> QED  BY <2>1, <2>2 DEF Fits, Flag, Channels
<1>4. CASE backlog /\ o = Returns(Re, {"guard"})
  <2>1. o.set = Re /\ o.goto = {"guard"}
    BY <1>4 DEF Returns
  <2> QED  BY <1>2, <1>3, <1>4, <2>1
<1>5. ASSUME backlog, NEW c \in BOOLEAN,
             o = Returns(Re ++ [response |-> "edited", contact |-> c], {"guard"})
      PROVE  Fine
  <2> DEFINE v == [response |-> "edited", contact |-> c]
             w == Re ++ v
  <2>1. o.set = w /\ o.goto = {"guard"}
    BY <1>5 DEF Returns
  <2>2. Fits(v) /\ DOMAIN v = {"response", "contact"} /\ v["response"] = "edited"
    BY DEF Fits, Flag, Channels, Answers
  <2> HIDE DEF v
  <2>3. Fits(w)
    BY <1>3, <1>5, <2>2, FitsOver
  <2>4. DOMAIN w = {"approved", "count", "response", "contact"}
    <3>1. DOMAIN w = DOMAIN Re \cup DOMAIN v
      BY Over
    <3> HIDE DEF w
    <3> QED  BY <1>3, <1>5, <2>2, <3>1
  <2>5. ~w["approved"] /\ w["response"] = "edited"
    BY <1>3, <1>5, <2>2 DEF ++
  <2> HIDE DEF w
  <2> QED  BY <1>2, <2>1, <2>3, <2>4, <2>5
<1>6. CASE ~backlog
  BY <1>1, <1>6 DEF Queue
<1>7. CASE backlog
  <2>1. {ch.contact, FALSE} \subseteq BOOLEAN
    BY DEF ChType
  <2>2. \/ \E t \in {"fresh", "cancel"} : o = Returns(Nothing, {t})
        \/ o = Returns(Re, {"guard"})
        \/ \E c \in BOOLEAN : o = Returns(Re ++ [response |-> "edited", contact |-> c], {"guard"})
    BY <1>7, <2>1 DEF Queue, Drained
  <2> QED  BY <1>1, <1>4, <1>5, <1>7, <2>2
<1> QED  BY <1>6, <1>7

LEMMA FreshOut ==
  ASSUME ch \in ChType, NEW o \in Fresh
  PROVE  /\ Writes("fresh", o.set)
         /\ o.goto \cup Edges("fresh", o.set ++ ch) \subseteq To("fresh", o.set)
<1>0. Edges("fresh", o.set ++ ch) = {}
  BY DEF Edges
<1>1. ASSUME NEW t, o = Returns(Nothing, {t}),
             t \in IF ch.order = "none" THEN {"answer"} ELSE {"guard", "execute"}
      PROVE  Writes("fresh", o.set) /\ o.goto \subseteq To("fresh", o.set)
  <2>1. o.set = Nothing /\ o.goto = {t}
    BY <1>1 DEF Returns
  <2>2. Writes("fresh", Nothing)
    BY NothingFits DEF Writes, May
  <2> QED  BY <1>1, <2>1, <2>2, NothingFits DEF To
<1>2. CASE ch.order # "none" /\ o = ToSupport(Nothing)
  <2>1. Fits(o.set) /\ DOMAIN o.set = {"exhausted"} /\ o.goto = {"support"}
    BY <1>2, ToSupportOut, NothingFits
  <2> QED  BY <1>0, <1>2, <2>1 DEF Writes, May, To
<1> QED  BY <1>0, <1>1, <1>2 DEF Fresh

LEMMA PlacedSet ==
  Fits(Placed.set) /\ DOMAIN Placed.set = {"response", "order"}
    /\ Placed.set["response"] = "confirmed" /\ Placed.goto = {"answer"}
<1> DEFINE w == [response |-> "confirmed", order |-> "confirmed"]
<1>1. Placed.set = w /\ Placed.goto = {"answer"}
  BY DEF Placed, Returns
<1> QED  BY <1>1 DEF Fits, Flag, Channels, Answers

LEMMA ExecuteOut ==
  ASSUME ch \in ChType, NEW o \in Execute
  PROVE  /\ Writes("execute", o.set)
         /\ o.goto \cup Edges("execute", o.set ++ ch) \subseteq To("execute", o.set)
<1>0. Edges("execute", o.set ++ ch) = {"answer"}
  BY DEF Edges
<1>1. ASSUME NEW w, o.set = w, o.goto = {"answer"}, Fits(w),
             DOMAIN w \subseteq {"error", "response", "order"},
             "response" \in DOMAIN w => w["response"] # "question"
      PROVE  Writes("execute", o.set) /\ o.goto \cup {"answer"} \subseteq To("execute", o.set)
  <2>1. Writes("execute", w)
    BY <1>1 DEF Writes, May
  <2> QED  BY <1>1, <2>1 DEF To
<1>2. ASSUME NEW s, Fits(s), DOMAIN s \subseteq {"error"}, o = ToSupport(s)
      PROVE  Writes("execute", o.set) /\ o.goto \cup {"answer"} \subseteq To("execute", o.set)
  <2>1. Fits(o.set) /\ DOMAIN o.set = {"exhausted"} \cup DOMAIN s /\ o.goto = {"support"}
    BY <1>2, ToSupportOut
  <2> QED  BY <1>2, <2>1 DEF Writes, May, To
<1>3. CASE o = Returns([error |-> TRUE], {"answer"})
  <2> DEFINE w == [error |-> TRUE]
  <2>1. o.set = w /\ o.goto = {"answer"} /\ Fits(w) /\ DOMAIN w = {"error"}
    BY <1>3 DEF Returns, Fits, Flag, Channels
  <2> HIDE DEF w
  <2> QED  BY <1>0, <1>1, <2>1
<1>4. CASE o = Returns([response |-> "confirmed"], {"answer"})
  <2> DEFINE w == [response |-> "confirmed"]
  <2>1. /\ o.set = w /\ o.goto = {"answer"} /\ Fits(w) /\ DOMAIN w = {"response"}
        /\ w["response"] = "confirmed"
    BY <1>4 DEF Returns, Fits, Flag, Channels, Answers
  <2> HIDE DEF w
  <2> QED  BY <1>0, <1>1, <2>1
<1>5. CASE o = Returns([response |-> "expired", order |-> "expired"], {"answer"})
  <2> DEFINE w == [response |-> "expired", order |-> "expired"]
  <2>1. /\ o.set = w /\ o.goto = {"answer"} /\ Fits(w) /\ DOMAIN w = {"response", "order"}
        /\ w["response"] = "expired"
    BY <1>5 DEF Returns, Fits, Flag, Channels, Answers
  <2> HIDE DEF w
  <2> QED  BY <1>0, <1>1, <2>1
<1>6. CASE o = Placed
  BY <1>0, <1>1, <1>6, PlacedSet
<1>7. CASE o = ExecutionFails
  <2> DEFINE s == [error |-> TRUE]
  <2>1. o = ToSupport(s) /\ Fits(s) /\ DOMAIN s = {"error"}
    BY <1>7 DEF ExecutionFails, Fits, Flag, Channels
  <2> HIDE DEF s
  <2> QED  BY <1>0, <1>2, <2>1
<1>8. CASE o = SoldOut
  BY <1>0, <1>2, <1>8, NothingFits DEF SoldOut
<1> QED  BY <1>3, <1>4, <1>5, <1>6, <1>7, <1>8 DEF Execute

LEMMA CancelOut ==
  ASSUME ch \in ChType, NEW o \in Cancel
  PROVE  /\ Writes("cancel", o.set)
         /\ o.goto \cup Edges("cancel", o.set ++ ch) \subseteq To("cancel", o.set)
<1>0. Edges("cancel", o.set ++ ch) = {"answer"} /\ To("cancel", o.set) = {"answer", "support"}
  BY DEF Edges, To
<1>1. CASE o = CancelHandedOver
  <2> DEFINE s == [parked |-> FALSE]
  <2>1. o = ToSupport(s) /\ Fits(s) /\ DOMAIN s = {"parked"}
    BY <1>1 DEF CancelHandedOver, Fits, Flag, Channels
  <2> HIDE DEF s
  <2>2. Fits(o.set) /\ DOMAIN o.set = {"exhausted"} \cup DOMAIN s /\ o.goto = {"support"}
    BY <2>1, ToSupportOut
  <2> QED  BY <1>0, <2>1, <2>2 DEF Writes, May
<1>2. CASE o = Withdrawn
  <2> DEFINE v == [response |-> "cancelled", parked |-> FALSE]
             w == v ++ OpenOrder
  <2>1. o.set = w /\ o.goto = {"answer"}
    BY <1>2 DEF Withdrawn, Returns
  <2>2. Fits(v) /\ DOMAIN v = {"response", "parked"} /\ v["response"] = "cancelled"
    BY DEF Fits, Flag, Channels, Answers
  <2>3. Fits(OpenOrder) /\ DOMAIN OpenOrder \subseteq {"order"}
    <3> DEFINE u == [order |-> "cancelled"]
    <3>1. Fits(u) /\ DOMAIN u = {"order"}
      BY DEF Fits, Flag, Channels
    <3>2. OpenOrder \in {u, Nothing}
      BY DEF OpenOrder
    <3> HIDE DEF u
    <3> QED  BY <3>1, <3>2, NothingFits
  <2> HIDE DEF v
  <2>4. Fits(w)
    BY <2>2, <2>3, FitsOver
  <2>5. DOMAIN w = DOMAIN v \cup DOMAIN OpenOrder
    BY Over
  <2>6. w["response"] = "cancelled"
    BY <2>2 DEF ++
  <2> HIDE DEF w
  <2>7. Writes("cancel", w)
    BY <2>2, <2>3, <2>4, <2>5, <2>6 DEF Writes, May
  <2> QED  BY <1>0, <2>1, <2>7
<1> QED  BY <1>1, <1>2 DEF Cancel

--------------------------------------------------------------------------------
\* Which nodes lead to a node.
LEMMA From ==
  ASSUME NEW n \in Nodes, NEW w, NEW t \in To(n, w)
  PROVE  /\ t \in Nodes \ {"router"} /\ n # "answer"
         /\ t = "retrieval" => n = "router"
         /\ t = "memory" => n \in {"router", "retrieval"}
         /\ t = "confidence" => n = "memory"
         /\ t = "clarify" => n = "confidence"
         /\ t = "escalation" => n \in {"router", "confidence"}
         /\ t = "guard" => n \in {"router", "confidence", "queue", "fresh"}
         /\ t = "queue" => n = "guard"
         /\ t = "fresh" => n = "queue"
         /\ t = "execute" => n = "fresh"
         /\ t = "cancel" => n \in {"router", "queue"}
         /\ t = "support" => n \in {"confidence", "guard", "fresh", "execute", "cancel"}
<1>1. CASE n = "router"
  <2>1. NextNode(w) \in {"cancel", "retrieval", "escalation", "answer", "memory"}
    BY DEF NextNode
  <2>2. RouteAfterRouter(w) \subseteq {"retrieval", "escalation", "answer", "memory"}
    BY DEF RouteAfterRouter
  <2>3. t \in {"cancel", "retrieval", "escalation", "answer", "memory", "guard"}
    BY <1>1, <2>1, <2>2 DEF To
  <2> QED  BY <1>1, <2>3 DEF Nodes
<1>2. CASE n = "confidence"
  <2>1. RouteAfterConfidence(w ++ ch)
          \subseteq {"clarify", "support", "guard", "answer", "escalation"}
    BY DEF RouteAfterConfidence
  <2>2. t \in {"clarify", "support", "guard", "answer", "escalation"}
    BY <1>2, <2>1 DEF To
  <2> QED  BY <1>2, <2>2 DEF Nodes
<1>3. CASE n \notin {"router", "confidence"}
  BY <1>3 DEF To, Nodes
<1> QED  BY <1>1, <1>2, <1>3

\* A node returns: the super-step has the same nodes, and its edges and writes
\* are accounted for.
LEMMA ReturnStep ==
  ASSUME TypeOK, Returned, Chains, NEW n \in Nodes, NEW o, Return(n, o), Writes(n, o.set),
         o.goto \cup Edges(n, o.set ++ ch) \subseteq To(n, o.set),
         ~({"fresh", "cancel"} \subseteq o.goto \cup Edges(n, o.set ++ ch))
  PROVE  /\ Live' = Live /\ ch' = ch /\ n \in due /\ due' = due \ {n}
         /\ due' \subseteq Nodes /\ sent' \subseteq Nodes /\ DOMAIN wrote' \subseteq Nodes
         /\ DOMAIN wrote' = DOMAIN wrote \cup {n} /\ n \notin DOMAIN wrote
         /\ wrote'[n] = o.set /\ \A m \in DOMAIN wrote : wrote'[m] = wrote[m]
         /\ \A t \in sent' : t \in sent \/ t \in To(n, o.set)
         /\ Returned'
<1> DEFINE v == [m \in {n} |-> o.set]
<1>1. /\ n \in due /\ due' = due \ {n} /\ wrote' = v ++ wrote /\ ch' = ch
      /\ sent' = sent \cup (o.goto \cup Edges(n, o.set ++ ch))
  BY DEF Return
<1>2. DOMAIN v = {n} /\ v[n] = o.set
  OBVIOUS
<1> HIDE DEF v
<1>3. n \notin DOMAIN wrote
  BY <1>1 DEF Returned
<1>4. DOMAIN wrote' = DOMAIN wrote \cup {n}
  BY <1>1, <1>2 DEF ++
<1>5. wrote'[n] = o.set /\ \A m \in DOMAIN wrote : wrote'[m] = wrote[m]
  BY <1>1, <1>2, <1>3 DEF ++
<1>6. Live' = Live
  BY <1>1, <1>4 DEF Live
<1>7. \A t \in sent' : t \in sent \/ t \in To(n, o.set)
  BY <1>1
<1>8. sent' \subseteq Nodes
  BY <1>7, From DEF TypeOK
<1>9. (due \cap DOMAIN wrote = {})'
  BY <1>1, <1>4 DEF Returned
<1>10. (\A m \in DOMAIN wrote : Writes(m, wrote[m]))'
  <2>1. \A m \in DOMAIN wrote' : Writes(m, wrote'[m])
    BY <1>4, <1>5 DEF Returned
  <2> QED  BY <1>1, <2>1 DEF Writes, May, Slot
<1>11. (\A t \in sent : \E m \in DOMAIN wrote : t \in To(m, wrote[m]))'
  <2>1. \A t \in sent' : \E m \in DOMAIN wrote' : t \in To(m, wrote'[m])
    BY <1>4, <1>5, <1>7 DEF Returned
  <2> QED  BY <1>1, <2>1 DEF To, Slot
<1>12. (DOMAIN wrote \cap {"execute", "cancel", "clarify"} # {} => "answer" \in sent)'
  <2>1. n \in {"execute", "cancel", "clarify"} => "answer" \in sent'
    BY <1>1 DEF Edges
  <2> QED  BY <1>1, <1>4, <2>1 DEF Returned
<1>13. (~({"fresh", "cancel"} \subseteq sent))'
  <2>1. ASSUME NEW t \in sent  PROVE \E m \in DOMAIN wrote \cap Nodes : t \in To(m, wrote[m])
    BY DEF Returned, TypeOK
  <2>2. \A m \in DOMAIN wrote : m # n /\ m \in Beside(n)
    BY <1>1, <1>3 DEF Chains, Live
  <2>3. CASE n = "queue"
    <3>1. sent \cap {"fresh", "cancel"} = {}
      BY <2>1, <2>2, <2>3, From DEF Beside
    <3> QED  BY <1>1, <3>1
  <2>4. CASE n = "router"
    <3>1. sent = {}
      BY <2>1, <2>2, <2>4 DEF Beside
    <3> QED  BY <1>7, <2>4, <3>1, From
  <2>5. CASE n \notin {"queue", "router"}
    <3>1. sent' \cap {"fresh", "cancel"} = sent \cap {"fresh", "cancel"}
      BY <1>1, <1>7, <2>5, From
    <3> QED  BY <3>1 DEF Returned
  <2> QED  BY <2>3, <2>4, <2>5
<1>14. Returned'
  BY <1>9, <1>10, <1>11, <1>12, <1>13 DEF Returned
<1> QED  BY <1>1, <1>3, <1>4, <1>5, <1>6, <1>7, <1>8, <1>14 DEF TypeOK

LEMMA ReturnKeeps ==
  ASSUME Inv, phase \in {"run", "paused"}, phase' = "run",
         NEW n \in Nodes, NEW o, Return(n, o), Writes(n, o.set),
         o.goto \cup Edges(n, o.set ++ ch) \subseteq To(n, o.set),
         ~({"fresh", "cancel"} \subseteq o.goto \cup Edges(n, o.set ++ ch)),
         steps' = steps \/ steps' = 0, backlog' = backlog \/ backlog' = FALSE,
         confirmed' \in BOOLEAN,
         n = "queue" => ~backlog' /\ (~backlog => "approved" \notin DOMAIN o.set),
         n # "queue" => backlog' = backlog, phase = "paused" => steps' = 0
  PROVE  /\ TypeOK' /\ Returned' /\ Counted' /\ (Live # {})' /\ Chains' /\ Questions'
         /\ Limit > 11 => Short'
<1>1. /\ Live' = Live /\ ch' = ch /\ n \in due /\ due' = due \ {n}
      /\ due' \subseteq Nodes /\ sent' \subseteq Nodes /\ DOMAIN wrote' \subseteq Nodes
      /\ DOMAIN wrote' = DOMAIN wrote \cup {n} /\ n \notin DOMAIN wrote
      /\ wrote'[n] = o.set /\ \A m \in DOMAIN wrote : wrote'[m] = wrote[m]
      /\ Returned'
  BY ReturnStep DEF Inv
<1>2. asked' = asked /\ broken' = broken
  BY DEF Return
<1>0. backlog \in BOOLEAN /\ backlog' \in BOOLEAN /\ (backlog' => backlog)
  <2>1. backlog \in BOOLEAN
    BY DEF Inv, TypeOK
  <2>2. CASE backlog' = backlog
    BY <2>1, <2>2
  <2>3. CASE backlog' = FALSE
    BY <2>1, <2>3
  <2> QED  BY <2>2, <2>3
<1>3. TypeOK'
  <2>1. steps' \in 0..Limit
    BY QuotaAssumption DEF Inv, TypeOK
  <2>2. ch' \in ChType'
    BY <1>1 DEF Inv, TypeOK, ChType
  <2>3. {confirmed, backlog, broken}' \subseteq BOOLEAN
    BY <1>0, <1>2 DEF Inv, TypeOK
  <2> QED  BY <1>1, <2>1, <2>2, <2>3 DEF TypeOK
<1>4. Counted'
  <2>1. backlog' => ch.count <= MaxCount
    <3>1. ch.count \in Nat
      BY QuotaAssumption, Kinds DEF Inv, TypeOK
    <3>2. CASE phase = "paused"
      <4>1. ch.count < MaxCount
        BY <3>2 DEF Inv, Counted, MayPause
      <4> QED  BY <3>1, <4>1, QuotaAssumption
    <3>3. CASE phase = "run"
      BY <1>0, <3>3 DEF Inv, Counted
    <3> QED  BY <3>2, <3>3
  <2>2. "queue" \in DOMAIN wrote' => ~backlog'
    BY <1>1 DEF Inv, Counted
  <2> QED  BY <1>1, <2>1, <2>2 DEF Counted
<1>5. n \in Live /\ Live # {}
  BY <1>1 DEF Live
<1>6. Chains'
  BY <1>1 DEF Inv, Chains, Slot
<1>7. Questions'
  BY <1>1, <1>2 DEF Inv, Questions
<1>8. ASSUME Limit > 11  PROVE Short'
  <2>1. CASE steps' = 0
    <3>1. \A m \in Live' : 0 <= Longest(m)'
      BY DEF Longest
    <3> QED  BY <2>1, <3>1 DEF Short
  <2>2. CASE steps' = steps /\ phase = "run"
    <3>0. steps \in Nat /\ Short /\ Live \subseteq Nodes
      BY <1>8, QuotaAssumption DEF Inv, TypeOK, Live
    <3>1. CASE n # "queue"
      <4>1. "queue" \in DOMAIN wrote' <=> "queue" \in DOMAIN wrote
        BY <1>1, <3>1
      <4>2. "queue" \in DOMAIN wrote => wrote'["queue"] = wrote["queue"]
        BY <1>1
      <4>3. \A m \in Live : steps <= Longest(m)'
        BY <1>1, <2>2, <3>0, <3>1, <4>1, <4>2 DEF Short, Longest
      <4> QED  BY <1>1, <2>2, <3>0, <4>3 DEF Short
    <3>2. CASE n = "queue"
      <4>1. steps <= 7 /\ (backlog => steps <= 5)
        BY <1>5, <1>1, <2>2, <3>0, <3>2 DEF Short, Longest
      <4>2. steps <= Longest("queue")'
        BY <1>1, <3>0, <3>2, <4>1 DEF Longest
      <4>3. \A m \in Live \ {"queue"} : steps <= Longest(m)'
        BY <1>1, <2>2, <3>0, <3>2 DEF Short, Longest
      <4> QED  BY <1>1, <2>2, <3>0, <4>2, <4>3 DEF Short
    <3> QED  BY <3>1, <3>2
  <2> QED  BY <2>1, <2>2
<1> QED  BY <1>1, <1>3, <1>4, <1>5, <1>6, <1>7, <1>8

\* The verdict and the order placed, where the node has no part in them.
LEMMA ReturnSpares ==
  ASSUME Inv, phase \in {"run", "paused"}, phase' = "run",
         NEW n \in Nodes, NEW o, Return(n, o), Writes(n, o.set),
         o.goto \cup Edges(n, o.set ++ ch) \subseteq To(n, o.set),
         ~({"fresh", "cancel"} \subseteq o.goto \cup Edges(n, o.set ++ ch))
  PROVE  /\ n \notin {"guard", "queue"} /\ verdict' = verdict => Verdicts'
         /\ n # "execute" /\ placed' = placed => Orders'
<1>1. /\ Live' = Live /\ ch' = ch /\ n \in due /\ due' = due \ {n}
      /\ DOMAIN wrote' = DOMAIN wrote \cup {n} /\ n \notin DOMAIN wrote
      /\ \A m \in DOMAIN wrote : wrote'[m] = wrote[m]
      /\ \A t \in sent' : t \in sent \/ t \in To(n, o.set)
  BY ReturnStep DEF Inv
<1>2. ASSUME n \notin {"guard", "queue"}, verdict' = verdict  PROVE Verdicts'
  <2>1. ASSUME NEW t \in sent' \cap {"queue", "fresh", "execute"}
        PROVE  t \in sent \/ n = "fresh"
    BY <1>1, <1>2, From
  <2>2. n = "fresh" => "fresh" \in Live
    BY <1>1 DEF Live
  <2> QED  BY <1>1, <1>2, <2>1, <2>2 DEF Inv, Verdicts
<1>3. ASSUME n # "execute", placed' = placed  PROVE Orders'
  <2>1. broken' = broken
    BY DEF Return
  <2> QED  BY <1>1, <1>3, <2>1 DEF Inv, Orders
<1> QED  BY <1>2, <1>3

\* The nodes that only write and lead on.
LEMMA RunsStep ==
  ASSUME Inv, NEW n \in Nodes \ {"guard", "queue", "execute"}, NEW outcomes, Runs(n, outcomes),
         \A o \in outcomes : /\ Writes(n, o.set)
                             /\ o.goto \cup Edges(n, o.set ++ ch) \subseteq To(n, o.set)
  PROVE  Inv'
<1>1. PICK o \in outcomes : Return(n, o)
  BY DEF Runs
<1>2. /\ phase = "run" /\ phase' = "run" /\ steps' = steps /\ confirmed' = confirmed
      /\ backlog' = backlog /\ verdict' = verdict /\ placed' = placed
  BY DEF Runs
<1>3. /\ Writes(n, o.set) /\ o.goto \cup Edges(n, o.set ++ ch) \subseteq To(n, o.set)
      /\ ~({"fresh", "cancel"} \subseteq o.goto \cup Edges(n, o.set ++ ch))
  BY From
<1>4. confirmed' \in BOOLEAN
  BY <1>2 DEF Inv, TypeOK
<1>5. /\ TypeOK' /\ Returned' /\ Counted' /\ (Live # {})' /\ Chains' /\ Questions'
      /\ Limit > 11 => Short'
  BY <1>1, <1>2, <1>3, <1>4, ReturnKeeps
<1>6. Verdicts' /\ Orders'
  BY <1>1, <1>2, <1>3, ReturnSpares
<1> QED  BY <1>2, <1>5, <1>6 DEF Inv

\* A node that returns belongs to the super-step.
LEMMA InLive ==
  ASSUME Inv, NEW n, NEW o, Return(n, o), phase # "idle"
  PROVE  n \in Live /\ ch \in ChType /\ Chains
BY DEF Return, Live, Inv, TypeOK

LEMMA SimpleNodes ==
  ASSUME Inv,
         \/ RouterNode \/ RetrievalNode \/ MemoryNode \/ ConfidenceNode \/ ClarifyNode
         \/ EscalationNode \/ AnswerNode \/ FreshNode \/ CancelNode \/ SupportNode
  PROVE  Inv'
<1>0. ch \in ChType
  BY DEF Inv, TypeOK
<1>1. CASE RouterNode
  BY <1>0, <1>1, RouterOut, RunsStep DEF RouterNode, Nodes
<1>2. CASE RetrievalNode
  BY <1>0, <1>2, RetrievalOut, RunsStep DEF RetrievalNode, Nodes
<1>3. CASE MemoryNode
  BY <1>0, <1>3, MemoryOut, RunsStep DEF MemoryNode, Nodes
<1>4. CASE ConfidenceNode
  <2>1. ~ch.clarify /\ ~ch.loop
    BY <1>4, InLive DEF ConfidenceNode, Runs, Chains
  <2> QED  BY <1>0, <1>4, <2>1, ConfidenceOut, RunsStep DEF ConfidenceNode, Nodes
<1>5. CASE ClarifyNode
  <2>1. ch.rounds < Quota
    BY <1>5, InLive DEF ClarifyNode, Runs, Chains
  <2> QED  BY <1>0, <1>5, <2>1, ClarifyOut, RunsStep DEF ClarifyNode, Nodes
<1>6. CASE EscalationNode
  BY <1>0, <1>6, EscalationOut, RunsStep DEF EscalationNode, Nodes
<1>7. CASE AnswerNode
  BY <1>0, <1>7, AnswerOut, RunsStep DEF AnswerNode, Nodes
<1>8. CASE FreshNode
  BY <1>0, <1>8, FreshOut, RunsStep DEF FreshNode, Nodes
<1>9. CASE CancelNode
  BY <1>0, <1>9, CancelOut, RunsStep DEF CancelNode, Nodes
<1>10. CASE SupportNode
  BY <1>0, <1>10, SupportOut, RunsStep DEF SupportNode, Nodes
<1> QED
  BY <1>1, <1>2, <1>3, <1>4, <1>5, <1>6, <1>7, <1>8, <1>9, <1>10

\* The guard, in a run or on the administrator's decision: its verdict stands
\* for what goes on to the queue.
LEMMA GuardReturns ==
  ASSUME Inv, phase \in {"run", "paused"}, phase' = "run", NEW o, Return("guard", o),
         o \in Guard \/ (MayPause /\ o \in {Approve, Reject, ResumeFails}),
         phase = "run" => steps' = steps, phase = "paused" => steps' = 0,
         UNCHANGED <<confirmed, backlog, placed>>,
         "queue" \in o.goto => verdict' = "passed",
         "queue" \notin o.goto /\ verdict' # verdict => MayPause
  PROVE  Inv'
<1>0. "guard" \in Nodes /\ "guard" \in Live /\ ch \in ChType /\ Chains
  BY InLive DEF Nodes
<1>1. /\ Writes("guard", o.set)
      /\ o.goto \cup Edges("guard", o.set ++ ch) \subseteq To("guard", o.set)
  BY <1>0, GuardOut
<1>2. ~({"fresh", "cancel"} \subseteq o.goto \cup Edges("guard", o.set ++ ch))
  BY <1>0, <1>1, From
<1>3. confirmed' \in BOOLEAN
  BY DEF Inv, TypeOK
<1>4. /\ TypeOK' /\ Returned' /\ Counted' /\ (Live # {})' /\ Chains' /\ Questions'
      /\ Limit > 11 => Short'
  BY <1>0, <1>1, <1>2, <1>3, ReturnKeeps
<1>5. Orders'
  BY <1>0, <1>1, <1>2, ReturnSpares
<1>6. /\ Live' = Live /\ due' \subseteq due
      /\ sent' = sent \cup o.goto
  <2>1. Edges("guard", o.set ++ ch) = {}
    BY DEF Edges
  <2>2. Live' = Live
    BY <1>0, <1>1, <1>2, ReturnStep DEF Inv
  <2> QED  BY <2>1, <2>2 DEF Return
<1>7. Verdicts'
  <2>1. CASE "queue" \in o.goto
    BY <2>1 DEF Verdicts
  <2>2. CASE "queue" \notin o.goto /\ verdict' = verdict
    <3>1. o.goto \cap {"queue", "fresh", "execute"} = {}
      BY <1>0, <1>1, <2>2, From
    <3> QED  BY <1>6, <2>2, <3>1 DEF Inv, Verdicts
  <2>3. CASE "queue" \notin o.goto /\ MayPause
    <3>1. Live \cap {"queue", "fresh", "execute"} = {}
      BY <1>0, <2>3 DEF Chains, MayPause
    <3>2. sent \cap {"queue", "fresh", "execute"} = {}
      <4>1. "guard" \notin DOMAIN wrote
        BY DEF Inv, Returned, Return
      <4> QED  BY <3>1, <4>1, From DEF Inv, Returned, TypeOK, Live
    <3>3. o.goto \cap {"queue", "fresh", "execute"} = {}
      BY <1>0, <1>1, <2>3, From
    <3> QED  BY <1>6, <3>1, <3>2, <3>3 DEF Verdicts, Live
  <2> QED  BY <2>1, <2>2, <2>3
<1> QED  BY <1>4, <1>5, <1>7 DEF Inv

LEMMA GuardStep == Inv /\ (GuardNode \/ Resume) => Inv'
<1> SUFFICES ASSUME Inv, GuardNode \/ Resume  PROVE Inv'
  OBVIOUS
<1>1. CASE GuardNode
  <2>1. PICK o \in Guard : Return("guard", o) /\ verdict' = Judges(o)
    BY <1>1 DEF GuardNode
  <2>2. /\ phase = "run" /\ phase' = "run" /\ steps' = steps
        /\ UNCHANGED <<confirmed, backlog, placed>>
    BY <1>1 DEF GuardNode
  <2> QED  BY <2>1, <2>2, GuardReturns DEF Judges
<1>2. CASE Resume
  <2>1. /\ phase = "paused" /\ phase' = "run" /\ steps' = 0
        /\ UNCHANGED <<confirmed, backlog, placed>> /\ MayPause
    BY <1>2 DEF Resume, Inv, Counted
  <2>2. CASE Return("guard", Approve) /\ verdict' = "passed"
    BY <2>1, <2>2, GuardReturns
  <2>3. CASE Return("guard", Reject)
    <3>1. "queue" \notin Reject.goto
      BY DEF Reject, ToSupport, Returns
    <3> QED  BY <2>1, <2>3, <3>1, GuardReturns
  <2>4. CASE Return("guard", ResumeFails)
    <3>1. "queue" \notin ResumeFails.goto
      BY DEF ResumeFails, Returns
    <3> QED  BY <2>1, <2>4, <3>1, GuardReturns
  <2>5. CASE \E o \in Guard : Return("guard", o) /\ verdict' = Judges(o)
    BY <2>1, <2>5, GuardReturns DEF Judges
  <2> QED  BY <1>2, <2>2, <2>3, <2>4, <2>5 DEF Resume
<1> QED  BY <1>1, <1>2

\* A guard that finds the order approved has nothing to say.
LEMMA GuardQuiet ==
  ASSUME NEW w, Writes("guard", w), ch.approved
  PROVE  DOMAIN w = {} /\ To("guard", w) = {"answer"}
<1>1. DOMAIN w = {}
  BY DEF Writes, May
<1> QED  BY <1>1 DEF To

LEMMA QueueStep == Inv /\ QueueNode => Inv'
<1> SUFFICES ASSUME Inv, QueueNode  PROVE Inv'
  OBVIOUS
<1>1. PICK o \in Queue :
        /\ Return("queue", o)
        /\ verdict' = IF "approved" \in DOMAIN o.set THEN "none" ELSE verdict
  BY DEF QueueNode
<1>2. /\ phase = "run" /\ phase' = "run" /\ steps' = steps /\ backlog' = FALSE
      /\ confirmed' = confirmed /\ placed' = placed
  BY DEF QueueNode
<1>3. "queue" \in Live /\ ch \in ChType /\ Chains /\ "queue" \in Nodes
  BY <1>1, <1>2, InLive DEF Nodes
<1>4. backlog => ch.count <= MaxCount
  BY <1>2 DEF Inv, Counted
<1>5. /\ Writes("queue", o.set)
      /\ o.goto \cup Edges("queue", o.set ++ ch) \subseteq To("queue", o.set)
      /\ ~({"fresh", "cancel"} \subseteq o.goto \cup Edges("queue", o.set ++ ch))
      /\ ~backlog => "approved" \notin DOMAIN o.set
  BY <1>3, <1>4, QueueOut
<1>6. confirmed' \in BOOLEAN
  BY <1>2 DEF Inv, TypeOK
<1>7. /\ TypeOK' /\ Returned' /\ Counted' /\ (Live # {})' /\ Chains' /\ Questions'
      /\ Limit > 11 => Short'
  BY <1>1, <1>2, <1>3, <1>5, <1>6, ReturnKeeps
<1>8. Orders'
  BY <1>1, <1>2, <1>3, <1>5, ReturnSpares
<1>9. /\ Live' = Live /\ due' = due \ {"queue"} /\ "queue" \in due /\ "queue" \notin DOMAIN wrote
      /\ \A t \in sent' : t \in sent \/ t \in To("queue", o.set)
  BY <1>1, <1>3, <1>5, ReturnStep DEF Inv
<1>10. Verdicts'
  <2>1. CASE "approved" \notin DOMAIN o.set
    <3>1. verdict' = "passed"
      BY <1>1, <1>2, <1>9, <2>1 DEF Inv, Verdicts
    <3> QED  BY <3>1 DEF Verdicts
  <2>2. CASE "approved" \in DOMAIN o.set
    <3>1. Live \cap {"fresh", "execute"} = {}
      BY <1>3 DEF Chains, Beside
    <3>2. To("queue", o.set) = {"guard"}
      BY <2>2 DEF To
    <3>3. ASSUME NEW t \in sent \cap {"queue", "fresh", "execute"}  PROVE FALSE
      <4>1. PICK m \in DOMAIN wrote : t \in To(m, wrote[m])
        BY DEF Inv, Returned
      <4>2. m \in Live /\ m \in Nodes /\ Writes(m, wrote[m])
        BY DEF Inv, Returned, TypeOK, Live
      <4>3. m = "guard" /\ t = "queue"
        BY <1>9, <3>1, <4>1, <4>2, From
      <4>4. ch.approved
        BY <1>3 DEF Chains
      <4> QED  BY <4>1, <4>2, <4>3, <4>4, GuardQuiet
    <3> QED  BY <1>9, <3>1, <3>2, <3>3 DEF Verdicts
  <2> QED  BY <2>1, <2>2
<1> QED  BY <1>2, <1>7, <1>8, <1>10 DEF Inv

LEMMA ExecuteStep == Inv /\ ExecuteNode => Inv'
<1> SUFFICES ASSUME Inv, ExecuteNode  PROVE Inv'
  OBVIOUS
<1>1. PICK o \in Execute :
        /\ Return("execute", o)
        /\ IF o = Placed THEN confirmed' = TRUE /\ placed' = placed + 1
                         ELSE UNCHANGED <<confirmed, placed>>
  BY DEF ExecuteNode
<1>2. /\ phase = "run" /\ phase' = "run" /\ steps' = steps /\ backlog' = backlog
      /\ verdict' = verdict
  BY DEF ExecuteNode
<1>3. "execute" \in Live /\ ch \in ChType /\ Chains /\ "execute" \in Nodes
  BY <1>1, <1>2, InLive DEF Nodes
<1>4. /\ Writes("execute", o.set)
      /\ o.goto \cup Edges("execute", o.set ++ ch) \subseteq To("execute", o.set)
  BY <1>3, ExecuteOut
<1>5. ~({"fresh", "cancel"} \subseteq o.goto \cup Edges("execute", o.set ++ ch))
  BY <1>3, <1>4, From
<1>6. confirmed' \in BOOLEAN
  <2>1. confirmed \in BOOLEAN
    BY DEF Inv, TypeOK
  <2>2. CASE o = Placed
    BY <1>1, <2>2
  <2>3. CASE o # Placed
    BY <1>1, <2>1, <2>3
  <2> QED  BY <2>2, <2>3
<1>7. /\ TypeOK' /\ Returned' /\ Counted' /\ (Live # {})' /\ Chains' /\ Questions'
      /\ Limit > 11 => Short'
  BY <1>1, <1>2, <1>3, <1>4, <1>5, <1>6, ReturnKeeps
<1>8. Verdicts'
  BY <1>1, <1>2, <1>3, <1>4, <1>5, ReturnSpares
<1>9. /\ ch' = ch /\ "execute" \in due /\ "execute" \notin DOMAIN wrote
      /\ "execute" \in DOMAIN wrote' /\ wrote'["execute"] = o.set
  BY <1>1, <1>3, <1>4, <1>5, ReturnStep DEF Inv
<1>10. placed = 0
  BY <1>2, <1>3, <1>9 DEF Inv, Orders
<1>11. Orders'
  <2>1. CASE o = Placed
    BY <1>1, <1>2, <1>9, <1>10, <2>1 DEF Orders
  <2>2. CASE o # Placed
    BY <1>1, <1>2, <1>10, <2>2 DEF Orders
  <2> QED  BY <2>1, <2>2
<1> QED  BY <1>2, <1>7, <1>8, <1>11 DEF Inv

--------------------------------------------------------------------------------
\* The barrier: what one node wrote is the channel's value, what none wrote
\* stays.
LEMMA FitsMixed ==
  ASSUME NEW d, DOMAIN d = Channels,
         \A c \in Channels : \E w : Fits(w) /\ c \in DOMAIN w /\ d[c] = w[c]
  PROVE  Fits(d)
BY DEF Fits, Flag, Channels

LEMMA Applies ==
  ASSUME TypeOK, Returned, ~Clashes, Applied
  PROVE  /\ ch' \in ChType
         /\ \A n \in DOMAIN wrote : \A c \in DOMAIN wrote[n] : ch'[c] = wrote[n][c]
         /\ \A c \in Channels : (\A n \in DOMAIN wrote : c \notin DOMAIN wrote[n]) => ch'[c] = ch[c]
<1>1. DOMAIN ch = Channels /\ Fits(ch)
  BY ChannelsFit DEF TypeOK
<1>2. ch' = [c \in Channels |-> Value(c)]
  BY <1>1 DEF Applied
<1>3. \A n \in DOMAIN wrote : Fits(wrote[n]) /\ DOMAIN wrote[n] \subseteq Channels
  BY DEF Returned, Writes, Fits
<1>4. ASSUME NEW n \in DOMAIN wrote, NEW c \in DOMAIN wrote[n]
      PROVE  Value(c) = wrote[n][c]
  <2> DEFINE by == {m \in DOMAIN wrote : c \in DOMAIN wrote[m]}
             k == CHOOSE m \in by : TRUE
  <2>1. n \in by /\ k \in by
    BY <1>4
  <2>2. Value(c) = wrote[k][c]
    BY <2>1 DEF Value
  <2>3. k = n
    BY <2>1 DEF Clashes, Clash
  <2> QED  BY <2>2, <2>3
<1>5. ASSUME NEW c \in Channels, \A n \in DOMAIN wrote : c \notin DOMAIN wrote[n]
      PROVE  Value(c) = ch[c]
  BY <1>5 DEF Value
<1>6. \A n \in DOMAIN wrote : \A c \in DOMAIN wrote[n] : ch'[c] = wrote[n][c]
  BY <1>2, <1>3, <1>4
<1>7. \A c \in Channels : (\A n \in DOMAIN wrote : c \notin DOMAIN wrote[n]) => ch'[c] = ch[c]
  BY <1>2, <1>5
<1>8. \A c \in Channels : \E w : Fits(w) /\ c \in DOMAIN w /\ ch'[c] = w[c]
  BY <1>1, <1>3, <1>6, <1>7
<1>9. Fits(ch') /\ DOMAIN ch' = Channels
  BY <1>2, <1>8, FitsMixed
<1>10. ch' \in ChType
  BY <1>2, <1>9, FitIsTyped
<1> QED  BY <1>6, <1>7, <1>10

AtBarrier == Inv /\ Barrier /\ ~Clashes /\ Applied

LEMMA BarrierFacts ==
  ASSUME AtBarrier
  PROVE  /\ Live = DOMAIN wrote /\ Live \subseteq Nodes /\ Live # {} /\ Chains
         /\ ch \in ChType /\ ch' \in ChType
         /\ \A n \in Live : Writes(n, wrote[n]) /\ \A c \in DOMAIN wrote[n] : ch'[c] = wrote[n][c]
         /\ \A t \in sent : \E n \in Live : t \in To(n, wrote[n])
<1>1. /\ TypeOK /\ Returned /\ ~Clashes /\ Applied /\ phase = "run" /\ due = {} /\ Chains
      /\ Live # {}
  BY DEF AtBarrier, Barrier, Inv
<1>2. Live = DOMAIN wrote
  BY <1>1 DEF Live
<1> QED  BY <1>1, <1>2, Applies DEF TypeOK, Returned

\* A channel none of the super-step's nodes may write stays.
LEMMA Stays ==
  ASSUME AtBarrier, NEW c \in Channels, \A n \in Live : c \notin May(n)
  PROVE  ch'[c] = ch[c]
<1>1. TypeOK /\ Returned /\ ~Clashes /\ Applied
  BY DEF AtBarrier, Inv
<1>2. \A n \in DOMAIN wrote : c \notin DOMAIN wrote[n]
  BY BarrierFacts DEF Writes
<1> QED  BY <1>1, <1>2, Applies

\* The router and a clarification are alone in their super-step.
LEMMA Alone ==
  ASSUME AtBarrier, NEW n \in Live, n \in {"router", "clarify"}
  PROVE  Live = {n}
BY BarrierFacts DEF Chains, Beside

\* The bounds of To that do not depend on what was written.
Leads(n) ==
  IF n = "router" THEN {"answer", "retrieval", "guard", "cancel", "escalation", "memory"}
  ELSE IF n = "retrieval" THEN {"memory"}
  ELSE IF n = "memory" THEN {"confidence"}
  ELSE IF n = "confidence"
  THEN IF Slot THEN {"guard"} ELSE {"clarify", "support", "guard", "answer", "escalation"}
  ELSE IF n = "guard"
  THEN IF ch.approved THEN {"answer"} ELSE {"answer", "queue", "support"}
  ELSE IF n = "queue" THEN {"guard", "fresh", "cancel"}
  ELSE IF n = "fresh" THEN {"answer", "support", "guard", "execute"}
  ELSE IF n \in {"execute", "cancel"} THEN {"answer", "support"}
  ELSE IF n \in {"clarify", "escalation", "support"} THEN {"answer"}
  ELSE {}

LEMMA LeadsTo ==
  ASSUME NEW n \in Nodes, NEW w, Writes(n, w)
  PROVE  To(n, w) \subseteq Leads(n)
<1>1. CASE n = "router"
  <2>1. NextNode(w) \in {"cancel", "retrieval", "escalation", "answer", "memory"}
    BY DEF NextNode
  <2>2. RouteAfterRouter(w) \subseteq {"retrieval", "escalation", "answer", "memory"}
    BY DEF RouteAfterRouter
  <2> QED  BY <1>1, <2>1, <2>2 DEF To, Leads
<1>2. CASE n = "confidence"
  <2>1. RouteAfterConfidence(w ++ ch)
          \subseteq {"clarify", "support", "guard", "answer", "escalation"}
    BY DEF RouteAfterConfidence
  <2> QED  BY <1>2, <2>1 DEF To, Leads
<1>3. CASE n = "guard"
  BY <1>3, GuardQuiet DEF To, Leads
<1>4. CASE n \notin {"router", "confidence", "guard"}
  BY <1>4 DEF To, Leads, Nodes
<1> QED  BY <1>1, <1>2, <1>3, <1>4

\* Two nodes that share a super-step lead to nodes that may share one.
LEMMA Neighbours ==
  ASSUME NEW m \in Nodes, NEW n \in Nodes, m \in Beside(n), n \in Beside(m),
         {m, n} \cap {"queue", "fresh", "execute"} # {} => ch.approved,
         "confidence" \in {m, n} => Slot,
         NEW t \in Leads(m), NEW u \in Leads(n), t # u
  PROVE  t \in Beside(u)
<1>1. CASE m = "guard"
  BY <1>1 DEF Nodes, Beside, Leads
<1>2. CASE m = "confidence"
  BY <1>2 DEF Nodes, Beside, Leads
<1>3. CASE m \in {"retrieval", "memory"}
  BY <1>3 DEF Nodes, Beside, Leads
<1>4. CASE m \in {"cancel", "support", "escalation"}
  BY <1>4 DEF Nodes, Beside, Leads
<1>5. CASE m \in {"queue", "fresh", "execute"}
  BY <1>5 DEF Nodes, Beside, Leads
<1>6. CASE m \in {"router", "clarify", "answer"}
  BY <1>6 DEF Nodes, Beside, Leads
<1> QED  BY <1>1, <1>2, <1>3, <1>4, <1>5, <1>6 DEF Nodes

\* What one node leads to may share a super-step.
LEMMA Forks ==
  ASSUME NEW n \in Nodes, NEW w, Writes(n, w), NEW t \in To(n, w), NEW u \in To(n, w), t # u,
         ~({t, u} = {"fresh", "cancel"})
  PROVE  t \in Beside(u)
<1>1. CASE n = "router"
  <2>1. CASE "response" \in DOMAIN w \/ "order" \in DOMAIN w
    BY <1>1, <2>1 DEF To, Beside
  <2>2. CASE ~("response" \in DOMAIN w \/ "order" \in DOMAIN w)
    <3>1. {t, u} \subseteq {NextNode(w)} \cup RouteAfterRouter(w)
      BY <1>1, <2>2 DEF To
    <3>2. CASE w.intent = "CANCEL" \/ w.intent = "ORDER"
      BY <3>1, <3>2 DEF NextNode, RouteAfterRouter, Beside, Hard
    <3>3. CASE w.intent # "CANCEL" /\ w.intent # "ORDER"
      <4>1. RouteAfterRouter(w) = {NextNode(w)}
        BY <3>3 DEF NextNode, RouteAfterRouter
      <4> QED  BY <3>1, <4>1
    <3> QED  BY <3>2, <3>3
  <2> QED  BY <2>1, <2>2
<1>2. CASE n = "confidence"
  BY <1>2 DEF To, RouteAfterConfidence
<1>3. CASE n \notin {"router", "confidence"}
  BY <1>3 DEF To, Beside, Nodes
<1> QED  BY <1>1, <1>2, <1>3

LEMMA Source ==
  ASSUME AtBarrier, NEW t \in sent
  PROVE  \E n \in Live : /\ n \in Nodes /\ Writes(n, wrote[n]) /\ t \in To(n, wrote[n])
                         /\ t \in Leads(n) /\ \A c \in DOMAIN wrote[n] : ch'[c] = wrote[n][c]
<1>1. PICK n \in Live : t \in To(n, wrote[n])
  BY BarrierFacts
<1>2. n \in Nodes /\ Writes(n, wrote[n]) /\ \A c \in DOMAIN wrote[n] : ch'[c] = wrote[n][c]
  BY BarrierFacts
<1> QED  BY <1>1, <1>2, LeadsTo

LEMMA StepShape ==
  ASSUME Inv, Step
  PROVE  /\ AtBarrier /\ Live' = sent /\ sent # {} /\ sent' = {} /\ due' = sent
         /\ DOMAIN wrote' = {} /\ phase = "run" /\ phase' = "run" /\ steps' = steps + 1
         /\ UNCHANGED <<confirmed, backlog, history>>
BY NothingFits DEF Step, AtBarrier, Barrier, Live

LEMMA StepCompany ==
  ASSUME AtBarrier, NEW t \in sent, NEW u \in sent, t # u
  PROVE  t \in Beside(u)
<1>1. PICK m \in Live :
        m \in Nodes /\ Writes(m, wrote[m]) /\ t \in To(m, wrote[m]) /\ t \in Leads(m)
  BY Source
<1>2. PICK n \in Live :
        n \in Nodes /\ Writes(n, wrote[n]) /\ u \in To(n, wrote[n]) /\ u \in Leads(n)
  BY Source
<1>3. CASE m = n
  <2>1. ~({"fresh", "cancel"} \subseteq sent)
    BY DEF AtBarrier, Inv, Returned
  <2> QED  BY <1>1, <1>2, <1>3, <2>1, Forks
<1>4. CASE m # n
  <2>1. Chains
    BY BarrierFacts
  <2>2. m \in Beside(n) /\ n \in Beside(m)
    BY <1>4, <2>1 DEF Chains
  <2>3. {m, n} \cap {"queue", "fresh", "execute"} # {} => ch.approved
    BY <2>1 DEF Chains
  <2>4. "confidence" \in {m, n} => Slot
    BY <1>4, <2>1 DEF Chains
  <2> QED  BY <1>1, <1>2, <2>2, <2>3, <2>4, Neighbours
<1> QED  BY <1>3, <1>4

\* The intent, the order and the flags of a clarification change in the router,
\* in a confidence that is alone, and at the end of the order branch.
LEMMA Steady ==
  ASSUME AtBarrier
  PROVE  /\ "router" \notin Live => ch'.intent = ch.intent
         /\ "confidence" \notin Live => ch'.clarify = ch.clarify /\ ch'.loop = ch.loop
         /\ Live \cap {"router", "execute", "cancel", "confidence"} = {} => ch'.order = ch.order
         /\ Live \cap {"retrieval"} = {} => ch'.resolved = ch.resolved
         /\ Live \cap {"router", "retrieval", "clarify"} = {} =>
              ch'.rounds = ch.rounds /\ ch'.awaiting = ch.awaiting
<1>0. Live \subseteq Nodes
  BY BarrierFacts
<1>1. ASSUME "router" \notin Live  PROVE ch'["intent"] = ch["intent"]
  <2>1. "intent" \in Channels /\ \A n \in Live : "intent" \notin May(n)
    BY <1>0, <1>1 DEF May, Channels
  <2> QED  BY <2>1, Stays
<1>2. ASSUME "confidence" \notin Live
      PROVE  ch'["clarify"] = ch["clarify"] /\ ch'["loop"] = ch["loop"]
  <2>1. {"clarify", "loop"} \subseteq Channels
    BY DEF Channels
  <2>2. \A n \in Live : "clarify" \notin May(n) /\ "loop" \notin May(n)
    BY <1>0, <1>2 DEF May
  <2> QED  BY <2>1, <2>2, Stays
<1>3. ASSUME Live \cap {"router", "execute", "cancel", "confidence"} = {}
      PROVE  ch'["order"] = ch["order"]
  <2>1. "order" \in Channels /\ \A n \in Live : "order" \notin May(n)
    BY <1>0, <1>3 DEF May, Channels
  <2> QED  BY <2>1, Stays
<1>4. ASSUME "retrieval" \notin Live  PROVE ch'["resolved"] = ch["resolved"]
  <2>1. "resolved" \in Channels /\ \A n \in Live : "resolved" \notin May(n)
    BY <1>0, <1>4 DEF May, Channels
  <2> QED  BY <2>1, Stays
<1>5. ASSUME Live \cap {"router", "retrieval", "clarify"} = {}
      PROVE  ch'["rounds"] = ch["rounds"] /\ ch'["awaiting"] = ch["awaiting"]
  <2>1. {"rounds", "awaiting"} \subseteq Channels
    BY DEF Channels
  <2>2. \A n \in Live : "rounds" \notin May(n) /\ "awaiting" \notin May(n)
    BY <1>0, <1>5 DEF May
  <2> QED  BY <2>1, <2>2, Stays
<1> QED  BY <1>1, <1>2, <1>3, <1>4, <1>5

\* A channel nobody wrote stays.
LEMMA Untouched ==
  ASSUME AtBarrier, NEW c \in Channels, \A n \in Live : c \notin DOMAIN wrote[n]
  PROVE  ch'[c] = ch[c]
<1>1. TypeOK /\ Returned /\ ~Clashes /\ Applied
  BY DEF AtBarrier, Inv
<1> QED  BY <1>1, BarrierFacts, Applies

LEMMA StepSearch ==
  ASSUME AtBarrier, NEW t \in sent, t \in {"retrieval", "memory", "confidence"}
  PROVE  ~ch'.clarify /\ ~ch'.loop
<1>1. PICK n \in Live : n \in Nodes /\ t \in To(n, wrote[n])
  BY Source
<1>2. n \in {"router", "retrieval", "memory"}
  BY <1>1, From
<1>3. Chains
  BY BarrierFacts
<1>4. ~ch.clarify /\ ~ch.loop
  BY <1>2, <1>3 DEF Chains
<1>5. "confidence" \notin Live
  BY <1>2, <1>3 DEF Chains, Beside
<1> QED  BY <1>4, <1>5, Steady

LEMMA StepApproved ==
  ASSUME AtBarrier, NEW t \in sent, t \in {"queue", "fresh", "execute"}
  PROVE  ch'.approved
<1>1. PICK n \in Live : /\ n \in Nodes /\ Writes(n, wrote[n]) /\ t \in To(n, wrote[n])
                        /\ \A c \in DOMAIN wrote[n] : ch'[c] = wrote[n][c]
  BY Source
<1>2. Chains /\ Live \subseteq Nodes /\ \A m \in Live : Writes(m, wrote[m])
  BY BarrierFacts
<1>3. CASE t = "queue"
  <2>1. n = "guard"
    BY <1>1, <1>3, From
  <2>2. "approved" \in DOMAIN wrote[n]
    BY <1>1, <1>3, <2>1 DEF To
  <2>3. ch'["approved"]
    BY <1>1, <2>1, <2>2 DEF Writes
  <2> QED  BY <2>3
<1>4. CASE t # "queue"
  <2>1. n \in {"queue", "fresh"} /\ (t = "fresh" => n = "queue") /\ (t = "execute" => n = "fresh")
    BY <1>1, <1>4, From
  <2>2. ch.approved
    BY <1>2, <2>1 DEF Chains
  <2>3. n = "queue" => "approved" \notin DOMAIN wrote[n]
    BY <1>1, <1>4, <2>1 DEF To
  <2>4. \A m \in Live : "approved" \notin DOMAIN wrote[m]
    <3> SUFFICES ASSUME NEW m \in Live  PROVE "approved" \notin DOMAIN wrote[m]
      OBVIOUS
    <3>1. CASE m = "guard"
      BY <1>2, <2>2, <3>1, GuardQuiet
    <3>2. CASE m = "queue"
      <4>1. n = "queue"
        BY <1>2, <2>1, <3>2 DEF Chains, Beside
      <4> QED  BY <2>3, <3>2, <4>1
    <3>3. CASE m \notin {"guard", "queue"}
      <4>1. "approved" \notin May(m)
        BY <1>2, <3>3 DEF May
      <4> QED  BY <1>2, <4>1 DEF Writes
    <3> QED  BY <3>1, <3>2, <3>3
  <2>5. ch'["approved"] = ch["approved"]
    BY <2>4, Untouched DEF Channels
  <2> QED  BY <2>2, <2>5
<1> QED  BY <1>3, <1>4

\* The resumed order goes on beside its search.
LEMMA SlotStays ==
  ASSUME AtBarrier, Slot, Live \cap {"router", "execute", "cancel", "confidence"} = {}
  PROVE  ch'.intent = "ORDER" /\ ch'.order # "none"
BY Steady DEF Slot

LEMMA SlotBesideGuard ==
  ASSUME AtBarrier, {"retrieval", "guard"} \subseteq Live
  PROVE  ch'.intent = "ORDER" /\ ch'.order # "none"
<1>1. Chains
  BY BarrierFacts
<1>2. Slot
  BY <1>1 DEF Chains
<1>3. Live \cap {"router", "execute", "cancel", "confidence"} = {}
  BY <1>1 DEF Chains, Beside
<1> QED  BY <1>2, <1>3, SlotStays

LEMMA StepConfidence ==
  ASSUME AtBarrier, "confidence" \in sent, NEW u \in sent, u # "confidence"
  PROVE  ch'.intent = "ORDER" /\ ch'.order # "none"
<1>1. Chains /\ Live \subseteq Nodes /\ Live = DOMAIN wrote /\ \A m \in Live : Writes(m, wrote[m])
  BY BarrierFacts
<1>2. "memory" \in Live
  <2>1. PICK n \in Live : n \in Nodes /\ "confidence" \in To(n, wrote[n])
    BY Source
  <2> QED  BY <2>1, From
<1>3. PICK q \in Live : q \in Nodes /\ u \in Leads(q)
  BY Source
<1>4. q \in {"queue", "support"}
  <2>1. q # "memory"
    BY <1>3 DEF Leads
  <2>2. q \in Beside("memory")
    BY <1>1, <1>2, <1>3, <2>1 DEF Chains
  <2> QED  BY <1>3, <2>2 DEF Beside, Leads
<1>5. q = "support" => "answer" \notin Live
  <2> SUFFICES ASSUME "support" \in Live, "answer" \in Live  PROVE FALSE
    BY <1>3
  <2>1. "response" \in DOMAIN wrote["support"] \cap DOMAIN wrote["answer"]
    BY <1>1 DEF Writes
  <2> QED  BY <1>1, <2>1 DEF AtBarrier, Clashes, Clash
<1>6. Slot
  BY <1>1, <1>2, <1>3, <1>4, <1>5 DEF Chains
<1>7. Live \cap {"router", "execute", "cancel", "confidence"} = {}
  BY <1>1, <1>2 DEF Chains, Beside
<1> QED  BY <1>6, <1>7, SlotStays

\* The search of a message comes from the router or goes on with it.
LEMMA MemoryFrom ==
  ASSUME AtBarrier, "memory" \in sent
  PROVE  \/ Live = {"router"} /\ "memory" \in To("router", wrote["router"])
         \/ "retrieval" \in Live
<1>1. PICK n \in Live : n \in Nodes /\ "memory" \in To(n, wrote[n])
  BY Source
<1>2. n \in {"router", "retrieval"}
  BY <1>1, From
<1> QED  BY <1>1, <1>2, Alone

LEMMA StepMemory ==
  ASSUME AtBarrier, "memory" \in sent
  PROVE  /\ "queue" \in sent => ch'.intent = "ORDER" /\ ch'.order # "none"
         /\ "support" \in sent /\ "answer" \notin sent => ch'.intent = "ORDER" /\ ch'.order # "none"
         /\ "answer" \in sent => ch'.intent # "FOLLOW_UP"
<1>0. Chains /\ Live \subseteq Nodes /\ Live = DOMAIN wrote
  BY BarrierFacts
<1>1. ASSUME NEW t \in sent \cap {"queue", "support"}
      PROVE  "retrieval" \in Live
  <2>1. PICK q \in Live : q \in Nodes /\ t \in Leads(q)
    BY Source
  <2>2. q # "router"
    BY <2>1 DEF Leads
  <2> QED  BY <2>1, <2>2, MemoryFrom
<1>2. ASSUME "queue" \in sent  PROVE "guard" \in Live
  BY <1>2, Source, From
<1>3. ASSUME "support" \in sent, "answer" \notin sent  PROVE "guard" \in Live
  <2>1. "retrieval" \in Live
    BY <1>1, <1>3
  <2>2. PICK q \in Live : q \in Nodes /\ "support" \in Leads(q)
    BY <1>3, Source
  <2>3. q # "retrieval"
    BY <2>2 DEF Leads
  <2>4. q \in Beside("retrieval")
    BY <1>0, <2>1, <2>2, <2>3 DEF Chains
  <2>5. q \in {"guard", "cancel"}
    BY <2>2, <2>4 DEF Beside, Leads
  <2>6. "cancel" \notin Live
    BY <1>0, <1>3 DEF AtBarrier, Inv, Returned
  <2> QED  BY <2>2, <2>5, <2>6
<1>4. ASSUME "answer" \in sent  PROVE ch'.intent # "FOLLOW_UP"
  <2>1. CASE Live = {"router"} /\ "memory" \in To("router", wrote["router"])
    <3>1. "answer" \in To("router", wrote["router"])
      BY <1>4, <2>1, Source
    <3> QED  BY <2>1, <3>1 DEF To, NextNode, RouteAfterRouter
  <2>2. CASE "retrieval" \in Live
    <3>1. ch.intent # "FOLLOW_UP" /\ "router" \notin Live
      BY <1>0, <2>2 DEF Chains, Beside
    <3> QED  BY <3>1, Steady
  <2> QED  BY <2>1, <2>2, MemoryFrom
<1> QED  BY <1>1, <1>2, <1>3, <1>4, SlotBesideGuard

\* A message goes to the search from the router alone.
LEMMA RetrievalFrom ==
  ASSUME AtBarrier, "retrieval" \in sent
  PROVE  /\ Live = {"router"} /\ Writes("router", wrote["router"])
         /\ \A t \in sent : t \in To("router", wrote["router"])
         /\ \A c \in DOMAIN wrote["router"] : ch'[c] = wrote["router"][c]
<1>1. "router" \in Live
  BY Source, From
<1>2. Live = {"router"}
  BY <1>1, Alone
<1> QED  BY <1>2, Source, BarrierFacts

LEMMA StepRetrieval ==
  ASSUME AtBarrier, "retrieval" \in sent
  PROVE  /\ ch'.intent # "FOLLOW_UP"
         /\ "guard" \in sent => ch'.intent = "ORDER" /\ ch'.order # "none"
         /\ "answer" \in sent => ch'.response # "none"
<1> DEFINE w == wrote["router"]
<1>0. /\ Writes("router", w) /\ \A t \in sent : t \in To("router", w)
      /\ \A c \in DOMAIN w : ch'[c] = w[c]
  BY RetrievalFrom
<1> HIDE DEF w
<1>1. "intent" \in DOMAIN w /\ ch'.intent = w["intent"]
  BY <1>0 DEF Writes
<1>2. CASE "response" \in DOMAIN w
  <2>1. "guard" \notin sent
    BY <1>0, <1>2 DEF To
  <2> QED  BY <1>0, <1>1, <1>2, <2>1 DEF Writes
<1>3. CASE "response" \notin DOMAIN w /\ "order" \in DOMAIN w
  <2>1. "answer" \notin sent
    BY <1>0, <1>3 DEF To
  <2> QED  BY <1>0, <1>1, <1>3, <2>1 DEF Writes
<1>4. CASE "response" \notin DOMAIN w /\ "order" \notin DOMAIN w
  <2>1. \A t \in sent : t \in {NextNode(w)} \cup RouteAfterRouter(w)
    BY <1>0, <1>4 DEF To
  <2>2. w["intent"] # "FOLLOW_UP"
    BY <2>1 DEF NextNode, RouteAfterRouter
  <2>3. "guard" \notin sent /\ "answer" \notin sent
    BY <2>1 DEF NextNode, RouteAfterRouter
  <2> QED  BY <1>1, <2>2, <2>3
<1> QED  BY <1>2, <1>3, <1>4

LEMMA StepHandedOff ==
  ASSUME AtBarrier, "confidence" \in sent, "answer" \in sent
  PROVE  ch'.response # "none"
<1>1. Chains
  BY BarrierFacts
<1>2. "memory" \in Live
  BY Source, From
<1>3. PICK q \in Live : /\ q \in Nodes /\ Writes(q, wrote[q]) /\ "answer" \in Leads(q)
                        /\ \A c \in DOMAIN wrote[q] : ch'[c] = wrote[q][c]
  BY Source
<1>4. q = "support"
  <2>1. q # "memory"
    BY <1>3 DEF Leads
  <2>2. q \in Beside("memory")
    BY <1>1, <1>2, <1>3, <2>1 DEF Chains
  <2> QED  BY <1>3, <2>2 DEF Beside, Leads
<1> QED  BY <1>3, <1>4 DEF Writes

LEMMA StepAsks ==
  ASSUME AtBarrier, "clarify" \in sent
  PROVE  /\ Live = {"confidence"} /\ ch.rounds < Quota
         /\ ch.intent = "ORDER" \/ (ch.intent # "FOLLOW_UP" /\ ~ch.resolved)
<1>1. Chains /\ ch \in ChType
  BY BarrierFacts
<1>2. PICK n \in Live : /\ n \in Nodes /\ Writes(n, wrote[n]) /\ "clarify" \in To(n, wrote[n])
                        /\ "clarify" \in Leads(n)
  BY Source
<1>3. n = "confidence"
  BY <1>2, From
<1>4. ~Slot
  BY <1>2, <1>3 DEF Leads
<1> DEFINE w == wrote["confidence"]
<1>5. Live = {"confidence"} /\ ~ch.clarify
  BY <1>1, <1>2, <1>3, <1>4 DEF Chains
<1>6. (w ++ ch)["clarify"]
  <2>1. "clarify" \in RouteAfterConfidence(w ++ ch)
    BY <1>2, <1>3, <1>4 DEF To
  <2> DEFINE v == w ++ ch
  <2> HIDE DEF v
  <2>2. "clarify" \in RouteAfterConfidence(v) => v["clarify"]
    BY DEF RouteAfterConfidence
  <2> QED  BY <2>1, <2>2 DEF v
<1>7. "clarify" \in DOMAIN w /\ w["clarify"]
  <2>1. CASE "clarify" \in DOMAIN w
    <3>1. (w ++ ch)["clarify"] = w["clarify"]
      BY <2>1 DEF ++
    <3> QED  BY <1>6, <2>1, <3>1
  <2>2. CASE "clarify" \notin DOMAIN w
    <3>1. (w ++ ch)["clarify"] = ch["clarify"]
      BY <1>1, <2>2, ChannelsFit DEF ++, Channels
    <3> QED  BY <1>5, <1>6, <3>1
  <2> QED  BY <2>1, <2>2
<1> QED  BY <1>2, <1>3, <1>5, <1>7 DEF Writes

LEMMA StepChains == Inv /\ Step => Chains'
<1> SUFFICES ASSUME Inv, Step  PROVE Chains'
  OBVIOUS
<1>0. AtBarrier /\ Live' = sent
  BY StepShape
<1>1. (\A m, n \in Live : m # n => m \in Beside(n))'
  BY <1>0, StepCompany DEF Beside
<1>2. Live' \cap {"router", "retrieval", "memory", "confidence"} # {} => ~ch'.clarify /\ ~ch'.loop
  <2>1. "router" \notin sent
    BY <1>0, Source, From
  <2> QED  BY <1>0, <2>1, StepSearch
<1>3. Live' \cap {"queue", "fresh", "execute"} # {} => ch'.approved
  BY <1>0, StepApproved
<1>4. "confidence" \in Live' /\ Live' # {"confidence"} => ch'.intent = "ORDER" /\ ch'.order # "none"
  BY <1>0, StepConfidence
<1>5. "memory" \in Live' =>
        /\ "queue" \in Live' => ch'.intent = "ORDER" /\ ch'.order # "none"
        /\ "support" \in Live' /\ "answer" \notin Live' =>
             ch'.intent = "ORDER" /\ ch'.order # "none"
        /\ "answer" \in Live' => ch'.intent # "FOLLOW_UP"
  BY <1>0, StepMemory
<1>6. "retrieval" \in Live' =>
        /\ ch'.intent # "FOLLOW_UP"
        /\ "guard" \in Live' => ch'.intent = "ORDER" /\ ch'.order # "none"
        /\ "answer" \in Live' => ch'.response # "none"
  BY <1>0, StepRetrieval
<1>7. {"confidence", "answer"} \subseteq Live' => ch'.response # "none"
  BY <1>0, StepHandedOff
<1>8. "clarify" \in Live' => ch'.rounds < Quota
  <2> SUFFICES ASSUME "clarify" \in sent  PROVE ch'.rounds < Quota
    BY <1>0
  <2>1. Live = {"confidence"} /\ ch.rounds < Quota
    BY <1>0, StepAsks
  <2> QED  BY <1>0, <2>1, Steady
<1> QED
  BY <1>1, <1>2, <1>3, <1>4, <1>5, <1>6, <1>7, <1>8 DEF Chains, Slot

LEMMA StepCounted ==
  ASSUME AtBarrier, backlog
  PROVE  ch'.count <= MaxCount
<1>1. /\ ch.count <= MaxCount /\ "queue" \notin Live
  BY BarrierFacts DEF AtBarrier, Inv, Counted, Barrier
<1>2. Live \subseteq Nodes /\ \A n \in Live : Writes(n, wrote[n])
  BY BarrierFacts
<1>3. CASE \E n \in Live : "count" \in DOMAIN wrote[n]
  <2>1. PICK n \in Live : "count" \in DOMAIN wrote[n]
    BY <1>3
  <2>2. n = "guard"
    <3>1. "count" \in May(n)
      BY <1>2, <2>1 DEF Writes
    <3> QED  BY <1>1, <3>1 DEF May
  <2>3. ch'["count"] = wrote[n]["count"]
    BY <2>1, BarrierFacts
  <2> QED  BY <1>2, <2>1, <2>2, <2>3 DEF Writes
<1>4. CASE \A n \in Live : "count" \notin DOMAIN wrote[n]
  <2>1. ch'["count"] = ch["count"]
    BY <1>4, Untouched DEF Channels
  <2> QED  BY <1>1, <2>1
<1> QED  BY <1>3, <1>4

\* The order was placed in this super-step: the next one has only the answer,
\* with the confirmation.
LEMMA StepPlaced ==
  ASSUME AtBarrier, sent # {}, placed = 1
  PROVE  sent = {"answer"} /\ ch'.response = "confirmed"
<1>0. Chains /\ Live \subseteq Nodes /\ Live = DOMAIN wrote /\ \A n \in Live : Writes(n, wrote[n])
  BY BarrierFacts
<1>1. CASE Live = {"answer"}
  BY <1>1, Source DEF Leads
<1>2. CASE "execute" \in DOMAIN wrote /\ wrote["execute"] = Placed.set
  <2>1. Live \subseteq {"execute", "guard"} /\ ch.approved
    BY <1>0, <1>2 DEF Chains, Beside
  <2>2. To("execute", wrote["execute"]) = {"answer"}
    BY <1>2, PlacedSet DEF To
  <2>3. "guard" \in Live => To("guard", wrote["guard"]) = {"answer"}
    BY <1>0, <2>1, GuardQuiet
  <2>4. ASSUME NEW t \in sent  PROVE t = "answer"
    <3>1. PICK n \in Live : t \in To(n, wrote[n])
      BY Source
    <3> QED  BY <2>1, <2>2, <2>3, <3>1
  <2>5. ch'["response"] = wrote["execute"]["response"]
    BY <1>0, <1>2, PlacedSet, BarrierFacts
  <2> QED  BY <1>2, <2>4, <2>5, PlacedSet
<1> QED  BY <1>1, <1>2 DEF AtBarrier, Inv, Orders, Barrier

LEMMA StepOrders == Inv /\ Step => Orders'
<1> SUFFICES ASSUME Inv, Step  PROVE Orders'
  OBVIOUS
<1>1. AtBarrier /\ Live' = sent /\ sent # {} /\ phase' = "run" /\ placed' = placed
  BY StepShape DEF history
<1>2. placed \in {0, 1}
  BY DEF Inv, Orders
<1>3. placed = 1 => sent = {"answer"} /\ ch'.response = "confirmed"
  BY <1>1, StepPlaced
<1> QED  BY <1>1, <1>2, <1>3 DEF Orders

\* Only a clarification asks a question, and the answer repeats it.
LEMMA QuestionFrom ==
  ASSUME AtBarrier, ch'.response = "question"
  PROVE  Live = {"clarify"} \/ (ch.response = "question" /\ Live = {"answer"})
<1>0. Live \subseteq Nodes /\ \A n \in Live : Writes(n, wrote[n])
  BY BarrierFacts
<1>1. ch.response = "question" => Live = {"answer"}
  BY DEF AtBarrier, Inv, Questions, Barrier
<1>2. CASE \E n \in Live : "response" \in DOMAIN wrote[n]
  <2>1. PICK n \in Live : "response" \in DOMAIN wrote[n]
    BY <1>2
  <2>2. ch'["response"] = wrote[n]["response"]
    BY <2>1, BarrierFacts
  <2>3. n = "clarify" \/ ch.response = "question"
    BY <1>0, <2>1, <2>2 DEF Writes
  <2> QED  BY <1>1, <2>3, Alone
<1>3. CASE \A n \in Live : "response" \notin DOMAIN wrote[n]
  <2>1. ch'["response"] = ch["response"]
    BY <1>3, Untouched DEF Channels
  <2> QED  BY <1>1, <2>1
<1> QED  BY <1>2, <1>3

LEMMA StepQuestion ==
  ASSUME AtBarrier, sent # {}, ch'.response = "question"
  PROVE  /\ sent = {"answer"} /\ ch'.awaiting
         /\ asked # "none" => ch'.intent \in ContextReset
<1>1. CASE Live = {"answer"}
  BY <1>1, Source DEF Leads
<1>2. CASE Live = {"clarify"}
  <2>1. sent = {"answer"}
    BY <1>2, Source DEF Leads
  <2>2. Writes("clarify", wrote["clarify"])
    BY <1>2, BarrierFacts
  <2>3. ch'["awaiting"] = wrote["clarify"]["awaiting"] /\ wrote["clarify"]["awaiting"]
    BY <1>2, <2>2, BarrierFacts DEF Writes
  <2>4. asked # "none" => ch.intent \in ContextReset
    BY <1>2 DEF AtBarrier, Inv, Questions
  <2>5. ch'.intent = ch.intent
    BY <1>2, Steady
  <2> QED  BY <2>1, <2>3, <2>4, <2>5
<1> QED  BY <1>1, <1>2, QuestionFrom

\* What is pending is handed on from the router to the clarification.
LEMMA StepPending ==
  ASSUME AtBarrier, asked # "none"
  PROVE  /\ "retrieval" \in sent => ch'.awaiting \/ ch'.intent \in ContextReset
         /\ sent \cap {"memory", "confidence"} # {} =>
              ch'.resolved \/ ch'.intent \in ContextReset \cup {"FOLLOW_UP"}
         /\ "clarify" \in sent => ch'.intent \in ContextReset
<1>0. /\ Chains
      /\ "router" \in Live => ch.awaiting
      /\ "retrieval" \in Live => ch.awaiting \/ ch.intent \in ContextReset
      /\ Live \cap {"memory", "confidence"} # {} =>
           ch.resolved \/ ch.intent \in ContextReset \cup {"FOLLOW_UP"}
  BY BarrierFacts DEF AtBarrier, Inv, Questions
<1>1. ASSUME "retrieval" \in sent  PROVE ch'.awaiting \/ ch'.intent \in ContextReset
  <2> DEFINE w == wrote["router"]
  <2>1. Live = {"router"} /\ Writes("router", w) /\ \A c \in DOMAIN w : ch'[c] = w[c]
    BY <1>1, RetrievalFrom
  <2> HIDE DEF w
  <2>2. "intent" \in DOMAIN w /\ ch'["intent"] = w["intent"]
    BY <2>1 DEF Writes
  <2>3. CASE "awaiting" \in DOMAIN w
    BY <2>1, <2>2, <2>3 DEF Writes
  <2>4. CASE "awaiting" \notin DOMAIN w
    <3>1. ch'["awaiting"] = ch["awaiting"]
      BY <2>1, <2>4, Untouched DEF Channels, w
    <3> QED  BY <1>0, <2>1, <3>1
  <2> QED  BY <2>3, <2>4
<1>2. ASSUME "memory" \in sent
      PROVE  ch'.resolved \/ ch'.intent \in ContextReset \cup {"FOLLOW_UP"}
  <2>1. CASE Live = {"router"} /\ "memory" \in To("router", wrote["router"])
    <3> DEFINE w == wrote["router"]
    <3>1. Writes("router", w) /\ \A c \in DOMAIN w : ch'[c] = w[c]
      BY <2>1, BarrierFacts
    <3>2. "memory" \in To("router", w)
      BY <2>1
    <3> HIDE DEF w
    <3>3. w["intent"] = "FOLLOW_UP"
      BY <3>2 DEF To, NextNode, RouteAfterRouter
    <3>4. ch'["intent"] = w["intent"]
      BY <3>1 DEF Writes
    <3> QED  BY <3>3, <3>4
  <2>2. CASE "retrieval" \in Live
    <3> DEFINE w == wrote["retrieval"]
    <3>1. Writes("retrieval", w) /\ \A c \in DOMAIN w : ch'[c] = w[c]
      BY <2>2, BarrierFacts
    <3> HIDE DEF w
    <3>2. "resolved" \in DOMAIN w /\ (ch.awaiting /\ ch.intent # "ORDER" => w["resolved"])
      BY <3>1 DEF Writes
    <3>3. ch'["resolved"] = w["resolved"]
      BY <3>1, <3>2
    <3>4. ch'.intent = ch.intent
      <4>1. "router" \notin Live
        BY <1>0, <2>2 DEF Chains, Beside
      <4> QED  BY <4>1, Steady
    <3> QED  BY <1>0, <2>2, <3>2, <3>3, <3>4 DEF ContextReset
  <2> QED  BY <1>2, <2>1, <2>2, MemoryFrom
<1>3. ASSUME "confidence" \in sent
      PROVE  ch'.resolved \/ ch'.intent \in ContextReset \cup {"FOLLOW_UP"}
  <2>1. "memory" \in Live
    BY <1>3, Source, From
  <2>2. "router" \notin Live /\ "retrieval" \notin Live
    BY <1>0, <2>1 DEF Chains, Beside
  <2> QED  BY <1>0, <2>1, <2>2, Steady
<1>4. ASSUME "clarify" \in sent  PROVE ch'.intent \in ContextReset
  <2>1. /\ Live = {"confidence"}
        /\ ch.intent = "ORDER" \/ (ch.intent # "FOLLOW_UP" /\ ~ch.resolved)
    BY <1>4, StepAsks
  <2>2. ch.intent \in ContextReset
    BY <1>0, <2>1 DEF ContextReset
  <2> QED  BY <2>1, <2>2, Steady
<1> QED  BY <1>1, <1>2, <1>3, <1>4

LEMMA StepQuestions == Inv /\ Step => Questions'
<1> SUFFICES ASSUME Inv, Step  PROVE Questions'
  OBVIOUS
<1>1. /\ AtBarrier /\ Live' = sent /\ sent # {} /\ phase' = "run" /\ asked' = asked
  BY StepShape DEF history
<1>2. "router" \notin sent
  BY <1>1, Source, From
<1>3. ch'.response = "question" =>
        sent = {"answer"} /\ ch'.awaiting /\ (asked # "none" => ch'.intent \in ContextReset)
  BY <1>1, StepQuestion
<1>4. asked # "none" =>
        /\ "retrieval" \in sent => ch'.awaiting \/ ch'.intent \in ContextReset
        /\ sent \cap {"memory", "confidence"} # {} =>
             ch'.resolved \/ ch'.intent \in ContextReset \cup {"FOLLOW_UP"}
        /\ "clarify" \in sent => ch'.intent \in ContextReset
  BY <1>1, StepPending
<1> QED  BY <1>1, <1>2, <1>3, <1>4 DEF Questions

LEMMA StepShort ==
  ASSUME Inv, Step, Limit > 11
  PROVE  Short'
<1>0. /\ AtBarrier /\ Live' = sent /\ sent # {} /\ DOMAIN wrote' = {} /\ steps' = steps + 1
      /\ backlog' = backlog /\ phase = "run" /\ phase' = "run"
  BY StepShape
<1>1. /\ Chains /\ Live = DOMAIN wrote /\ steps \in Nat /\ \A n \in Live : steps <= Longest(n)
      /\ "queue" \in DOMAIN wrote => ~backlog
  BY <1>0, BarrierFacts, QuotaAssumption DEF Inv, Short, TypeOK, Counted
<1>2. "fresh" \in Live => ch'.approved
  <2> SUFFICES ASSUME "fresh" \in Live  PROVE ch'.approved
    OBVIOUS
  <2>1. ch.approved
    BY <1>1 DEF Chains
  <2>2. "approved" \in Channels /\ \A n \in Live : "approved" \notin May(n)
    <3>1. "guard" \notin Live /\ "queue" \notin Live
      BY <1>1 DEF Chains, Beside
    <3> QED  BY <3>1 DEF May, Channels
  <2>3. ch'["approved"] = ch["approved"]
    BY <1>0, <2>2, Stays
  <2> QED  BY <2>1, <2>3
<1>3. ASSUME NEW t \in sent
      PROVE  steps + 1 <= Longest(t)' /\ steps + 1 <= 11
  <2>1. PICK n \in Live : n \in Nodes /\ t \in To(n, wrote[n]) /\ t \in Leads(n)
    BY <1>0, Source
  <2>2. steps <= Longest(n) /\ steps \in Nat
    BY <1>1
  <2>3. steps + 1 <= 11
    BY <2>1, <2>2 DEF Longest, Leads, Nodes
  <2>4. CASE t = "guard"
    <3>1. n \in {"router", "confidence", "queue", "fresh"}
      BY <2>1, <2>4, From
    <3>2. CASE n = "queue"
      <4>1. "approved" \in DOMAIN wrote["queue"] /\ ~backlog
        BY <1>1, <2>1, <2>4, <3>2 DEF To
      <4>2. steps <= 5
        BY <1>1, <2>2, <3>2, <4>1 DEF Longest
      <4> QED  BY <1>0, <2>2, <2>3, <2>4, <4>1, <4>2 DEF Longest
    <3>3. CASE n = "fresh"
      BY <1>0, <1>2, <2>2, <2>3, <2>4, <3>3 DEF Longest
    <3>4. CASE n \in {"router", "confidence"}
      <4>1. steps <= 3
        BY <2>2, <3>4 DEF Longest
      <4> QED  BY <2>2, <2>3, <2>4, <4>1 DEF Longest
    <3> QED  BY <3>1, <3>2, <3>3, <3>4
  <2>5. CASE t = "queue"
    <3>1. n = "guard" /\ ~ch.approved
      BY <2>1, <2>5 DEF Leads
    <3>2. steps <= 6 /\ (backlog => steps <= 4)
      BY <2>2, <3>1 DEF Longest
    <3> QED  BY <1>0, <2>2, <2>3, <2>5, <3>2 DEF Longest
  <2>6. CASE t \notin {"guard", "queue"}
    <3>1. n # "answer" /\ (t \in {"fresh", "cancel"} => steps <= 7) /\ (t = "execute" => steps <= 8)
      BY <1>1, <2>1, <2>2, <2>6, From DEF Longest
    <3>2. /\ t = "retrieval" => steps <= 0
          /\ t = "memory" => steps <= 1
          /\ t = "confidence" => steps <= 2
          /\ t \in {"clarify", "escalation"} => steps <= 3
      BY <2>1, <2>2, <2>6, From DEF Longest
    <3>3. t = "support" => steps <= 9
      BY <2>1, <2>2, <2>6, From DEF Longest
    <3>4. t \in Nodes \ {"router"}
      BY <2>1, From
    <3> QED  BY <2>2, <2>3, <2>6, <3>1, <3>2, <3>3, <3>4 DEF Longest, Nodes
  <2> QED  BY <2>3, <2>4, <2>5, <2>6
<1> QED  BY <1>0, <1>3 DEF Short

LEMMA StepInv == Inv /\ Step => Inv'
<1> SUFFICES ASSUME Inv, Step  PROVE Inv'
  OBVIOUS
<1>0. /\ AtBarrier /\ Live' = sent /\ sent # {} /\ sent' = {} /\ due' = sent
      /\ DOMAIN wrote' = {} /\ phase = "run" /\ phase' = "run" /\ steps' = steps + 1
      /\ UNCHANGED <<confirmed, backlog, verdict, broken>>
  BY StepShape DEF history
<1>1. TypeOK'
  <2>1. ch' \in ChType' /\ sent \subseteq Nodes
    BY <1>0, BarrierFacts DEF Inv, TypeOK, ChType
  <2>2. steps' \in 0..Limit
    BY <1>0, QuotaAssumption DEF Step, Inv, TypeOK
  <2>3. {confirmed, backlog, broken}' \subseteq BOOLEAN
    BY <1>0 DEF Inv, TypeOK
  <2> QED  BY <1>0, <2>1, <2>2, <2>3 DEF TypeOK
<1>2. Returned'
  BY <1>0 DEF Returned
<1>3. Counted'
  BY <1>0, StepCounted DEF Counted
<1>4. Verdicts'
  BY <1>0 DEF Inv, Verdicts
<1> QED
  BY <1>0, <1>1, <1>2, <1>3, <1>4, StepChains, StepOrders, StepQuestions, StepShort DEF Inv

--------------------------------------------------------------------------------
\* The steps between super-steps.
LEMMA PerTurnFits ==
  /\ Fits(PerTurn)
  /\ PerTurn["response"] = "none" /\ PerTurn["clarify"] = FALSE /\ PerTurn["loop"] = FALSE
  /\ PerTurn["count"] = 0
  /\ DOMAIN PerTurn = Channels \ {"intent", "doubts", "awaiting", "rounds", "parked", "exhausted"}
<1>1. Fits(PerTurn)
  BY QuotaAssumption DEF PerTurn, Fits, Flag, Channels, Answers
<1>2. /\ PerTurn["response"] = "none" /\ PerTurn["clarify"] = FALSE /\ PerTurn["loop"] = FALSE
      /\ PerTurn["count"] = 0
  BY DEF PerTurn
<1>3. DOMAIN PerTurn = Channels \ {"intent", "doubts", "awaiting", "rounds", "parked", "exhausted"}
  BY DEF PerTurn, Channels
<1> QED  BY <1>1, <1>2, <1>3

LEMMA InitInv == Init => Inv
<1> SUFFICES ASSUME Init  PROVE Inv
  OBVIOUS
<1>1. /\ Fits(NewThread)
      /\ DOMAIN NewThread = {"intent", "doubts", "awaiting", "rounds", "parked", "exhausted"}
  BY QuotaAssumption DEF NewThread, Fits, Flag, Channels
<1>2. ch = NewThread ++ PerTurn
  BY DEF Init
<1>3. ch \in ChType
  <2>1. Fits(ch)
    BY <1>1, <1>2, PerTurnFits, FitsOver
  <2>2. DOMAIN ch = Channels
    BY <1>1, <1>2, PerTurnFits DEF ++, Channels
  <2>3. ch = [c \in Channels |-> ch[c]]
    BY <1>2, <2>2 DEF ++
  <2> QED  BY <2>1, <2>2, <2>3, FitIsTyped
<1>4. /\ due = {} /\ DOMAIN wrote = {} /\ sent = {} /\ phase = "idle" /\ steps = 0
      /\ confirmed = FALSE /\ backlog = FALSE /\ placed = 0 /\ asked = "none" /\ broken = FALSE
  BY NothingFits DEF Init
<1>5. TypeOK
  <2>1. {confirmed, backlog, broken} \subseteq BOOLEAN
    BY <1>4
  <2>2. steps \in 0..Limit
    BY <1>4, QuotaAssumption
  <2> QED  BY <1>3, <1>4, <2>1, <2>2 DEF TypeOK
<1>6. Returned /\ Counted
  BY <1>4 DEF Returned, Counted
<1>7. Orders /\ Questions /\ Short
  BY <1>4 DEF Orders, Questions, Live, Short
<1> QED  BY <1>4, <1>5, <1>6, <1>7 DEF Inv

LEMMA StartInv == Inv /\ Start => Inv'
<1> SUFFICES ASSUME Inv, Start  PROVE Inv'
  OBVIOUS
<1>1. /\ phase = "idle" /\ ch' = PerTurn ++ ch /\ due' = {"router"} /\ DOMAIN wrote' = {}
      /\ sent' = {} /\ phase' = "run" /\ steps' = 0 /\ placed' = 0 /\ broken' = FALSE
      /\ UNCHANGED <<confirmed, backlog, asked>>
  BY NothingFits DEF Start
<1>2. ch \in ChType /\ DOMAIN ch = Channels /\ Fits(ch)
  BY ChannelsFit DEF Inv, TypeOK
<1>3. ch' \in ChType
  <2>1. Fits(ch')
    BY <1>1, <1>2, PerTurnFits, FitsOver
  <2>2. DOMAIN ch' = Channels
    BY <1>1, <1>2, PerTurnFits DEF ++, Channels
  <2>3. ch' = [c \in Channels |-> ch'[c]]
    BY <1>1, <2>2 DEF ++
  <2> QED  BY <2>1, <2>2, <2>3, FitIsTyped
<1>4. /\ ch'["response"] = "none" /\ ch'["clarify"] = FALSE /\ ch'["loop"] = FALSE
      /\ ch'["count"] = 0 /\ ch'["awaiting"] = ch["awaiting"]
  BY <1>1, <1>2, PerTurnFits DEF ++, Channels
<1>5. Live' = {"router"}
  BY <1>1 DEF Live
<1>6. TypeOK'
  <2>1. ch' \in ChType'
    BY <1>3 DEF ChType
  <2>2. {confirmed, backlog, broken}' \subseteq BOOLEAN
    <3>1. confirmed \in BOOLEAN /\ backlog \in BOOLEAN
      BY DEF Inv, TypeOK
    <3> QED  BY <1>1, <3>1
  <2> QED  BY <1>1, <2>1, <2>2, QuotaAssumption DEF TypeOK, Nodes
<1>7. Returned' /\ Counted'
  BY <1>1, <1>4, QuotaAssumption DEF Returned, Counted
<1>8. Chains'
  BY <1>4, <1>5 DEF Chains
<1>9. Verdicts'
  BY <1>1, <1>5 DEF Verdicts
<1>10. Orders'
  BY <1>1 DEF Orders
<1>11. Questions'
  BY <1>1, <1>4, <1>5 DEF Inv, Questions
<1>12. Limit > 11 => Short'
  BY <1>1, <1>5 DEF Short, Longest
<1> QED  BY <1>5, <1>6, <1>7, <1>8, <1>9, <1>10, <1>11, <1>12 DEF Inv

LEMMA EndQuestion ==
  ASSUME AtBarrier, sent = {}, ch'.response = "question"
  PROVE  /\ ch'.awaiting /\ ch'.intent = ch.intent /\ ch.response = "question"
<1>1. Live # {"clarify"}
  BY BarrierFacts DEF AtBarrier, Inv, Returned
<1>2. ch.response = "question" /\ Live = {"answer"}
  BY <1>1, QuestionFrom
<1>3. ch.awaiting
  BY <1>2 DEF AtBarrier, Inv, Questions, Barrier
<1> QED  BY <1>2, <1>3, Steady

LEMMA EndInv == Inv /\ End => Inv'
<1> SUFFICES ASSUME Inv, End  PROVE Inv'
  OBVIOUS
<1>1. /\ AtBarrier /\ sent = {} /\ DOMAIN wrote' = {} /\ phase = "run" /\ phase' = "idle"
      /\ steps' = 0 /\ due' = {} /\ sent' = {}
      /\ UNCHANGED <<confirmed, backlog, verdict, placed, broken>>
      /\ asked' = IF ch'.response = "question" THEN ch'.intent ELSE "none"
  BY NothingFits DEF End, AtBarrier, Barrier
<1>2. TypeOK'
  <2>1. ch' \in ChType'
    BY <1>1, BarrierFacts DEF ChType
  <2>2. {confirmed, backlog, broken}' \subseteq BOOLEAN
    BY <1>1 DEF Inv, TypeOK
  <2> QED  BY <1>1, <2>1, <2>2, QuotaAssumption DEF TypeOK
<1>3. Returned' /\ Counted'
  BY <1>1 DEF Returned, Counted
<1>4. Orders'
  <2>1. placed \in {0, 1}
    BY DEF Inv, Orders
  <2>2. ASSUME placed = 1  PROVE ch'.response = "confirmed"
    <3>1. "execute" \notin DOMAIN wrote
      BY <1>1 DEF Inv, Returned
    <3>2. Live = {"answer"} /\ ch.response = "confirmed"
      BY <1>1, <2>2, <3>1 DEF Inv, Orders
    <3>3. /\ "response" \in DOMAIN wrote["answer"] /\ wrote["answer"]["response"] = "confirmed"
          /\ ch'["response"] = wrote["answer"]["response"]
      BY <1>1, <3>2, BarrierFacts DEF Writes
    <3> QED  BY <3>3
  <2> QED  BY <1>1, <2>1, <2>2 DEF Orders
<1>5. Questions'
  <2>1. Live' = {}
    BY <1>1 DEF Live
  <2> QED  BY <1>1, <2>1, EndQuestion DEF Questions
<1>6. Short'
  BY <1>1 DEF Short
<1> QED  BY <1>1, <1>2, <1>3, <1>4, <1>5, <1>6 DEF Inv

LEMMA AbortInv == Inv /\ (Collide \/ Die) => Inv'
<1> SUFFICES ASSUME Inv, Abort  PROVE Inv'
  BY DEF Collide, Die
<1>1. /\ due' = {} /\ DOMAIN wrote' = {} /\ sent' = {} /\ phase' = "idle" /\ steps' = 0
      /\ asked' = "none" /\ broken' = TRUE
      /\ UNCHANGED <<ch, confirmed, backlog, verdict, placed>>
  BY NothingFits DEF Abort
<1>2. TypeOK'
  <2>1. ch' \in ChType'
    BY <1>1 DEF Inv, TypeOK, ChType
  <2>2. {confirmed, backlog, broken}' \subseteq BOOLEAN
    <3>1. confirmed \in BOOLEAN /\ backlog \in BOOLEAN
      BY DEF Inv, TypeOK
    <3> QED  BY <1>1, <3>1
  <2> QED  BY <1>1, <2>1, <2>2, QuotaAssumption DEF TypeOK
<1>3. Returned' /\ Counted'
  BY <1>1 DEF Returned, Counted
<1>4. Orders' /\ Short'
  BY <1>1 DEF Inv, Orders, Short
<1>5. Questions'
  <2>1. Live' = {}
    BY <1>1 DEF Live
  <2> QED  BY <1>1, <2>1 DEF Questions
<1> QED  BY <1>1, <1>2, <1>3, <1>4, <1>5 DEF Inv

\* The state the invariant speaks of stays, but for the phase, the backlog and
\* what may be said of a turn that is over.
LEMMA Same ==
  ASSUME Inv, UNCHANGED <<ch, due, wrote, sent, steps, history>>
  PROVE  /\ Live' = Live /\ Returned' /\ (Chains => Chains') /\ (Verdicts => Verdicts')
<1>1. Live' = Live
  BY DEF Live
<1>2. \A n \in DOMAIN wrote' : Writes(n, wrote[n])'
  <2>1. \A n \in DOMAIN wrote : Writes(n, wrote[n])
    BY DEF Inv, Returned
  <2> QED  BY <2>1 DEF Writes, May, Slot, Fits, Flag
<1>3. \A t \in sent' : \E n \in DOMAIN wrote' : (t \in To(n, wrote[n]))'
  <2>1. \A t \in sent : \E n \in DOMAIN wrote : t \in To(n, wrote[n])
    BY DEF Inv, Returned
  <2> QED  BY <2>1 DEF To, Slot
<1>4. Returned'
  BY <1>2, <1>3 DEF Inv, Returned
<1>5. Chains => Chains'
  BY <1>1 DEF Chains, Slot
<1>6. Verdicts => Verdicts'
  BY <1>1 DEF Verdicts, history
<1> QED  BY <1>1, <1>4, <1>5, <1>6

LEMMA InterruptInv == Inv /\ Interrupt => Inv'
<1> SUFFICES ASSUME Inv, Interrupt  PROVE Inv'
  OBVIOUS
<1>1. /\ phase = "run" /\ due = {"guard"} /\ MayPause /\ phase' = "paused"
      /\ UNCHANGED <<ch, due, wrote, sent, steps, confirmed, backlog>>
      /\ UNCHANGED <<verdict, placed, asked, broken>>
  BY DEF Interrupt, history
<1>2. TypeOK'
  <2>1. ch' \in ChType'
    BY <1>1 DEF Inv, TypeOK, ChType
  <2>2. {confirmed, backlog, broken}' \subseteq BOOLEAN
    BY <1>1 DEF Inv, TypeOK
  <2> QED  BY <1>1, <2>1, <2>2 DEF Inv, TypeOK, Nodes
<1>3. Live' = Live /\ Returned' /\ Chains' /\ Verdicts'
  BY <1>1, Same DEF history, Inv
<1>4. Counted'
  <2>1. MayPause'
    BY <1>1 DEF MayPause, GuardReplies
  <2> QED  BY <1>1, <2>1 DEF Inv, Counted
<1>5. Orders' /\ Questions'
  BY <1>1, <1>3 DEF Inv, Orders, Questions
<1>6. Limit > 11 => Short'
  BY <1>1 DEF Inv, Short
<1> QED  BY <1>1, <1>2, <1>3, <1>4, <1>5, <1>6 DEF Inv

\* While the guard waits the queue has not run: nothing is approved yet.
LEMMA EnqueueInv == Inv /\ Enqueue => Inv'
<1> SUFFICES ASSUME Inv, Enqueue  PROVE Inv'
  OBVIOUS
<1>1. /\ phase \in {"idle", "paused"} /\ backlog' = TRUE
      /\ UNCHANGED <<ch, due, wrote, sent, phase, steps, confirmed, verdict, placed, asked, broken>>
  BY DEF Enqueue, run, history
<1>2. TypeOK'
  <2>1. ch' \in ChType'
    BY <1>1 DEF Inv, TypeOK, ChType
  <2>2. {confirmed, backlog, broken}' \subseteq BOOLEAN
    <3>1. confirmed \in BOOLEAN /\ broken \in BOOLEAN
      BY DEF Inv, TypeOK
    <3> QED  BY <1>1, <3>1
  <2> QED  BY <1>1, <2>1, <2>2 DEF Inv, TypeOK, Nodes
<1>3. Live' = Live /\ Returned' /\ (Chains => Chains') /\ (Verdicts => Verdicts')
  BY <1>1, Same DEF history
<1>4. Counted'
  <2>1. MayPause => MayPause'
    BY <1>1 DEF MayPause, GuardReplies
  <2>2. "queue" \notin DOMAIN wrote
    <3>1. CASE phase = "idle"
      BY <3>1 DEF Inv, TypeOK
    <3>2. CASE phase = "paused"
      <4>1. ~ch.approved
        BY <3>2 DEF Inv, Counted, MayPause
      <4>2. "queue" \notin Live
        BY <3>2, <4>1 DEF Inv, Chains
      <4> QED  BY <4>2 DEF Live
    <3> QED  BY <1>1, <3>1, <3>2
  <2> QED  BY <1>1, <2>1, <2>2 DEF Inv, Counted
<1>5. Orders' /\ Questions'
  BY <1>1, <1>3 DEF Inv, Orders, Questions
<1>6. Limit > 11 => Short'
  BY <1>1 DEF Inv, Short
<1> QED  BY <1>1, <1>2, <1>3, <1>4, <1>5, <1>6 DEF Inv

LEMMA Stutter == Inv /\ UNCHANGED vars => Inv'
<1> SUFFICES ASSUME Inv, UNCHANGED vars  PROVE Inv'
  OBVIOUS
<1>1. /\ UNCHANGED <<ch, due, wrote, sent, phase, steps, confirmed, backlog>>
      /\ UNCHANGED <<verdict, placed, asked, broken>>
  BY DEF vars, run, history
<1>2. TypeOK'
  <2>1. ch' \in ChType'
    BY <1>1 DEF Inv, TypeOK, ChType
  <2>2. {confirmed, backlog, broken}' \subseteq BOOLEAN
    BY <1>1 DEF Inv, TypeOK
  <2> QED  BY <1>1, <2>1, <2>2 DEF Inv, TypeOK, Nodes
<1>3. Live' = Live /\ Returned' /\ (Chains => Chains') /\ (Verdicts => Verdicts')
  BY <1>1, Same DEF history
<1>4. Counted'
  <2>1. MayPause => MayPause'
    BY <1>1 DEF MayPause, GuardReplies
  <2> QED  BY <1>1, <2>1 DEF Inv, Counted
<1>5. Orders' /\ Questions'
  BY <1>1, <1>3 DEF Inv, Orders, Questions
<1>6. Short => Short'
  <2>1. \A n \in Live : Longest(n)' = Longest(n)
    BY <1>1 DEF Longest
  <2> QED  BY <1>1, <1>3, <2>1 DEF Short
<1> QED  BY <1>1, <1>2, <1>3, <1>4, <1>5, <1>6 DEF Inv

LEMMA InvStep == Inv /\ [Next]_vars => Inv'
<1> SUFFICES ASSUME Inv, [Next]_vars  PROVE Inv'
  OBVIOUS
<1>1. CASE Start
  BY <1>1, StartInv
<1>2. CASE Node
  BY <1>2, SimpleNodes, GuardStep, QueueStep, ExecuteStep DEF Node
<1>3. CASE Interrupt
  BY <1>3, InterruptInv
<1>4. CASE Resume
  BY <1>4, GuardStep
<1>5. CASE Step
  BY <1>5, StepInv
<1>6. CASE End
  BY <1>6, EndInv
<1>7. CASE Collide \/ Die
  BY <1>7, AbortInv
<1>8. CASE Enqueue
  BY <1>8, EnqueueInv
<1>9. CASE UNCHANGED vars
  BY <1>9, Stutter
<1> QED  BY <1>1, <1>2, <1>3, <1>4, <1>5, <1>6, <1>7, <1>8, <1>9 DEF Next

\* The graph, its pending writes and the chains of its super-step keep their shape,
\* in whatever order the nodes return, a review interrupts them, the administrator
\* answers and messages are queued.
THEOREM GraphInvariant == Spec => []Inv
BY InitInv, InvStep, PTL DEF Spec

\* Every node writes values of its channels' types (core/agent/state.py): a thread
\* never asks more questions than Quota, counts no more than MaxCount + 1 reviews and
\* changes, and is between turns only with nothing pending.
THEOREM GraphTypeCorrect == Spec => []TypeOK
<1>1. Inv => TypeOK
  BY DEF Inv
<1> QED  BY <1>1, GraphInvariant, PTL

\* A turn places one order at most, and execution is due only while none is placed,
\* although the guard may run beside it and again after it (build_graph keeps the
\* static edges next to the Commands).
THEOREM GraphPlacesOnce == Spec => []OneOrderPerTurn
<1>1. Inv => OneOrderPerTurn
  <2> SUFFICES ASSUME Inv  PROVE OneOrderPerTurn
    OBVIOUS
  <2>1. placed \in {0, 1}
    BY DEF Inv, Orders
  <2>2. ASSUME "execute" \in due, placed = 1  PROVE FALSE
    <3>1. phase # "idle"
      BY <2>2 DEF Inv, TypeOK
    <3>2. "execute" \in Live
      BY <2>2 DEF Live
    <3>3. "execute" \notin DOMAIN wrote
      BY <2>2 DEF Inv, Returned
    <3> QED  BY <2>2, <3>1, <3>2, <3>3 DEF Inv, Orders
  <2> QED  BY <2>1, <2>2 DEF OneOrderPerTurn
<1> QED  BY <1>1, GraphInvariant, PTL

\* A turn that placed an order and was not aborted ends with the confirmation
\* (order_execution_node's response, which answer_node repeats): what the guard or
\* the search write beside it or later does not replace it.
THEOREM GraphConfirms == Spec => []PlacedIsConfirmed
<1>1. Inv => PlacedIsConfirmed
  BY DEF Inv, Orders, PlacedIsConfirmed
<1> QED  BY <1>1, GraphInvariant, PTL

LEMMA SearchApart ==
  ASSUME Inv, phase # "idle", NEW m \in DOMAIN wrote, NEW n \in DOMAIN wrote, m # n,
         m \in {"router", "retrieval", "memory", "confidence", "clarify"},
         NEW c \in DOMAIN wrote[m], c \in DOMAIN wrote[n]
  PROVE  m = "retrieval" /\ n = "guard" /\ c = "error"
<1>1. Chains /\ m \in Live /\ n \in Live
  BY DEF Inv, Live
<1>2. c \in May(m) /\ c \in May(n)
  BY DEF Inv, Returned, Writes
<1>3. n \in Beside(m)
  BY <1>1 DEF Chains
<1>4. CASE m \in {"router", "clarify"}
  BY <1>3, <1>4 DEF Beside
<1>5. CASE m = "retrieval"
  <2>1. n = "answer" => ch.response # "none"
    BY <1>1, <1>5 DEF Chains
  <2> QED  BY <1>2, <1>3, <1>5, <2>1 DEF Beside, May
<1>6. CASE m = "memory"
  <2>1. n = "answer" => ch.intent # "FOLLOW_UP"
    BY <1>1, <1>6 DEF Chains
  <2> QED  BY <1>2, <1>3, <1>6, <2>1 DEF Beside, May
<1>7. CASE m = "confidence"
  <2>1. Slot /\ (n = "answer" => ch.response # "none")
    BY <1>1, <1>7 DEF Chains
  <2> QED  BY <1>2, <1>3, <1>7, <2>1 DEF Beside, May
<1> QED  BY <1>4, <1>5, <1>6, <1>7

\* Router, retrieval, memory, confidence and clarification write no channel that a
\* node of the same super-step writes, but for the `error` of a failed search beside
\* a guard whose resumption failed: InvalidUpdateError comes from these two or from
\* two replies to the customer.
THEOREM GraphSearchApart == Spec => []SearchClashesOnFailure
<1>1. Inv => SearchClashesOnFailure
  <2> SUFFICES ASSUME Inv, NEW m \in DOMAIN wrote, NEW n \in DOMAIN wrote, Clash(m, n),
                      m \in {"router", "retrieval", "memory", "confidence", "clarify"}
               PROVE  /\ m = "retrieval" /\ n = "guard"
                      /\ DOMAIN wrote[m] \cap DOMAIN wrote[n] = {"error"}
    BY DEF SearchClashesOnFailure
  <2>1. phase # "idle"
    BY DEF Inv, TypeOK
  <2>2. \A c \in DOMAIN wrote[m] \cap DOMAIN wrote[n] :
          m = "retrieval" /\ n = "guard" /\ c = "error"
    BY <2>1, SearchApart DEF Clash
  <2> QED  BY <2>2 DEF Clash
<1> QED  BY <1>1, GraphInvariant, PTL

\* No path of the graph is longer than twelve super-steps: with a recursion limit
\* above eleven (core/agent/graph.py: four times AGENT_MAX_TURNS) no invocation
\* raises GraphRecursionError.
THEOREM GraphWithinLimit ==
  ASSUME Limit > 11
  PROVE  Spec => []WithinLimit
<1>1. Inv => WithinLimit
  BY QuotaAssumption DEF Inv, TypeOK, Short, WithinLimit
<1> QED  BY <1>1, GraphInvariant, PTL

\* Only order_execution_node places an order.
LEMMA PlacedByExecute ==
  ASSUME Inv, Next, placed' > placed
  PROVE  "execute" \in due /\ phase = "run"
<1>1. placed \in {0, 1}
  BY DEF Inv, Orders
<1>2. placed' # 0 /\ placed' # placed
  BY <1>1
<1>3. CASE ExecuteNode
  BY <1>3 DEF ExecuteNode, Return
<1>4. CASE Node /\ ~ExecuteNode
  BY <1>2, <1>4
     DEF Node, RouterNode, RetrievalNode, MemoryNode, ConfidenceNode, ClarifyNode,
         EscalationNode, GuardNode, QueueNode, FreshNode, CancelNode, SupportNode,
         AnswerNode, Runs
<1>5. CASE Start \/ Interrupt \/ Resume \/ Step \/ End \/ Collide \/ Die \/ Enqueue
  BY <1>2, <1>5 DEF Start, Interrupt, Resume, Step, End, Collide, Die, Abort, Enqueue, history
<1> QED  BY <1>3, <1>4, <1>5 DEF Next

\* An order is placed only while the last verdict of the turn on it is "passed":
\* between hitl_guard_node's Command and the execution neither a queued change nor
\* another pass of the guard revokes it.
THEOREM GraphPlacesOnVerdict == Spec => PlacedOnVerdict
<1>1. Inv /\ [Next]_vars => [placed' > placed => verdict = "passed"]_vars
  <2> SUFFICES ASSUME Inv, Next, placed' > placed  PROVE verdict = "passed"
    OBVIOUS
  <2>1. "execute" \in Live /\ phase = "run"
    BY PlacedByExecute DEF Live
  <2> QED  BY <2>1 DEF Inv, Verdicts
<1> QED  BY <1>1, GraphInvariant, PTL DEF Spec, PlacedOnVerdict

\* Only the end of a turn leaves a question pending.
LEMMA AskedAtEnd ==
  ASSUME Inv, Next, phase = "run", phase' = "idle", asked' # "none"
  PROVE  End
<1>1. CASE Node
  BY <1>1
     DEF Node, RouterNode, RetrievalNode, MemoryNode, ConfidenceNode, ClarifyNode,
         EscalationNode, GuardNode, QueueNode, ExecuteNode, FreshNode, CancelNode,
         SupportNode, AnswerNode, Runs
<1>2. CASE Start \/ Interrupt \/ Resume \/ Step \/ Collide \/ Die \/ Enqueue
  BY <1>2 DEF Start, Interrupt, Resume, Step, Collide, Die, Abort, Enqueue, run
<1> QED  BY <1>1, <1>2 DEF Next

\* A turn that answers a clarifying question asks another one only if the customer
\* came to an actionable intent: the pending question is merged, spent or dropped
\* (router_node's _with_context_reset, retrieval_node's merge) before the
\* confidence could ask again.
THEOREM GraphAsksOnce == Spec => AskedOnce
<1>1. Inv /\ [Next]_vars =>
        [phase = "run" /\ phase' = "idle" /\ asked # "none" /\ asked' # "none"
           => asked' \in ContextReset]_vars
  <2> SUFFICES ASSUME Inv, Next, phase = "run", phase' = "idle", asked # "none", asked' # "none"
               PROVE  asked' \in ContextReset
    OBVIOUS
  <2>1. End
    BY AskedAtEnd
  <2>2. AtBarrier /\ sent = {} /\ ch'.response = "question" /\ asked' = ch'.intent
    BY <2>1 DEF End, AtBarrier
  <2>3. ch'.intent = ch.intent /\ ch.response = "question"
    BY <2>2, EndQuestion
  <2> QED  BY <2>2, <2>3 DEF Inv, Questions
<1> QED  BY <1>1, GraphInvariant, PTL DEF Spec, AskedOnce

--------------------------------------------------------------------------------
(****************************************************************************)
(* How a message becomes a turn: TelegramTurns for any chats, updates,      *)
(* deliveries and permits.                                                  *)
(****************************************************************************)

\* A task that is not over has an attempt to send left (send_telegram_message's
\* loop over range(max_retries)).
Attempts == \A d \in Deliveries : task[d] # "over" => sends[d] < MaxSends

\* Only the tasks of Telegram's updates come to the semaphore.
AtCap == \A d \in Deliveries : task[d] = "permit" => ~Api(d)

\* A permit is free or a running turn has it.
Permits == IsFiniteSet(Running) /\ free + Cardinality(Running) = MaxTurns

Accounted == IngressTypeOK /\ Attempts /\ AtCap /\ Permits

--------------------------------------------------------------------------------
(****************************************************************************)
(* The shape of the state.                                                  *)
(****************************************************************************)
LEMMA AccountedTypesInit == IngressInit => IngressTypeOK /\ Attempts /\ AtCap
BY WorldsAssumption, BoundsAssumption DEF IngressInit, IngressTypeOK, Attempts, AtCap

LEMMA DeliverTyped ==
  ASSUME IngressTypeOK, Attempts, AtCap, NEW u \in Updates, Deliver(u) \/ TooOld(u) \/ Ask(u)
  PROVE  IngressTypeOK' /\ Attempts' /\ AtCap'
<1> USE BoundsAssumption DEF IngressTypeOK, Attempts, AtCap, Deliveries, Api, handling, sessions,
        delivery
<1>1. CASE Deliver(u)
  <2>1. tries[u] + 1 \in 1 .. MaxDeliveries
    BY <1>1 DEF Deliver
  <2> QED  BY <1>1, <2>1 DEF Deliver
<1>2. CASE TooOld(u)
  BY <1>2 DEF TooOld
<1>3. CASE Ask(u)
  <2>1. <<u, 1>> \in Deliveries
    OBVIOUS
  <2>2. IngressTypeOK'
    BY <1>3, <2>1 DEF Ask, Task
  <2>3. Attempts' /\ AtCap'
    BY <1>3, <2>1 DEF Ask, Task
  <2> QED  BY <2>2, <2>3
<1> QED  BY <1>1, <1>2, <1>3

LEMMA WebhookTyped ==
  ASSUME IngressTypeOK, Attempts, AtCap, NEW d \in Deliveries, Webhook(d)
  PROVE  IngressTypeOK' /\ Attempts' /\ AtCap'
<1> USE BoundsAssumption DEF IngressTypeOK, Attempts, AtCap, Api, Hook, handling, sessions
<1>0. d[1] \in Updates
  BY DEF Deliveries
<1>1. CASE Check(d)
  BY <1>1 DEF Check
<1>2. CASE Record(d)
  BY <1>0, <1>2 DEF Record
<1>3. CASE Spawn(d)
  BY <1>3 DEF Spawn, Task
<1>4. CASE Ack(d)
  BY <1>0, <1>4 DEF Ack
<1> QED  BY <1>1, <1>2, <1>3, <1>4 DEF Webhook

LEMMA HandleTyped ==
  ASSUME IngressTypeOK, Attempts, AtCap, Permits, NEW d \in Deliveries, Handle(d)
  PROVE  IngressTypeOK' /\ Attempts' /\ AtCap'
<1> USE BoundsAssumption DEF IngressTypeOK, Attempts, AtCap, Task, Tell, delivery, sessions
<1>0. Chat(d) \in Chats
  BY ChatOfAssumption DEF Chat, Deliveries
<1>1. CASE PlainReply(d)
  BY <1>1 DEF PlainReply
<1>2. CASE Gateway(d)
  BY <1>2 DEF Gateway
<1>3. CASE PutInQueue(d)
  BY <1>3 DEF PutInQueue
<1>4. CASE Permit(d)
  BY <1>4 DEF Permit
<1>5. CASE Overflow(d)
  BY <1>5 DEF Overflow
<1>6. ASSUME task[d] = "turn"  PROVE Api(d) \/ free + 1 \in 0 .. MaxTurns
  <2> SUFFICES ASSUME ~Api(d)  PROVE free + 1 \in 0 .. MaxTurns
    OBVIOUS
  <2>1. d \in Running
    BY <1>6 DEF Running
  <2>2. Cardinality(Running) \in Nat /\ Cardinality(Running) # 0
    BY <2>1, FS_CardinalityType, FS_EmptySet DEF Permits
  <2> QED  BY <2>2 DEF Permits
<1>7. CASE TurnEnds(d)
  BY <1>6, <1>7 DEF TurnEnds, Release
<1>8. CASE TurnPauses(d)
  BY <1>0, <1>6, <1>8 DEF TurnPauses, Release
<1>9. CASE TurnFails(d)
  BY <1>6, <1>9 DEF TurnFails, Release
<1>10. CASE Send(d)
  BY <1>10 DEF Send
<1>11. CASE SendFails(d)
  BY <1>11 DEF SendFails
<1> QED
  BY <1>1, <1>2, <1>3, <1>4, <1>5, <1>7, <1>8, <1>9, <1>10, <1>11 DEF Handle

SessionStep(c) ==
  ReviewApproved(c) \/ ReviewEndsUnread(c) \/ Drain(c) \/ RunEndsUnread(c) \/ Escalate(c)

LEMMA SessionTyped ==
  ASSUME IngressTypeOK, Attempts, AtCap, NEW c \in Chats,
         SessionStep(c)
  PROVE  IngressTypeOK' /\ Attempts' /\ AtCap'
<1> USE DEF IngressTypeOK, Attempts, AtCap, Rows, delivery, handling
<1>1. CASE ReviewApproved(c)
  BY <1>1 DEF ReviewApproved
<1>2. CASE ReviewEndsUnread(c)
  BY <1>2 DEF ReviewEndsUnread
<1>3. CASE Drain(c)
  BY <1>3 DEF Drain, Batches
<1>4. CASE RunEndsUnread(c)
  BY <1>4 DEF RunEndsUnread
<1>5. CASE Escalate(c)
  BY <1>5 DEF Escalate
<1> QED  BY <1>1, <1>2, <1>3, <1>4, <1>5 DEF SessionStep

LEMMA RestartTyped ==
  ASSUME IngressTypeOK, Attempts, AtCap, Restart
  PROVE  IngressTypeOK' /\ Attempts' /\ AtCap'
<1>1. world' \in World
  BY DEF IngressTypeOK, World, Restart
<1>2. aside' \subseteq Deliveries
  BY DEF IngressTypeOK, Restart, Rows
<1>3. cut' \subseteq Deliveries
  BY DEF IngressTypeOK, Restart
<1>4. free' \in 0 .. MaxTurns
  BY BoundsAssumption DEF Restart
<1> QED  BY <1>1, <1>2, <1>3, <1>4 DEF IngressTypeOK, Attempts, AtCap, Restart
--------------------------------------------------------------------------------
(****************************************************************************)
(* The permits.                                                             *)
(****************************************************************************)
LEMMA PermitsInit == IngressInit => Permits
<1> SUFFICES ASSUME IngressInit  PROVE Permits
  OBVIOUS
<1>1. Running = {}
  BY DEF IngressInit, Running
<1> QED  BY <1>1, FS_EmptySet, BoundsAssumption DEF IngressInit, Permits

\* Steps that start and end no turn of an update.
LEMMA PermitsKept ==
  ASSUME Permits, UNCHANGED free, Running' = Running
  PROVE  Permits'
BY DEF Permits

\* The semaphore is given and taken for one turn at a time.
LEMMA PermitTaken ==
  ASSUME IngressTypeOK, AtCap, Permits, NEW d \in Deliveries, Permit(d)
  PROVE  Permits'
<1>1. d \notin Running /\ Running' = Running \union {d}
  BY DEF Permit, Task, Running, AtCap, IngressTypeOK, Api
<1>2. /\ IsFiniteSet(Running')
      /\ Cardinality(Running') = Cardinality(Running) + 1
  BY <1>1, FS_AddElement DEF Permits
<1>3. Cardinality(Running) \in Nat
  BY FS_CardinalityType DEF Permits
<1> QED  BY <1>2, <1>3, BoundsAssumption DEF Permits, Permit, IngressTypeOK

LEMMA PermitReturned ==
  ASSUME IngressTypeOK, Permits, NEW d \in Deliveries,
         TurnEnds(d) \/ TurnPauses(d) \/ TurnFails(d)
  PROVE  Permits'
<1>1. task[d] = "turn" /\ task' = [task EXCEPT ![d] = "send"] /\ Release(d)
  BY DEF TurnEnds, TurnPauses, TurnFails, Task
<1>2. CASE Api(d)
  <2>1. Running' = Running
    BY <1>1, <1>2 DEF Running, IngressTypeOK, Api
  <2> QED  BY <1>1, <1>2, <2>1, PermitsKept DEF Release
<1>3. CASE ~Api(d)
  <2>1. d \in Running /\ Running' = Running \ {d}
    BY <1>1, <1>3 DEF Running, IngressTypeOK, Api
  <2>2. /\ IsFiniteSet(Running')
        /\ Cardinality(Running') = Cardinality(Running) - 1
    BY <2>1, FS_RemoveElement DEF Permits
  <2>3. Cardinality(Running) \in Nat
    BY FS_CardinalityType DEF Permits
  <2> QED  BY <1>1, <1>3, <2>2, <2>3, BoundsAssumption DEF Permits, Release, IngressTypeOK
<1> QED  BY <1>2, <1>3

LEMMA PermitsStep == Accounted /\ [IngressNext]_ingress => Permits'
<1> SUFFICES ASSUME Accounted, [IngressNext]_ingress  PROVE Permits'
  OBVIOUS
<1> USE DEF Accounted
<1>1. ASSUME NEW u \in Updates, Deliver(u) \/ TooOld(u) \/ Ask(u)  PROVE Permits'
  <2>1. UNCHANGED free /\ Running' = Running
    BY <1>1 DEF Deliver, TooOld, Ask, Task, Running, Api, IngressTypeOK, Deliveries, handling
  <2> QED  BY <2>1, PermitsKept
<1>2. ASSUME NEW d \in Deliveries, Webhook(d)  PROVE Permits'
  <2>1. UNCHANGED free /\ Running' = Running
    BY <1>2 DEF Webhook, Check, Record, Spawn, Ack, Task, Running, Api, IngressTypeOK, handling
  <2> QED  BY <2>1, PermitsKept
<1>3. ASSUME NEW d \in Deliveries, Handle(d)  PROVE Permits'
  <2>1. CASE Permit(d)
    BY <2>1, PermitTaken
  <2>2. CASE TurnEnds(d) \/ TurnPauses(d) \/ TurnFails(d)
    BY <2>2, PermitReturned
  <2>3. CASE \/ PlainReply(d) \/ Gateway(d) \/ PutInQueue(d) \/ Overflow(d)
             \/ Send(d) \/ SendFails(d)
    <3>1. UNCHANGED free /\ Running' = Running
      BY <2>3 DEF PlainReply, Gateway, PutInQueue, Overflow, Send, SendFails, Task, Running, Api,
         IngressTypeOK
    <3> QED  BY <3>1, PermitsKept
  <2> QED  BY <1>3, <2>1, <2>2, <2>3 DEF Handle
<1>4. ASSUME NEW c \in Chats, SessionStep(c)
      PROVE  Permits'
  <2>1. UNCHANGED free /\ Running' = Running
    BY <1>4 DEF SessionStep, ReviewApproved, ReviewEndsUnread, Drain, RunEndsUnread, Escalate,
       Running, Api, handling
  <2> QED  BY <2>1, PermitsKept
<1>5. CASE Restart
  <2>1. Running' = {}
    BY <1>5 DEF Restart, Running
  <2> QED  BY <1>5, <2>1, FS_EmptySet, BoundsAssumption DEF Restart, Permits
<1>6. CASE UNCHANGED ingress
  <2>1. UNCHANGED free /\ Running' = Running
    BY <1>6 DEF ingress, handling, Running, Api
  <2> QED  BY <2>1, PermitsKept
<1> QED  BY <1>1, <1>2, <1>3, <1>4, <1>5, <1>6 DEF IngressNext, SessionStep

LEMMA AccountedStep == Accounted /\ [IngressNext]_ingress => Accounted'
<1> SUFFICES ASSUME Accounted, [IngressNext]_ingress  PROVE IngressTypeOK' /\ Attempts' /\ AtCap'
  BY PermitsStep DEF Accounted
<1> USE DEF Accounted
<1>1. CASE UNCHANGED ingress
  BY <1>1 DEF ingress, delivery, handling, sessions, IngressTypeOK, Attempts, AtCap, Api
<1> QED
  BY <1>1, DeliverTyped, WebhookTyped, HandleTyped, SessionTyped, RestartTyped DEF IngressNext, SessionStep

\* Every reachable state of the webhook, the tasks and the sessions has its shape,
\* and permits are neither made nor lost.
THEOREM PermitsAccounted == IngressSpec => []Accounted
<1>1. IngressInit => Accounted
  BY AccountedTypesInit, PermitsInit DEF Accounted
<1> QED  BY <1>1, AccountedStep, PTL DEF IngressSpec

\* Requests, tasks, replies, attempts, reviews and queues keep their shape: in
\* particular there are never more attempts than MaxSends, nor more free permits
\* than MaxTurns (a finally clause that ran twice would make some).
THEOREM IngressTypeCorrect == IngressSpec => []IngressTypeOK
<1>1. Accounted => IngressTypeOK
  BY DEF Accounted
<1> QED  BY <1>1, PermitsAccounted, PTL

\* Only Overflow puts a customer off.
LEMMA PutOffByOverflow ==
  ASSUME IngressTypeOK, IngressNext, NEW d \in Deliveries, reply[d] = "none", reply'[d] = "holding"
  PROVE  free = 0
<1>1. ASSUME NEW u \in Updates, Deliver(u) \/ TooOld(u) \/ Ask(u)  PROVE FALSE
  BY <1>1 DEF Deliver, TooOld, Ask, handling
<1>2. ASSUME NEW e \in Deliveries, Webhook(e)  PROVE FALSE
  BY <1>2 DEF Webhook, Check, Record, Spawn, Ack, handling
<1>3. ASSUME NEW e \in Deliveries, Handle(e), free # 0  PROVE FALSE
  BY <1>3 DEF Handle, PlainReply, Gateway, PutInQueue, Permit, Overflow, TurnEnds, TurnPauses,
     TurnFails, Send, SendFails, Tell, IngressTypeOK
<1>4. ASSUME NEW c \in Chats, SessionStep(c)
      PROVE  FALSE
  BY <1>4 DEF SessionStep, ReviewApproved, ReviewEndsUnread, Drain, RunEndsUnread, Escalate, handling
<1>5. CASE Restart
  BY <1>5 DEF Restart
<1> QED  BY <1>1, <1>2, <1>3, <1>4, <1>5 DEF IngressNext, SessionStep

\* The holding message of an overflow means that MaxTurns turns were running: no
\* failed turn, restart or paused session uses up the cap (message_handler.py's
\* finally clause).
THEOREM OverflowMeansFullHouse == IngressSpec => OverflowNeedsFullHouse
<1>1. Accounted /\ [IngressNext]_ingress =>
        [\A d \in Deliveries :
           reply[d] = "none" /\ reply'[d] = "holding" => Cardinality(Running) = MaxTurns]_ingress
  <2> SUFFICES ASSUME Accounted, IngressNext, NEW d \in Deliveries,
                      reply[d] = "none", reply'[d] = "holding"
               PROVE  Cardinality(Running) = MaxTurns
    OBVIOUS
  <2>1. free = 0
    BY PutOffByOverflow DEF Accounted
  <2>2. Cardinality(Running) \in Nat
    BY FS_CardinalityType DEF Accounted, Permits
  <2> QED  BY <2>1, <2>2 DEF Accounted, Permits
<1> QED  BY <1>1, PermitsAccounted, PTL DEF IngressSpec, OverflowNeedsFullHouse

--------------------------------------------------------------------------------
(****************************************************************************)
(* The queue.                                                               *)
(****************************************************************************)
LEMMA StrandedStep ==
  Accounted /\ StrandedNeedsMishap /\ [IngressNext]_ingress => StrandedNeedsMishap'
<1> SUFFICES ASSUME Accounted, StrandedNeedsMishap, [IngressNext]_ingress
             PROVE  StrandedNeedsMishap'
  OBVIOUS
<1>0. ASSUME UNCHANGED <<review, resumed, queue, aside>>  PROVE StrandedNeedsMishap'
  BY <1>0 DEF StrandedNeedsMishap, Blocked
<1>1. ASSUME NEW u \in Updates, Deliver(u) \/ TooOld(u) \/ Ask(u)
      PROVE  StrandedNeedsMishap'
  BY <1>0, <1>1 DEF Deliver, TooOld, Ask, sessions
<1>2. ASSUME NEW d \in Deliveries, Webhook(d)  PROVE StrandedNeedsMishap'
  BY <1>0, <1>2 DEF Webhook, Check, Record, Spawn, Ack, sessions
<1>3. ASSUME NEW d \in Deliveries, Handle(d)  PROVE StrandedNeedsMishap'
  <2>1. CASE PutInQueue(d)
    BY <2>1 DEF PutInQueue, StrandedNeedsMishap, Blocked
  <2>2. CASE Overflow(d)
    BY <2>2 DEF Overflow, StrandedNeedsMishap, Blocked
  <2>3. CASE TurnPauses(d)
    BY <2>3 DEF TurnPauses, StrandedNeedsMishap, Blocked, Accounted, IngressTypeOK
  <2>4. CASE \/ PlainReply(d) \/ Gateway(d) \/ Permit(d) \/ TurnEnds(d) \/ TurnFails(d)
             \/ Send(d) \/ SendFails(d)
    BY <1>0, <2>4 DEF PlainReply, Gateway, Permit, TurnEnds, TurnFails, Send, SendFails, sessions
  <2> QED  BY <1>3, <2>1, <2>2, <2>3, <2>4 DEF Handle
<1>4. ASSUME NEW c \in Chats, ReviewApproved(c)  PROVE StrandedNeedsMishap'
  BY <1>4 DEF ReviewApproved, StrandedNeedsMishap, Blocked, Accounted, IngressTypeOK
<1>5. ASSUME NEW c \in Chats, Drain(c)  PROVE StrandedNeedsMishap'
  <2>1. PICK R \in Batches(c), pauses \in BOOLEAN :
          /\ queue' = queue \ R
          /\ review' = [review EXCEPT ![c] = IF pauses /\ @ = "none" THEN "paused" ELSE @]
          /\ aside' = IF pauses \/ Blocked(c) THEN aside ELSE aside \union (Rows(c) \ R)
    BY <1>5 DEF Drain
  <2>2. resumed' = resumed \ {c} /\ review \in [Chats -> {"none", "paused", "escalated"}]
    BY <1>5 DEF Drain, Accounted, IngressTypeOK
  <2>3. \A b \in Chats : Blocked(b) => Blocked(b)'
    BY <2>1, <2>2 DEF Blocked
  <2>4. pauses \/ Blocked(c) => Blocked(c)'
    BY <2>1, <2>2 DEF Blocked
  <2>5. SUFFICES ASSUME NEW d \in queue, d \notin R
                 PROVE  Blocked(Chat(d))' \/ Chat(d) \in resumed' \/ d \in aside'
    BY <2>1 DEF StrandedNeedsMishap, Chat
  <2>6. Chat(d) \in Chats
    BY ChatOfAssumption DEF Accounted, IngressTypeOK, Chat, Deliveries
  <2>7. CASE Chat(d) = c
    BY <2>1, <2>4, <2>5, <2>7 DEF Rows, Chat
  <2>8. CASE Chat(d) # c
    BY <2>1, <2>2, <2>3, <2>5, <2>6, <2>8 DEF StrandedNeedsMishap, Chat
  <2> QED  BY <2>7, <2>8
<1>6. ASSUME NEW c \in Chats, RunEndsUnread(c) \/ ReviewEndsUnread(c)
      PROVE  StrandedNeedsMishap'
  <2>1. CASE RunEndsUnread(c)
    BY <2>1 DEF RunEndsUnread, StrandedNeedsMishap, Blocked, Rows
  <2>2. CASE ReviewEndsUnread(c)
    BY <2>2 DEF ReviewEndsUnread, StrandedNeedsMishap, Blocked, Rows, Accounted, IngressTypeOK
  <2> QED  BY <1>6, <2>1, <2>2
<1>7. ASSUME NEW c \in Chats, Escalate(c)  PROVE StrandedNeedsMishap'
  BY <1>7 DEF Escalate, StrandedNeedsMishap, Blocked, Accounted, IngressTypeOK
<1>8. CASE Restart
  BY <1>8 DEF Restart, StrandedNeedsMishap, Blocked, Rows
<1>9. CASE UNCHANGED ingress
  BY <1>0, <1>9 DEF ingress, sessions
<1> QED  BY <1>1, <1>2, <1>3, <1>4, <1>5, <1>6, <1>7, <1>8, <1>9 DEF IngressNext

\* A queued message that no review and no resumed run will read was put there by an
\* overflow, came in after its review was over, was more than a run takes, or its
\* review ended without a run that reads (queued_messages, read by
\* queue_consumer_node only).
THEOREM NobodyElseIsStranded == IngressSpec => []StrandedNeedsMishap
<1>1. IngressInit => StrandedNeedsMishap
  BY DEF IngressInit, StrandedNeedsMishap
<1> QED  BY <1>1, PermitsAccounted, StrandedStep, PTL DEF IngressSpec
================================================================================
