---------------------------- MODULE MCAnswerTurns ----------------------------
EXTENDS AnswerTurns, TLC

CONSTANTS both, one

MCParts == [q \in Questions |-> IF q = both THEN {one} ELSE {}]

\* Models that answer, and products that change while they do.
Shop == [kinds |-> {"plain"}, asks |-> {both}, spend |-> {"ok"},
         fails |-> FALSE, changes |-> TRUE]
\* Models that fail, time out and are limited.
Storm == [kinds |-> {"vague", "risky"}, asks |-> {one}, spend |-> {"ok"},
          fails |-> TRUE, changes |-> FALSE]
\* The limits on the cost are set.
Thrift == [kinds |-> {"small", "mixed"}, asks |-> {both}, spend |-> {"ok", "over", "capped"},
           fails |-> FALSE, changes |-> FALSE]

\* Questions to POST /query beside one another.
Lookup == [kinds |-> {"query"}, asks |-> {one}, spend |-> {"ok"},
           fails |-> TRUE, changes |-> FALSE]

AllWorlds == {Shop, Storm, Thrift, Lookup}
\* Complaints while every model works.
Calm == {[kinds |-> {"risky"}, asks |-> {one}, spend |-> {"ok"}, fails |-> FALSE, changes |-> FALSE]}
\* Everything at once, for a shallow counterexample.
OneWorld == {[kinds |-> AllKinds, asks |-> Questions, spend |-> {"ok", "over", "capped"},
              fails |-> TRUE, changes |-> TRUE]}
Symmetric == Permutations(Turns)
================================================================================
