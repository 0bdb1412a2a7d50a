---------------------------- MODULE MCSupportTurns ----------------------------
(* A small instance of SupportTurns for TLC.                                  *)
EXTENDS SupportTurns, TLC

CONSTANTS t1, t2, s1, m1, m2

\* Every kind of message and every failure, one message at a time.
Failures == [kinds |-> Kinds, asks |-> {m1}, capped |-> FALSE, fails |-> TRUE,
             overlaps |-> FALSE]

\* Two questions, one at a time, while everything works.
Questions == [kinds |-> {"greeting", "info", "complaint"}, asks |-> {m1, m2},
              capped |-> FALSE, fails |-> FALSE, overlaps |-> FALSE]

\* Messages that overlap.
Hurried == [kinds |-> {"greeting", "info", "complaint"}, asks |-> {m1}, capped |-> FALSE,
            fails |-> FALSE, overlaps |-> TRUE]

\* The customer has had the messages of the day.
Capped == [kinds |-> Kinds, asks |-> {m1}, capped |-> TRUE, fails |-> FALSE,
           overlaps |-> FALSE]

AllWorlds == {Failures, Questions, Hurried, Capped}
================================================================================
