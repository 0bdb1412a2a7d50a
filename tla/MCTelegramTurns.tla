---------------------------- MODULE MCTelegramTurns ----------------------------
EXTENDS TelegramTurns, TLC

CONSTANTS c1, c2, u1, u2, q1

MCChatOf == [u \in Updates |-> IF u = u2 THEN c2 ELSE c1]

\* Telegram repeats an update, whose two deliveries meet in one chat.
Repeats == [sent |-> {u1, q1}, again |-> {u1}, restarts |-> FALSE, fails |-> FALSE]
\* Turns, runs and messages to Telegram fail; two chats share the cap, and one
\* of them is spoken to by both ways.
Storm == [sent |-> Updates, again |-> {}, restarts |-> FALSE, fails |-> TRUE]
\* The process restarts, and Telegram repeats what it has no answer for.
Reboot == [sent |-> {u1}, again |-> {u1}, restarts |-> TRUE, fails |-> TRUE]

AllWorlds == {Repeats, Storm, Reboot}
================================================================================
