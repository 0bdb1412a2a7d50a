---------------------------- MODULE MCHitlReview ----------------------------
(* Small instances of HitlReview for TLC.                                    *)
EXTENDS HitlReview, TLC

CONSTANTS s1, s2, r1, r2, k1, k2, m1, m2, m3

OneSession == [m \in Msg |-> s1]
TwoSessions == [m \in Msg |-> IF m = m1 THEN s1 ELSE s2]
\* Sets of things that happen together while a session has one run at a time,
\* and sessions with overlapping runs.
SomeEnvs == {{"edit", "timeout", "telegram"}, {"edit", "timeout", "fail"},
             {"fail", "telegram"}, {"risk", "fail"}, {"overlap", "fail"}}
Symmetry == Permutations(Reviewer) \cup Permutations(Key) \cup Permutations(Msg)
=============================================================================
