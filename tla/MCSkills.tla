------------------------------ MODULE MCSkills ------------------------------
(* TLC instance of Skills.                                                  *)
EXTENDS Skills, TLC

CONSTANTS r1, r2, r3, w1, w2, s1, s2, md, extra

ThreeCalls == {r1, r2, r3}
TwoWorkers == {w1, w2}
OneSkill == {s1}
TwoFiles == {md, extra}
\* r1 is the call of an earlier time.
Alike == Permutations({r2, r3}) \cup Permutations(TwoWorkers)
Lists == {<<md>>, <<md, extra>>}
=============================================================================
