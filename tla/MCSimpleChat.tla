---------------------------- MODULE MCSimpleChat ----------------------------
(* TLC instance of SimpleChat.                                              *)
EXTENDS SimpleChat, TLC

CONSTANTS r1, r2, r3, w1, w2, chat1

ThreeCalls == {r1, r2, r3}
TwoWorkers == {w1, w2}
OneChat == {chat1}
\* Two calls share a process.
Placed == (r1 :> w1) @@ (r2 :> w1) @@ (r3 :> w2)
=============================================================================
