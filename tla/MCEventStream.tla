---------------------------- MODULE MCEventStream ----------------------------
(* TLC instance of EventStream: two tools, two messages, a small window.    *)
EXTENDS EventStream

\* "u1" writes outside the workspace, "u2" reads.
MCToolUse == {"u1", "u2"}
MCNameOf == [u1 |-> "Edit", u2 |-> "Read"]
MCOutside == {"u1"}

\* Counters of the SDK: with a split of the cache writes, and without.  Of a
\* window of 20, 14 + 3 tokens are 85 %, and 14 + 5 tokens are 95 %.
MCRawUsage ==
    {[input |-> 2, output |-> 1, creation |-> 3, ephemeral_5m |-> 1, ephemeral_1h |-> 2, read |-> 1],
     [input |-> 3, output |-> 2, creation |-> 2]}
MCStartTokens == {14}
=============================================================================
