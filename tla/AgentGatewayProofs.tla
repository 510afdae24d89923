------------------------- MODULE AgentGatewayProofs --------------------------
(***************************************************************************)
(* The gateway for any number of workers, servers, files and connections,  *)
(* any TTL and any length of answers: the rules a tool call finds, the     *)
(* skills an agent loads, the end of a broken stream and the age of an     *)
(* address.                                                                *)
(***************************************************************************)
EXTENDS AgentGateway, TLAPS

-----------------------------------------------------------------------------
(* The shapes of a connection *)

Call == [kind : {"mcp"}, server : Server] \cup [kind : {"bedrock", "forward", "connect"}]
Frame == {"length", "chunked", "both"}

IdleRec == [st : {"idle"}]
ClosedRec == [st : {"closed"}, frame : Frame, n : Nat, k : Nat, tail : {"none", "end", "error"}]
CallRec == [st : {"read", "asked"}, live : BOOLEAN, by : Worker, call : Call,
            turn : Nat, headers : Nat]
StreamRec == [st : {"stream"}, live : BOOLEAN, by : Worker, frame : Frame, n : Nat, k : Nat]
LookupRec == [st : {"lookup"}, live : BOOLEAN, by : Worker]
FoundRec == [st : {"resolved", "tunnel"}, live : BOOLEAN, by : Worker, age : Nat]
Handler == CallRec \cup StreamRec \cup LookupRec \cup FoundRec

Proxy == [on : {FALSE}] \cup [on : {TRUE}, rules : [Server -> Nat], dns : [age : Nat, left : Nat]]

\* A handler that is not stopped has a running proxy.
LiveOK(r) == r \in Handler /\ r.live => Running(r.by)

\* An answer of the resolver is at most Lag old when it is taken over, and the
\* address of a tunnel less than the TTL more.
AgeOK(r) ==
    /\ r.st = "resolved" => r.age <= Lag
    /\ r.st = "tunnel" => r.age < TTL + Lag

\* The last chunk is written after the last piece.
EndOK(r) == r.st = "closed" /\ r.frame = "chunked" /\ r.tail = "end" => r.k = r.n

\* A call of a tool knows a server it was told of, and came by the socket that
\* the rules are for.
CallOK(r) == r \in CallRec =>
    /\ r.turn <= told.turn
    /\ fresh /\ r.live /\ r.call.kind = "mcp" /\ r.turn = told.turn
         => r.by = socket /\ r.call.server \in told.servers

ConnOK(r) ==
    /\ r \in IdleRec \cup ClosedRec \cup Handler
    /\ LiveOK(r) /\ AgeOK(r) /\ EndOK(r) /\ CallOK(r)

-----------------------------------------------------------------------------
(* The invariant *)

TurnTypeInv ==
    /\ turn \in Nat /\ host \in Worker
    /\ told \in [turn : Nat, servers : SUBSET Server]
    /\ disk \subseteq File /\ todo \subseteq File /\ synced \in BOOLEAN
    /\ box \in [File -> Int]
    /\ alive \in BOOLEAN /\ fresh \in BOOLEAN
    /\ proxies \in [Worker -> Proxy]
    /\ conn \in [Conn -> IdleRec \cup ClosedRec \cup Handler]

\* The entry of a name leaves before its address is too old.
EntriesOK == \A w \in Worker : Running(w) /\ proxies[w].dns.left > 0
                => proxies[w].dns.age + proxies[w].dns.left <= TTL + Lag

\* The rules of the turn are at the socket, and an agent that is being set up
\* has not been told of this turn's servers.
RulesOK ==
    /\ socket # "none" => socket \in Worker /\ Running(socket)
    /\ told.turn <= turn
    /\ stage = "setup" => told.turn < turn
    /\ ~alive => ~fresh /\ socket = "none" /\ stage = "idle"
    /\ fresh => /\ socket # "none"
                /\ \A s \in told.servers : proxies[socket].rules[s] = told.turn

SkillsOK ==
    /\ stage = "syncing" => \A f \in disk \ todo : box[f] = turn
    /\ LoadedSkillsWhole

GatewayInv ==
    /\ TurnTypeInv /\ EntriesOK /\ RulesOK /\ SkillsOK
    /\ \A c \in Conn : ConnOK(conn[c])

-----------------------------------------------------------------------------
(* Records *)

LEMMA AskedCall ==
    ASSUME NEW r \in CallRec, NEW h \in Nat
    PROVE  /\ [r EXCEPT !.st = "asked"] \in CallRec
           /\ [r EXCEPT !.st = "asked"].st = "asked"
           /\ [r EXCEPT !.st = "asked"].live = r.live
           /\ [r EXCEPT !.st = "asked"].by = r.by
           /\ [r EXCEPT !.st = "asked"].turn = r.turn
           /\ [r EXCEPT !.st = "asked"].call = r.call
           /\ [[r EXCEPT !.st = "asked"] EXCEPT !.headers = h] \in CallRec
           /\ [[r EXCEPT !.st = "asked"] EXCEPT !.headers = h].st = "asked"
           /\ [[r EXCEPT !.st = "asked"] EXCEPT !.headers = h].live = r.live
           /\ [[r EXCEPT !.st = "asked"] EXCEPT !.headers = h].by = r.by
           /\ [[r EXCEPT !.st = "asked"] EXCEPT !.headers = h].turn = r.turn
           /\ [[r EXCEPT !.st = "asked"] EXCEPT !.headers = h].call = r.call
BY DEF CallRec

\* The handler of a proxy that was stopped.
Hushed(r) == [r EXCEPT !.live = FALSE]

LEMMA StoppedHandler ==
    ASSUME NEW r \in Handler
    PROVE  /\ Hushed(r) \in Handler
           /\ Hushed(r).live = FALSE
           /\ Hushed(r).st = r.st
           /\ r \in FoundRec => Hushed(r).age = r.age
           /\ Hushed(r) \in CallRec => r \in CallRec
           /\ r \in CallRec => Hushed(r).turn = r.turn
<1>1. CASE r \in CallRec
  BY <1>1 DEF Hushed, Handler, CallRec, FoundRec
<1>2. CASE r \in StreamRec
  BY <1>2 DEF Hushed, Handler, CallRec, FoundRec, StreamRec
<1>3. CASE r \in LookupRec
  BY <1>3 DEF Hushed, Handler, CallRec, FoundRec, LookupRec
<1>4. CASE r \in FoundRec
  BY <1>4 DEF Hushed, Handler, CallRec, FoundRec
<1>. QED  BY <1>1, <1>2, <1>3, <1>4 DEF Handler

\* What the state of a connection says of its record.
LEMMA Shape ==
    ASSUME NEW r \in IdleRec \cup ClosedRec \cup Handler
    PROVE  /\ r.st \in {"read", "asked"} => r \in CallRec
           /\ r.st = "stream" => r \in StreamRec
           /\ r.st \in {"resolved", "tunnel"} => r \in FoundRec
           /\ r.st \notin {"idle", "closed"} => r \in Handler
           /\ r.st = "closed" => r \in ClosedRec
           /\ r \in Handler => r.st \notin {"idle", "closed"} /\ r.by \in Worker /\ r.live \in BOOLEAN
           /\ r \in CallRec => r \in Handler
BY DEF IdleRec, ClosedRec, Handler, CallRec, StreamRec, LookupRec, FoundRec

LEMMA RunningProxy ==
    ASSUME NEW x \in Proxy, x.on
    PROVE  x.rules \in [Server -> Nat] /\ x.dns \in [age : Nat, left : Nat]
BY DEF Proxy

LEMMA NewProxyType ==
    NewProxy \in Proxy /\ NewProxy.on /\ NewProxy.dns.left = 0 /\ NoProxy \in Proxy /\ ~NoProxy.on
BY DEF NewProxy, Proxy, NoEntry, NoRule, NoProxy

\* Records that carry no promise.
LEMMA PlainRecords ==
    /\ ConnOK(Idle)
    /\ \A frame \in Frame, n \in Nat, k \in Nat, tail \in {"none", "end", "error"} :
           (frame = "chunked" /\ tail = "end" => k = n)
             => ConnOK([st |-> "closed", frame |-> frame, n |-> n, k |-> k, tail |-> tail])
<1>1. ConnOK(Idle)
  <2>1. Idle \in IdleRec /\ Idle.st = "idle"
    BY DEF Idle, IdleRec
  <2>2. Idle \notin Handler /\ Idle \notin CallRec
    BY <2>1, Shape
  <2>. QED  BY <2>1, <2>2 DEF ConnOK, LiveOK, AgeOK, EndOK, CallOK
<1>2. ASSUME NEW frame \in Frame, NEW n \in Nat, NEW k \in Nat,
             NEW tail \in {"none", "end", "error"},
             frame = "chunked" /\ tail = "end" => k = n,
             NEW r, r = [st |-> "closed", frame |-> frame, n |-> n, k |-> k, tail |-> tail]
      PROVE  ConnOK(r)
  <2>1. r \in ClosedRec /\ r.st = "closed"
    BY <1>2 DEF ClosedRec
  <2>2. r \notin Handler /\ r \notin CallRec
    BY <2>1, Shape
  <2>3. EndOK(r)
    BY <1>2 DEF EndOK
  <2>. QED  BY <2>1, <2>2, <2>3 DEF ConnOK, LiveOK, AgeOK, CallOK
<1>. QED  BY <1>1, <1>2

-----------------------------------------------------------------------------
(* The steps of a connection *)

Quiet == UNCHANGED <<turnVars, alive, socket, fresh>>

\* An entry of a running proxy is replaced.
EntryTaken ==
    \E w \in Worker : \E e \in [age : Nat, left : Nat] :
        /\ Running(w) /\ e.age + e.left <= TTL + Lag
        /\ proxies' = [proxies EXCEPT ![w].dns = e]

Effect(c, r) ==
    /\ ConnOK(r) /\ Quiet
    /\ conn' = [conn EXCEPT ![c] = r]
    /\ proxies' = proxies \/ EntryTaken

LEMMA BecomeEffect ==
    ASSUME NEW c \in Conn, NEW r, ConnOK(r), Become(c, r)
    PROVE  Effect(c, r)
BY DEF Become, Effect, Quiet, turnVars, proxyVars

LEMMA ClosedEffect ==
    ASSUME NEW c \in Conn, NEW frame \in Frame, NEW n \in Nat, NEW k \in Nat,
           NEW tail \in {"none", "end", "error"},
           frame = "chunked" /\ tail = "end" => k = n,
           Closed(c, frame, n, k, tail)
    PROVE  \E r : Effect(c, r)
BY PlainRecords, BecomeEffect DEF Closed

LEMMA FailsEffect ==
    ASSUME NEW c \in Conn, Fails(c)
    PROVE  \E r : Effect(c, r)
<1>1. "length" \in Frame /\ ErrorText \in Nat
  BY GatewayAssumption DEF Frame
<1>2. Closed(c, "length", ErrorText, ErrorText, "none")
  BY DEF Fails
<1>. QED  BY <1>1, <1>2, ClosedEffect

LEMMA RequestEffect ==
    ASSUME GatewayInv, NEW c \in Conn, NEW call \in Calls, Request(c, call)
    PROVE  \E r : Effect(c, r)
<1>. DEFINE r == [st |-> "read", live |-> TRUE, by |-> socket, call |-> call,
                  turn |-> IF call.kind = "mcp" THEN told.turn ELSE 0, headers |-> NoRule]
<1>1. socket \in Worker /\ Running(socket) /\ told.turn \in Nat /\ told.servers \subseteq Server
  BY DEF Request, GatewayInv, RulesOK, TurnTypeInv
<1>2. call \in Call /\ (call.kind = "mcp" => call.server \in told.servers)
  BY <1>1 DEF Calls, ToolCalls, Call
<1>3. /\ r.st = "read" /\ r.live /\ r.by = socket /\ r.call = call
      /\ r.turn = IF call.kind = "mcp" THEN told.turn ELSE 0
      /\ r.turn \in Nat /\ r.turn <= told.turn
  BY <1>1
<1>4. r \in CallRec /\ r \in Handler
  BY <1>1, <1>2 DEF CallRec, NoRule, Handler
<1>5. ConnOK(r)
  BY <1>1, <1>2, <1>3, <1>4 DEF ConnOK, LiveOK, AgeOK, EndOK, CallOK
<1>. QED  BY <1>5, BecomeEffect DEF Request

\* A call that is passed on, with the headers of a rule or without.
LEMMA AskEffect ==
    ASSUME GatewayInv, NEW c \in Conn, conn[c].st = "read", NEW h \in Nat,
           Become(c, Asked(c)) \/ Become(c, [Asked(c) EXCEPT !.headers = h])
    PROVE  \E r : Effect(c, r)
<1>1. ConnOK(conn[c]) /\ conn[c] \in CallRec
  BY Shape DEF GatewayInv, ConnOK
<1>2. ASSUME NEW r, r \in CallRec, r.st = "asked", r.live = conn[c].live, r.by = conn[c].by,
             r.turn = conn[c].turn, r.call = conn[c].call
      PROVE  ConnOK(r)
  <2>1. r \in Handler /\ conn[c] \in Handler
    BY <1>1, <1>2 DEF Handler
  <2>. QED  BY <1>1, <1>2, <2>1 DEF ConnOK, LiveOK, AgeOK, EndOK, CallOK
<1>3. ConnOK(Asked(c)) /\ ConnOK([Asked(c) EXCEPT !.headers = h])
  BY <1>1, <1>2, AskedCall DEF Asked
<1>. QED  BY <1>3, BecomeEffect

LEMMA McpAsksEffect ==
    ASSUME GatewayInv, NEW c \in Conn, McpAsks(c)
    PROVE  \E r : Effect(c, r)
<1>1. ConnOK(conn[c]) /\ conn[c] \in CallRec /\ conn[c].call.kind = "mcp" /\ conn[c].st = "read"
  BY Shape DEF GatewayInv, ConnOK, McpAsks, At
<1>2. conn[c].call \in Call /\ conn[c].call.server \in Server
  BY <1>1 DEF CallRec, Call
<1>3. Rule(c) \in Nat
  <2>1. CASE conn[c].live
    <3>1. conn[c].by \in Worker /\ Running(conn[c].by)
      BY <1>1, <2>1, Shape DEF ConnOK, LiveOK
    <3>2. proxies[conn[c].by].rules \in [Server -> Nat]
      BY <3>1, RunningProxy DEF GatewayInv, TurnTypeInv, Running
    <3>. QED  BY <1>2, <2>1, <3>2 DEF Rule
  <2>2. CASE ~conn[c].live
    BY <2>2 DEF Rule, NoRule
  <2>. QED  BY <2>1, <2>2
<1>. QED  BY <1>1, <1>3, AskEffect DEF McpAsks

LEMMA HeadEffect ==
    ASSUME GatewayInv, NEW c \in Conn, BedrockHead(c)
    PROVE  \E r : Effect(c, r)
<1>1. PICK n \in 0..MaxBody, frame \in {"length", "chunked"} :
          Become(c, [st |-> "stream", live |-> TRUE, by |-> conn[c].by,
                     frame |-> frame, n |-> n, k |-> 0])
  BY DEF BedrockHead
<1>. DEFINE r == [st |-> "stream", live |-> TRUE, by |-> conn[c].by,
                  frame |-> frame, n |-> n, k |-> 0]
<1>2. conn[c].by \in Worker /\ Running(conn[c].by)
  BY Shape DEF GatewayInv, ConnOK, LiveOK, BedrockHead, At
<1>3. r \in StreamRec /\ r.st = "stream" /\ r.by = conn[c].by
  BY <1>2, GatewayAssumption DEF StreamRec, Frame
<1>4. r \in Handler /\ r \notin CallRec
  BY <1>3 DEF Handler, CallRec
<1>5. ConnOK(r)
  BY <1>2, <1>3, <1>4 DEF ConnOK, LiveOK, AgeOK, EndOK, CallOK
<1>. QED  BY <1>1, <1>5, BecomeEffect

LEMMA PieceEffect ==
    ASSUME GatewayInv, NEW c \in Conn, BedrockPiece(c)
    PROVE  \E r : Effect(c, r)
<1>. DEFINE r == [conn[c] EXCEPT !.k = @ + 1]
<1>1. conn[c].by \in Worker /\ Running(conn[c].by) /\ conn[c] \in StreamRec
  BY Shape DEF GatewayInv, ConnOK, LiveOK, BedrockPiece
<1>2. r \in StreamRec /\ r.st = "stream" /\ r.by = conn[c].by
  BY <1>1 DEF StreamRec
<1>3. r \in Handler /\ r \notin CallRec
  BY <1>2 DEF Handler, CallRec
<1>4. ConnOK(r)
  BY <1>1, <1>2, <1>3 DEF ConnOK, LiveOK, AgeOK, EndOK, CallOK
<1>. QED  BY <1>4, BecomeEffect DEF BedrockPiece

LEMMA StreamEndEffect ==
    ASSUME GatewayInv, NEW c \in Conn, BedrockEnds(c) \/ BedrockBreaks(c)
    PROVE  \E r : Effect(c, r)
<1>1. conn[c] \in StreamRec
  BY Shape DEF GatewayInv, ConnOK, BedrockEnds, BedrockBreaks
<1>2. conn[c].frame \in Frame /\ conn[c].n \in Nat /\ conn[c].k \in Nat
  BY <1>1 DEF StreamRec
<1>3. CASE BedrockEnds(c)
  BY <1>2, <1>3, ClosedEffect DEF BedrockEnds
<1>4. CASE BedrockBreaks(c)
  BY <1>2, <1>4, ClosedEffect DEF BedrockBreaks
<1>. QED  BY <1>3, <1>4

LEMMA CachedEffect ==
    ASSUME GatewayInv, NEW c \in Conn, Cached(c)
    PROVE  \E r : Effect(c, r)
<1>. DEFINE r == Tunnel(c, Entry(c).age)
<1>1. /\ conn[c].st = "read" /\ Entry(c).left > 0
      /\ conn[c].live \in BOOLEAN /\ conn[c].by \in Worker /\ LiveOK(conn[c])
      /\ conn[c] \in Handler
  BY Shape DEF GatewayInv, ConnOK, Cached, At
<1>2. conn[c].live /\ Running(conn[c].by) /\ Entry(c) = proxies[conn[c].by].dns
  BY <1>1 DEF Entry, NoEntry, LiveOK
<1>3. Entry(c) \in [age : Nat, left : Nat]
  BY <1>1, <1>2, RunningProxy DEF GatewayInv, TurnTypeInv, Running
<1>4. Entry(c).age \in Nat /\ Entry(c).left \in Nat /\ Entry(c).age + Entry(c).left <= TTL + Lag
  BY <1>1, <1>2, <1>3 DEF GatewayInv, EntriesOK
<1>5. Entry(c).age < TTL + Lag
  BY <1>1, <1>4, GatewayAssumption
<1>6. r \in FoundRec /\ r.st = "tunnel" /\ r.live = conn[c].live /\ r.by = conn[c].by
      /\ r.age = Entry(c).age
  BY <1>1, <1>4 DEF FoundRec, Tunnel
<1>7. r \in Handler /\ r \notin CallRec
  BY <1>6 DEF Handler, CallRec
<1>8. ConnOK(r)
  BY <1>2, <1>5, <1>6, <1>7 DEF ConnOK, LiveOK, AgeOK, EndOK, CallOK
<1>. QED  BY <1>8, BecomeEffect DEF Cached

LEMMA LookUpEffect ==
    ASSUME GatewayInv, NEW c \in Conn, LookUp(c)
    PROVE  \E r : Effect(c, r)
<1>. DEFINE r == [st |-> "lookup", live |-> conn[c].live, by |-> conn[c].by]
<1>1. conn[c].live \in BOOLEAN /\ conn[c].by \in Worker /\ LiveOK(conn[c]) /\ conn[c] \in Handler
  BY Shape DEF GatewayInv, ConnOK, LookUp, At
<1>2. r \in LookupRec /\ r.st = "lookup" /\ r.live = conn[c].live /\ r.by = conn[c].by
  BY <1>1 DEF LookupRec
<1>3. r \in Handler /\ r \notin CallRec
  BY <1>2 DEF Handler, CallRec
<1>4. ConnOK(r)
  BY <1>1, <1>2, <1>3 DEF ConnOK, LiveOK, AgeOK, EndOK, CallOK
<1>. QED  BY <1>4, BecomeEffect DEF LookUp

LEMMA ResolverEffect ==
    ASSUME GatewayInv, NEW c \in Conn, ResolverAnswers(c)
    PROVE  \E r : Effect(c, r)
<1>. DEFINE r == [st |-> "resolved", live |-> conn[c].live, by |-> conn[c].by, age |-> 0]
<1>1. conn[c].live \in BOOLEAN /\ conn[c].by \in Worker /\ LiveOK(conn[c]) /\ conn[c] \in Handler
  BY Shape DEF GatewayInv, ConnOK, ResolverAnswers
<1>2. r \in FoundRec /\ r.st = "resolved" /\ r.live = conn[c].live /\ r.by = conn[c].by /\ r.age = 0
  BY <1>1 DEF FoundRec
<1>3. r \in Handler /\ r \notin CallRec
  BY <1>2 DEF Handler, CallRec
<1>4. ConnOK(r)
  BY <1>1, <1>2, <1>3, GatewayAssumption DEF ConnOK, LiveOK, AgeOK, EndOK, CallOK
<1>. QED  BY <1>4, BecomeEffect DEF ResolverAnswers

LEMMA ResolvedEffect ==
    ASSUME GatewayInv, NEW c \in Conn, Resolved(c)
    PROVE  \E r : Effect(c, r)
<1>. DEFINE r == Tunnel(c, conn[c].age)
            e == [age |-> conn[c].age, left |-> TTL]
<1>1. /\ conn[c].live \in BOOLEAN /\ conn[c].by \in Worker /\ LiveOK(conn[c])
      /\ conn[c] \in Handler /\ conn[c] \in FoundRec /\ conn[c].age <= Lag
  BY Shape DEF GatewayInv, ConnOK, AgeOK, Resolved
<1>2. conn[c].age \in Nat /\ conn[c].age < TTL + Lag
  BY <1>1, GatewayAssumption DEF FoundRec
<1>3. r \in FoundRec /\ r.st = "tunnel" /\ r.live = conn[c].live /\ r.by = conn[c].by
      /\ r.age = conn[c].age
  BY <1>1, <1>2 DEF FoundRec, Tunnel
<1>4. r \in Handler /\ r \notin CallRec
  BY <1>3 DEF Handler, CallRec
<1>5. ConnOK(r)
  BY <1>1, <1>2, <1>3, <1>4 DEF ConnOK, LiveOK, AgeOK, EndOK, CallOK
<1>6. proxies' = proxies \/ EntryTaken
  <2>1. CASE conn[c].live
    <3>1. Running(conn[c].by) /\ proxies' = [proxies EXCEPT ![conn[c].by].dns = e]
      BY <1>1, <2>1 DEF Resolved, LiveOK
    <3>2. e \in [age : Nat, left : Nat] /\ e.age + e.left <= TTL + Lag
      BY <1>1, <1>2, GatewayAssumption
    <3>. QED  BY <1>1, <3>1, <3>2 DEF EntryTaken
  <2>2. CASE ~conn[c].live
    BY <2>2 DEF Resolved
  <2>. QED  BY <1>1, <2>1, <2>2
<1>. QED  BY <1>5, <1>6 DEF Resolved, Effect, Quiet

LEMMA HandlesEffect ==
    ASSUME GatewayInv, NEW c \in Conn, Handles(c)
    PROVE  \E r : Effect(c, r)
<1>1. ASSUME NEW call \in Calls, Request(c, call)  PROVE \E r : Effect(c, r)
  BY <1>1, RequestEffect
<1>2. CASE Dropped(c) \/ Fetched(c)
  BY <1>2, PlainRecords, BecomeEffect DEF Dropped, Fetched
<1>3. CASE McpUnknown(c) \/ ForwardRefused(c) \/ AskFails(c)
  BY <1>3, FailsEffect DEF McpUnknown, ForwardRefused, AskFails
<1>4. CASE McpAsks(c)
  BY <1>4, McpAsksEffect
<1>5. CASE ForwardAsks(c) \/ BedrockAsks(c)
  <2>1. conn[c].st = "read" /\ Become(c, Asked(c)) /\ 0 \in Nat
    BY <1>5 DEF ForwardAsks, BedrockAsks, At
  <2>. QED  BY <2>1, AskEffect
<1>6. CASE McpAnswers(c) \/ ForwardAnswers(c)
  <2>1. PICK frame \in {"length", "both"} : Closed(c, frame, MaxBody, MaxBody, "none")
    BY <1>6 DEF McpAnswers, ForwardAnswers
  <2>2. frame \in Frame /\ MaxBody \in Nat
    BY GatewayAssumption DEF Frame
  <2>. QED  BY <2>1, <2>2, ClosedEffect
<1>7. CASE BedrockHead(c)
  BY <1>7, HeadEffect
<1>8. CASE BedrockPiece(c)
  BY <1>8, PieceEffect
<1>9. CASE BedrockEnds(c) \/ BedrockBreaks(c)
  BY <1>9, StreamEndEffect
<1>10. CASE ConnectRefused(c)
  <2>1. "length" \in Frame /\ ErrorText \in Nat /\ ErrorText + 1 \in Nat
    BY GatewayAssumption DEF Frame
  <2>. QED  BY <1>10, <2>1, ClosedEffect DEF ConnectRefused
<1>11. CASE Cached(c)
  BY <1>11, CachedEffect
<1>12. CASE LookUp(c)
  BY <1>12, LookUpEffect
<1>13. CASE ResolverAnswers(c)
  BY <1>13, ResolverEffect
<1>14. CASE Resolved(c)
  BY <1>14, ResolvedEffect
<1>. QED
  BY <1>1, <1>2, <1>3, <1>4, <1>5, <1>6, <1>7, <1>8, <1>9, <1>10, <1>11, <1>12, <1>13, <1>14
  DEF Handles

-----------------------------------------------------------------------------
(* What a step leaves of the connections *)

\* A proxy loses nothing but its entry.
LEMMA EntryKept ==
    ASSUME TurnTypeInv, EntriesOK, proxies' = proxies \/ EntryTaken
    PROVE  /\ proxies' \in [Worker -> Proxy]
           /\ EntriesOK'
           /\ \A w \in Worker : Running(w)' = Running(w)
                 /\ (Running(w) => proxies'[w].rules = proxies[w].rules)
<1>1. CASE proxies' = proxies
  BY <1>1 DEF TurnTypeInv, EntriesOK, Running
<1>2. CASE EntryTaken
  <2>1. PICK w \in Worker, e \in [age : Nat, left : Nat] :
            Running(w) /\ e.age + e.left <= TTL + Lag /\ proxies' = [proxies EXCEPT ![w].dns = e]
    BY <1>2 DEF EntryTaken
  <2>2. proxies[w] \in Proxy /\ proxies[w].on
    BY <2>1 DEF TurnTypeInv, Running
  <2>3. /\ [proxies[w] EXCEPT !.dns = e] \in Proxy
        /\ [proxies[w] EXCEPT !.dns = e].on
        /\ [proxies[w] EXCEPT !.dns = e].dns = e
        /\ [proxies[w] EXCEPT !.dns = e].rules = proxies[w].rules
    BY <2>1, <2>2 DEF Proxy
  <2>4. proxies' = [proxies EXCEPT ![w] = [proxies[w] EXCEPT !.dns = e]]
        /\ proxies \in [Worker -> Proxy]
    BY <2>1 DEF TurnTypeInv
  <2>5. proxies' \in [Worker -> Proxy]
    BY <2>3, <2>4
  <2>6. proxies'[w] = [proxies[w] EXCEPT !.dns = e] /\ \A v \in Worker \ {w} : proxies'[v] = proxies[v]
    BY <2>4
  <2>7. EntriesOK'
    BY <2>1, <2>3, <2>6 DEF EntriesOK, Running
  <2>. QED  BY <2>1, <2>2, <2>3, <2>5, <2>6, <2>7 DEF Running
<1>. QED  BY <1>1, <1>2

LEMMA EffectKeeps ==
    ASSUME GatewayInv, NEW c \in Conn, NEW r, Effect(c, r)
    PROVE  GatewayInv'
<1>1. /\ proxies' \in [Worker -> Proxy] /\ EntriesOK'
      /\ \A w \in Worker : Running(w)' = Running(w)
            /\ (Running(w) => proxies'[w].rules = proxies[w].rules)
  BY EntryKept DEF GatewayInv, Effect
<1>2. Quiet /\ ConnOK(r) /\ conn' = [conn EXCEPT ![c] = r]
  BY DEF Effect
<1>3. \A d \in Conn : conn'[d] = IF d = c THEN r ELSE conn[d]
  BY <1>2 DEF GatewayInv, TurnTypeInv
<1>4. \A d \in Conn : ConnOK(conn'[d])
  BY <1>2, <1>3 DEF GatewayInv
<1>5. ASSUME NEW d \in Conn  PROVE ConnOK(conn[d])'
  <2>. DEFINE q == conn'[d]
  <2>1. ConnOK(q)
    BY <1>4
  <2>2. q \in Handler => q.by \in Worker
    BY <2>1, Shape DEF ConnOK
  <2>. QED  BY <1>1, <1>2, <2>1, <2>2 DEF ConnOK, LiveOK, AgeOK, EndOK, CallOK, Quiet, turnVars
<1>6. TurnTypeInv'
  <2>1. conn' \in [Conn -> IdleRec \cup ClosedRec \cup Handler]
    BY <1>2 DEF GatewayInv, TurnTypeInv, ConnOK
  <2>. QED  BY <1>1, <1>2, <2>1 DEF GatewayInv, TurnTypeInv, Quiet, turnVars
<1>7. RulesOK'
  BY <1>1, <1>2 DEF GatewayInv, RulesOK, Quiet, turnVars
<1>8. SkillsOK'
  BY <1>2 DEF GatewayInv, SkillsOK, LoadedSkillsWhole, Quiet, turnVars
<1>. QED  BY <1>1, <1>5, <1>6, <1>7, <1>8 DEF GatewayInv

\* A step that takes connections away, or stops their handlers, or takes the
\* promise of the socket back, leaves the others as they are.
Fewer == \A d \in Conn :
    \/ conn'[d] = conn[d]
    \/ conn'[d] = Idle
    \/ conn[d] \in Handler /\ conn'[d] = Hushed(conn[d])
Served == \A d \in Conn : LiveOK(conn[d])

LEMMA FewerKeeps ==
    ASSUME GatewayInv, Fewer, Served', NEW d \in Conn,
           told'.turn \in Nat,
           \/ told'.turn > told.turn
           \/ told' = told /\ (fresh' => fresh /\ socket' = socket)
    PROVE  ConnOK(conn[d])'
<1>1. ConnOK(conn[d]) /\ told.turn \in Nat
  BY DEF GatewayInv, TurnTypeInv
<1>2. LiveOK(conn[d])'
  BY DEF Served
<1>3. CASE conn'[d] = Idle
  <2>1. Idle \in IdleRec /\ Idle.st = "idle"
    BY DEF Idle, IdleRec
  <2>2. Idle \notin CallRec
    BY <2>1, Shape
  <2>. QED  BY <1>2, <1>3, <2>1, <2>2 DEF ConnOK, AgeOK, EndOK, CallOK
<1>4. CASE conn'[d] = conn[d]
  <2>1. CallOK(conn[d])'
    BY <1>1, <1>4 DEF ConnOK, CallOK, CallRec
  <2>. QED  BY <1>1, <1>2, <1>4, <2>1 DEF ConnOK, AgeOK, EndOK
<1>5. CASE conn[d] \in Handler /\ conn'[d] = Hushed(conn[d])
  <2>1. /\ conn'[d] \in Handler /\ conn'[d].st = conn[d].st /\ ~conn'[d].live
        /\ (conn[d] \in FoundRec => conn'[d].age = conn[d].age)
        /\ (conn'[d] \in CallRec => conn[d] \in CallRec /\ conn'[d].turn = conn[d].turn)
    BY <1>5, StoppedHandler
  <2>2. CallOK(conn[d])'
    BY <1>1, <2>1 DEF ConnOK, CallOK, CallRec
  <2>3. AgeOK(conn[d])'
    BY <1>1, <2>1, Shape DEF ConnOK, AgeOK
  <2>4. EndOK(conn[d])'
    BY <1>5, <2>1, Shape DEF EndOK
  <2>. QED  BY <1>2, <2>1, <2>2, <2>3, <2>4 DEF ConnOK
<1>6. \/ conn'[d] = conn[d]
      \/ conn'[d] = Idle
      \/ conn[d] \in Handler /\ conn'[d] = Hushed(conn[d])
  BY DEF Fewer
<1>. QED
  <2>1. CASE conn'[d] = conn[d]
    BY <2>1, <1>4
  <2>2. CASE conn'[d] = Idle
    BY <2>2, <1>3
  <2>3. CASE conn[d] \in Handler /\ conn'[d] = Hushed(conn[d])
    BY <2>3, <1>5
  <2>. QED  BY <1>6, <2>1, <2>2, <2>3

LEMMA FewerTypes ==
    ASSUME GatewayInv, Fewer, NEW d \in Conn
    PROVE  conn'[d] \in IdleRec \cup ClosedRec \cup Handler
<1>1. Idle \in IdleRec
  BY DEF Idle, IdleRec
<1>2. conn[d] \in Handler => Hushed(conn[d]) \in Handler
  BY StoppedHandler
<1>3. conn[d] \in IdleRec \cup ClosedRec \cup Handler
  BY DEF GatewayInv, TurnTypeInv
<1>. QED  BY <1>1, <1>2, <1>3 DEF Fewer

\* Connections that nobody touches.
LEMMA SameConn ==
    ASSUME GatewayInv, conn' = conn, \A w \in Worker : Running(w) => Running(w)'
    PROVE  Fewer /\ Served' /\ conn' \in [Conn -> IdleRec \cup ClosedRec \cup Handler]
<1>1. \A d \in Conn : conn[d] \in Handler => conn[d].by \in Worker
  BY Shape
<1>2. \A d \in Conn : LiveOK(conn[d])
  BY DEF GatewayInv, ConnOK
<1>. QED  BY <1>1, <1>2 DEF Fewer, Served, LiveOK, GatewayInv, TurnTypeInv

-----------------------------------------------------------------------------
(* The other steps *)

LEMMA InitInv == Init => GatewayInv
<1>. SUFFICES ASSUME Init PROVE GatewayInv
  OBVIOUS
<1>. USE DEF Init
<1>1. Idle \in IdleRec
  BY DEF Idle, IdleRec
<1>2. NoProxy \in Proxy /\ ~NoProxy.on
  BY NewProxyType
<1>3. TurnTypeInv
  <2>1. conn \in [Conn -> IdleRec \cup ClosedRec \cup Handler]
    BY <1>1
  <2>2. proxies \in [Worker -> Proxy]
    BY <1>2
  <2>3. told \in [turn : Nat, servers : SUBSET Server] /\ box \in [File -> Int]
    OBVIOUS
  <2>. QED  BY <2>1, <2>2, <2>3 DEF TurnTypeInv
<1>4. EntriesOK
  BY <1>2 DEF EntriesOK, Running
<1>5. RulesOK
  BY DEF RulesOK
<1>6. SkillsOK
  BY DEF SkillsOK, LoadedSkillsWhole
<1>7. \A c \in Conn : ConnOK(conn[c])
  BY PlainRecords
<1>. QED  BY <1>3, <1>4, <1>5, <1>6, <1>7 DEF GatewayInv

LEMMA TurnBeginsKeeps ==
    ASSUME GatewayInv, NEW w \in Worker, NEW files \in SUBSET File, TurnBegins(w, files)
    PROVE  GatewayInv'
<1>1. /\ turn \in Nat /\ turn' = turn + 1 /\ host' = w /\ disk' = files /\ stage' = "setup"
      /\ told' = told /\ todo' = todo /\ synced' = synced
  BY DEF TurnBegins, GatewayInv, TurnTypeInv
<1>2. told.turn \in Nat /\ told.turn <= turn
  BY DEF GatewayInv, RulesOK, TurnTypeInv
<1>3. /\ proxies' \in [Worker -> Proxy] /\ EntriesOK' /\ fresh' = fresh /\ conn' = conn
      /\ \A v \in Worker : Running(v) => Running(v)'
      /\ alive' /\ alive' \in BOOLEAN /\ box' \in [File -> Int]
      /\ socket' # "none" => socket' \in Worker /\ Running(socket)'
      /\ fresh => alive' /\ socket' = socket /\ proxies' = proxies
  <2>1. CASE ReuseContainer
    <3>1. alive /\ UNCHANGED <<alive, box, proxies, socket, fresh, conn>>
      BY <2>1 DEF ReuseContainer, proxyVars
    <3>. QED  BY <3>1 DEF GatewayInv, TurnTypeInv, EntriesOK, RulesOK, Running
  <2>2. CASE CreateContainer(w)
    <3>1. /\ proxies' = [proxies EXCEPT ![w] = NewProxy] /\ socket' = w /\ ~fresh
          /\ alive' = TRUE /\ box' = [f \in File |-> 0] /\ fresh' = fresh /\ conn' = conn
      BY <2>2 DEF CreateContainer, GatewayInv, RulesOK
    <3>2. proxies \in [Worker -> Proxy]
      BY DEF GatewayInv, TurnTypeInv
    <3>3. proxies' \in [Worker -> Proxy]
          /\ \A v \in Worker : proxies'[v] = IF v = w THEN NewProxy ELSE proxies[v]
      BY <3>1, <3>2, NewProxyType
    <3>4. EntriesOK' /\ \A v \in Worker : Running(v) => Running(v)'
      BY <3>3, NewProxyType DEF EntriesOK, Running, GatewayInv
    <3>5. Running(w)'
      BY <3>3, NewProxyType DEF Running
    <3>. QED  BY <3>1, <3>3, <3>4, <3>5
  <2>. QED  BY <2>1, <2>2 DEF TurnBegins
<1>4. Fewer /\ Served' /\ conn' \in [Conn -> IdleRec \cup ClosedRec \cup Handler]
  BY <1>3, SameConn
<1>5. \A d \in Conn : ConnOK(conn[d])'
  BY <1>1, <1>2, <1>3, <1>4, FewerKeeps
<1>6. TurnTypeInv'
  BY <1>1, <1>3, <1>4 DEF GatewayInv, TurnTypeInv
<1>7. RulesOK'
  BY <1>1, <1>2, <1>3 DEF GatewayInv, RulesOK
<1>8. SkillsOK'
  BY <1>1 DEF SkillsOK, LoadedSkillsWhole
<1>. QED  BY <1>3, <1>5, <1>6, <1>7, <1>8 DEF GatewayInv

\* The proxy of the worker takes the rules of the turn, or there are none to
\* take, or there is no proxy.
LEMMA RulesTaken ==
    ASSUME GatewayInv, NEW servers \in SUBSET Server, RegisterRules(host, servers)
    PROVE  /\ proxies' \in [Worker -> Proxy] /\ EntriesOK'
           /\ \A v \in Worker : Running(v)' = Running(v)
           /\ Running(host) => \A s \in servers : proxies'[host].rules[s] = turn
<1>1. proxies \in [Worker -> Proxy] /\ host \in Worker /\ turn \in Nat
  BY DEF GatewayInv, TurnTypeInv
<1>2. CASE proxies' = proxies /\ (servers = {} \/ ~Running(host))
  BY <1>1, <1>2 DEF Running, EntriesOK, GatewayInv
<1>3. CASE servers # {} /\ Running(host)
  <2>. DEFINE x == [proxies[host] EXCEPT !.rules = NewRules(servers)]
  <2>1. proxies[host] \in Proxy /\ proxies[host].on
    BY <1>1, <1>3 DEF Running
  <2>2. NewRules(servers) \in [Server -> Nat] /\ \A s \in servers : NewRules(servers)[s] = turn
    BY <1>1 DEF NewRules, NoRule
  <2>3. x \in Proxy /\ x.on /\ x.dns = proxies[host].dns /\ x.rules = NewRules(servers)
    BY <2>1, <2>2 DEF Proxy
  <2>4. proxies' = [proxies EXCEPT ![host] = x]
    BY <1>3 DEF RegisterRules
  <2>. HIDE DEF x
  <2>5. proxies' \in [Worker -> Proxy]
        /\ \A v \in Worker : proxies'[v] = IF v = host THEN x ELSE proxies[v]
    BY <1>1, <2>3, <2>4
  <2>6. EntriesOK'
    BY <1>3, <2>3, <2>5 DEF EntriesOK, Running, GatewayInv
  <2>7. \A v \in Worker : Running(v)' = Running(v)
    <3>1. proxies[host].on = TRUE /\ x.on = TRUE
      BY <2>1, <2>3 DEF Proxy
    <3>. QED  BY <2>5, <3>1 DEF Running
  <2>8. \A s \in servers : proxies'[host].rules[s] = turn
    BY <1>1, <2>2, <2>3, <2>5
  <2>. QED  BY <2>5, <2>6, <2>7, <2>8
<1>. QED  BY <1>2, <1>3 DEF RegisterRules

LEMMA ConfigureKeeps ==
    ASSUME GatewayInv, NEW servers \in SUBSET Server, Configure(servers)
    PROVE  GatewayInv'
<1>1. /\ turn' = turn /\ host' = host /\ disk' = disk /\ synced' = synced /\ box' = box
      /\ alive' = alive /\ socket' = socket /\ conn' = conn
      /\ told' = [turn |-> turn, servers |-> servers]
      /\ fresh' = (Running(host) /\ socket = host) /\ todo' = disk
      /\ stage = "setup" /\ stage' = "syncing"
  BY DEF Configure
<1>2. /\ turn \in Nat /\ told.turn < turn /\ host \in Worker /\ told.turn \in Nat
      /\ "none" \notin Worker
  BY <1>1, GatewayAssumption DEF GatewayInv, RulesOK, TurnTypeInv
<1>3. /\ proxies' \in [Worker -> Proxy] /\ EntriesOK'
      /\ \A v \in Worker : Running(v)' = Running(v)
      /\ Running(host) => \A s \in servers : proxies'[host].rules[s] = turn
  BY RulesTaken DEF Configure
<1>4. Fewer /\ Served' /\ conn' \in [Conn -> IdleRec \cup ClosedRec \cup Handler]
  BY <1>1, <1>3, SameConn
<1>5. told'.turn = turn /\ told'.servers = servers /\ told' \in [turn : Nat, servers : SUBSET Server]
  BY <1>1, <1>2
<1>6. \A d \in Conn : ConnOK(conn[d])'
  BY <1>2, <1>4, <1>5, FewerKeeps
<1>7. TurnTypeInv'
  BY <1>1, <1>3, <1>4, <1>5 DEF GatewayInv, TurnTypeInv
<1>8. RulesOK'
  <2>1. socket # "none" => socket \in Worker /\ Running(socket)
    BY DEF GatewayInv, RulesOK
  <2>2. alive'
    BY <1>1 DEF GatewayInv, RulesOK
  <2>3. socket' # "none" => socket' \in Worker /\ Running(socket)'
    BY <1>1, <1>3, <2>1
  <2>4. fresh' => socket' # "none" /\ \A s \in told'.servers : proxies'[socket'].rules[s] = told'.turn
    BY <1>1, <1>2, <1>3, <1>5
  <2>. QED  BY <1>1, <1>2, <1>5, <2>2, <2>3, <2>4 DEF RulesOK
<1>9. SkillsOK'
  BY <1>1 DEF SkillsOK, LoadedSkillsWhole
<1>. QED  BY <1>3, <1>6, <1>7, <1>8, <1>9 DEF GatewayInv

\* Steps of the set-up and the end of a turn that touch no proxy.
LEMMA SetUpKeeps ==
    ASSUME GatewayInv, UNCHANGED <<proxyVars, conn, turn, host, told>>,
           stage' # "setup", stage' = "idle" \/ stage # "idle",
           disk' \subseteq File, todo' \subseteq File, synced' \in BOOLEAN,
           box' \in [File -> Int], SkillsOK'
    PROVE  GatewayInv'
<1>1. /\ turn' = turn /\ host' = host /\ told' = told /\ conn' = conn
      /\ alive' = alive /\ proxies' = proxies /\ socket' = socket /\ fresh' = fresh
  BY DEF proxyVars
<1>2. \A v \in Worker : Running(v)' = Running(v)
  BY <1>1 DEF Running
<1>3. Fewer /\ Served' /\ conn' \in [Conn -> IdleRec \cup ClosedRec \cup Handler]
  BY <1>1, <1>2, SameConn
<1>4. told.turn \in Nat
  BY DEF GatewayInv, TurnTypeInv
<1>5. \A d \in Conn : ConnOK(conn[d])'
  BY <1>1, <1>3, <1>4, FewerKeeps
<1>6. TurnTypeInv'
  BY <1>1, <1>3 DEF GatewayInv, TurnTypeInv
<1>7. RulesOK'
  BY <1>1, <1>2 DEF GatewayInv, RulesOK
<1>8. EntriesOK'
  BY <1>1 DEF GatewayInv, EntriesOK, Running
<1>. QED  BY <1>5, <1>6, <1>7, <1>8 DEF GatewayInv

LEMMA CopySkillKeeps ==
    ASSUME GatewayInv, NEW f \in File, CopySkill(f)
    PROVE  GatewayInv'
<1>1. turn \in Nat /\ disk \subseteq File /\ todo \subseteq File /\ synced \in BOOLEAN
      /\ box \in [File -> Int] /\ SkillsOK
  BY DEF GatewayInv, TurnTypeInv
<1>2. /\ stage = "syncing" /\ f \in todo /\ box' = [box EXCEPT ![f] = turn] /\ todo' = todo \ {f}
      /\ UNCHANGED <<turn, stage, host, told, disk, synced, proxyVars, conn>>
  BY DEF CopySkill
<1>3. SkillsOK'
  BY <1>1, <1>2 DEF SkillsOK, LoadedSkillsWhole
<1>. QED  BY <1>1, <1>2, <1>3, SetUpKeeps

LEMMA CopyFailsKeeps ==
    ASSUME GatewayInv, NEW f \in File, CopyFails(f)
    PROVE  GatewayInv'
<1>1. turn \in Nat /\ disk \subseteq File /\ box \in [File -> Int]
  BY DEF GatewayInv, TurnTypeInv
<1>2. /\ box' \in {box, [box EXCEPT ![f] = Part]}
      /\ todo' = {} /\ synced' = FALSE /\ stage = "syncing" /\ stage' = "running"
      /\ UNCHANGED <<turn, host, told, disk, proxyVars, conn>>
  BY DEF CopyFails
<1>3. box' \in [File -> Int]
  BY <1>1, <1>2 DEF Part
<1>4. SkillsOK'
  BY <1>2 DEF SkillsOK, LoadedSkillsWhole
<1>. QED  BY <1>1, <1>2, <1>3, <1>4, SetUpKeeps

LEMMA SkillsCopiedKeeps ==
    ASSUME GatewayInv, SkillsCopied
    PROVE  GatewayInv'
<1>1. disk \subseteq File /\ todo \subseteq File /\ box \in [File -> Int] /\ SkillsOK
  BY DEF GatewayInv, TurnTypeInv
<1>2. /\ stage = "syncing" /\ todo = {} /\ synced' = (disk # {}) /\ stage' = "running"
      /\ UNCHANGED <<turn, host, told, disk, todo, box, proxyVars, conn>>
  BY DEF SkillsCopied
<1>3. SkillsOK'
  BY <1>1, <1>2 DEF SkillsOK, LoadedSkillsWhole
<1>. QED  BY <1>1, <1>2, <1>3, SetUpKeeps

LEMMA TurnEndsKeeps ==
    ASSUME GatewayInv, TurnEnds
    PROVE  GatewayInv'
<1>1. /\ stage' = "idle" /\ disk' = {} /\ todo' = {} /\ synced' = FALSE
      /\ UNCHANGED <<turn, host, told, box, proxyVars, conn>>
  BY DEF TurnEnds, StreamEnds
<1>2. box \in [File -> Int]
  BY DEF GatewayInv, TurnTypeInv
<1>3. SkillsOK'
  BY <1>1 DEF SkillsOK, LoadedSkillsWhole
<1>. QED  BY <1>1, <1>2, <1>3, SetUpKeeps

LEMMA ContainerGoesKeeps ==
    ASSUME GatewayInv, ContainerGoes
    PROVE  GatewayInv'
<1>1. /\ alive' = FALSE /\ proxies' = [w \in Worker |-> NoProxy] /\ socket' = "none"
      /\ conn' = [c \in Conn |-> Idle] /\ fresh' = FALSE /\ stage = "idle"
      /\ UNCHANGED turnVars
  BY DEF ContainerGoes
<1>2. UNCHANGED <<turn, stage, host, told, disk, todo, synced, box>>
  BY <1>1 DEF turnVars
<1>3. proxies' \in [Worker -> Proxy] /\ \A w \in Worker : ~proxies'[w].on
  BY <1>1, NewProxyType
<1>4. Idle \in IdleRec /\ Idle.st = "idle" /\ Idle \notin Handler
  BY Shape DEF Idle, IdleRec
<1>5. Fewer /\ Served' /\ conn' \in [Conn -> IdleRec \cup ClosedRec \cup Handler]
  BY <1>1, <1>4 DEF Fewer, Served, LiveOK
<1>6. told.turn \in Nat
  BY DEF GatewayInv, TurnTypeInv
<1>7. \A d \in Conn : ConnOK(conn[d])'
  BY <1>1, <1>2, <1>5, <1>6, FewerKeeps
<1>8. TurnTypeInv'
  BY <1>1, <1>2, <1>3, <1>5 DEF GatewayInv, TurnTypeInv
<1>9. EntriesOK'
  BY <1>3 DEF EntriesOK, Running
<1>10. RulesOK'
  BY <1>1, <1>2 DEF GatewayInv, RulesOK
<1>11. SkillsOK'
  BY <1>2 DEF GatewayInv, SkillsOK, LoadedSkillsWhole
<1>. QED  BY <1>7, <1>8, <1>9, <1>10, <1>11 DEF GatewayInv

\* The end of a stream leaves nothing to promise about skills.
LEMMA StreamEndsKeeps ==
    ASSUME GatewayInv, UNCHANGED <<turn, box>>,
           StreamEnds \/ UNCHANGED <<stage, disk, todo, synced>>
    PROVE  /\ disk' \subseteq File /\ todo' \subseteq File /\ synced' \in BOOLEAN
           /\ SkillsOK'
           /\ stage' = "idle" \/ stage' = stage
<1>1. CASE StreamEnds
  BY <1>1 DEF StreamEnds, SkillsOK, LoadedSkillsWhole
<1>2. CASE UNCHANGED <<stage, disk, todo, synced>>
  BY <1>2 DEF GatewayInv, TurnTypeInv, SkillsOK, LoadedSkillsWhole
<1>. QED  BY <1>1, <1>2

LEMMA WorkerCrashesKeeps ==
    ASSUME GatewayInv, NEW w \in Worker, WorkerCrashes(w)
    PROVE  GatewayInv'
<1>1. /\ Running(w) /\ proxies' = [proxies EXCEPT ![w] = NoProxy]
      /\ socket' = (IF socket = w THEN "none" ELSE socket)
      /\ conn' = Reset(w) /\ fresh' = (fresh /\ socket # w)
      /\ StreamEnds \/ UNCHANGED <<stage, disk, todo, synced>>
      /\ UNCHANGED <<turn, host, told, box, alive>>
  BY DEF WorkerCrashes
<1>2. /\ proxies' \in [Worker -> Proxy]
      /\ \A v \in Worker : proxies'[v] = IF v = w THEN NoProxy ELSE proxies[v]
  BY <1>1, NewProxyType DEF GatewayInv, TurnTypeInv
<1>3. ~Running(w)' /\ \A v \in Worker \ {w} : Running(v)' = Running(v)
  BY <1>2, NewProxyType DEF Running
<1>4. \A d \in Conn : conn'[d] = IF Handled(d, w) THEN Idle ELSE conn[d]
  BY <1>1 DEF Reset
<1>5. Idle \in IdleRec /\ Idle.st = "idle" /\ Idle \notin Handler
  BY Shape DEF Idle, IdleRec
<1>6. Fewer
  BY <1>4 DEF Fewer
<1>7. Served'
  <2>. SUFFICES ASSUME NEW d \in Conn, conn'[d] \in Handler, conn'[d].live
                PROVE  Running(conn[d].by)'
    BY DEF Served, LiveOK
  <2>1. ~Handled(d, w) /\ conn'[d] = conn[d]
    BY <1>4, <1>5
  <2>2. conn[d].by \in Worker \ {w} /\ Running(conn[d].by)
    BY <2>1, Shape DEF Handled, GatewayInv, ConnOK, LiveOK
  <2>. QED  BY <1>3, <2>1, <2>2
<1>8. told.turn \in Nat
  BY DEF GatewayInv, TurnTypeInv
<1>9. \A d \in Conn : ConnOK(conn[d])'
  <2>1. fresh' => fresh /\ socket' = socket
    BY <1>1
  <2>. QED  BY <1>1, <1>6, <1>7, <1>8, <2>1, FewerKeeps
<1>10. /\ disk' \subseteq File /\ todo' \subseteq File /\ synced' \in BOOLEAN
       /\ SkillsOK' /\ (stage' = "idle" \/ stage' = stage)
  BY <1>1, StreamEndsKeeps
<1>11. TurnTypeInv'
  <2>1. conn' \in [Conn -> IdleRec \cup ClosedRec \cup Handler]
    BY <1>1, <1>6, FewerTypes DEF Reset
  <2>. QED  BY <1>1, <1>2, <1>10, <2>1 DEF GatewayInv, TurnTypeInv
<1>12. EntriesOK'
  BY <1>2, <1>3 DEF GatewayInv, EntriesOK
<1>13. RulesOK'
  <2>1. socket' # "none" => socket' \in Worker \ {w} /\ Running(socket)'
    BY <1>1, <1>3 DEF GatewayInv, RulesOK
  <2>2. fresh' => socket' # "none" /\ \A s \in told'.servers : proxies'[socket'].rules[s] = told'.turn
    BY <1>1, <1>2 DEF GatewayInv, RulesOK
  <2>. QED  BY <1>1, <1>10, <2>1, <2>2 DEF GatewayInv, RulesOK
<1>. QED  BY <1>9, <1>10, <1>11, <1>12, <1>13 DEF GatewayInv

LEMMA RestartProxyKeeps ==
    ASSUME GatewayInv, RestartProxy
    PROVE  GatewayInv'
<1>1. /\ proxies' = [proxies EXCEPT ![host] = NewProxy] /\ socket' = host
      /\ conn' = (IF Running(host) THEN Stopped(host) ELSE conn)
      /\ fresh' = FALSE /\ StreamEnds /\ stage = "running"
      /\ UNCHANGED <<turn, host, told, box, alive>>
  BY DEF RestartProxy
<1>2. host \in Worker /\ told.turn \in Nat /\ "none" \notin Worker
  BY GatewayAssumption DEF GatewayInv, TurnTypeInv
<1>3. /\ proxies' \in [Worker -> Proxy]
      /\ \A v \in Worker : proxies'[v] = IF v = host THEN NewProxy ELSE proxies[v]
  BY <1>1, <1>2, NewProxyType DEF GatewayInv, TurnTypeInv
<1>4. Running(host)' /\ \A v \in Worker : Running(v) => Running(v)'
  BY <1>1, <1>2, <1>3, NewProxyType DEF Running
<1>5. \A d \in Conn : \/ conn'[d] = conn[d]
                      \/ Handled(d, host) /\ conn'[d] = Hushed(conn[d])
  BY <1>1 DEF Stopped, Hushed
<1>6. \A d \in Conn : Handled(d, host) => conn[d] \in Handler
  BY Shape DEF Handled, GatewayInv, TurnTypeInv
<1>7. Fewer
  BY <1>5, <1>6 DEF Fewer
<1>8. Served'
  <2>. SUFFICES ASSUME NEW d \in Conn, conn'[d] \in Handler, conn'[d].live
                PROVE  Running(conn[d].by)'
    BY DEF Served, LiveOK
  <2>1. conn'[d] = conn[d]
    BY <1>5, <1>6, StoppedHandler
  <2>2. conn[d].by \in Worker /\ Running(conn[d].by)
    BY <2>1, Shape DEF GatewayInv, ConnOK, LiveOK
  <2>. QED  BY <1>4, <2>1, <2>2
<1>9. \A d \in Conn : ConnOK(conn[d])'
  BY <1>1, <1>2, <1>7, <1>8, FewerKeeps
<1>10. /\ disk' \subseteq File /\ todo' \subseteq File /\ synced' \in BOOLEAN
       /\ SkillsOK' /\ stage' = "idle"
  BY <1>1, StreamEndsKeeps DEF StreamEnds
<1>11. TurnTypeInv'
  <2>1. conn' \in [Conn -> IdleRec \cup ClosedRec \cup Handler]
    BY <1>1, <1>7, FewerTypes DEF Stopped, GatewayInv, TurnTypeInv
  <2>. QED  BY <1>1, <1>3, <1>10, <2>1 DEF GatewayInv, TurnTypeInv
<1>12. EntriesOK'
  BY <1>3, NewProxyType DEF GatewayInv, EntriesOK, Running
<1>13. RulesOK'
  <2>1. alive
    BY <1>1 DEF GatewayInv, RulesOK
  <2>. QED  BY <1>1, <1>2, <1>4, <1>10, <2>1 DEF GatewayInv, RulesOK
<1>. QED  BY <1>9, <1>10, <1>11, <1>12, <1>13 DEF GatewayInv

\* A tick ages answers that are on their way, and entries.
LEMMA TickConn ==
    ASSUME GatewayInv, Tick, NEW d \in Conn
    PROVE  /\ conn'[d] \in IdleRec \cup ClosedRec \cup Handler
           /\ ConnOK(conn'[d])
<1>1. ConnOK(conn[d])
  BY DEF GatewayInv
<1>2. CASE conn[d].st # "resolved"
  BY <1>1, <1>2 DEF Tick, ConnOK
<1>3. CASE conn[d].st = "resolved"
  <2>. DEFINE r == [conn[d] EXCEPT !.age = Older(@)]
  <2>1. conn[d] \in FoundRec /\ conn[d].age < Lag /\ LiveOK(conn[d]) /\ conn[d] \in Handler
    BY <1>1, <1>3, Shape DEF ConnOK, Tick
  <2>2. conn[d].age \in Nat /\ Older(conn[d].age) = conn[d].age + 1
    BY <2>1, GatewayAssumption DEF FoundRec, Older
  <2>3. r \in FoundRec /\ r.st = "resolved" /\ r.age = conn[d].age + 1
        /\ r.live = conn[d].live /\ r.by = conn[d].by
    BY <1>3, <2>1, <2>2 DEF FoundRec
  <2>4. conn'[d] = r
    BY <1>3 DEF Tick
  <2>. HIDE DEF r
  <2>5. r \in Handler /\ r \notin CallRec
    BY <2>3 DEF Handler, CallRec
  <2>6. ConnOK(r)
    BY <2>1, <2>2, <2>3, <2>5, GatewayAssumption DEF ConnOK, LiveOK, AgeOK, EndOK, CallOK
  <2>. QED  BY <2>4, <2>5, <2>6
<1>. QED  BY <1>2, <1>3

LEMMA TickEntry ==
    ASSUME GatewayInv, Tick, NEW w \in Worker
    PROVE  /\ proxies'[w] \in Proxy
           /\ proxies'[w].on = proxies[w].on
           /\ Running(w) => proxies'[w].rules = proxies[w].rules
           /\ proxies'[w].on /\ proxies'[w].dns.left > 0
                => proxies'[w].dns.age + proxies'[w].dns.left <= TTL + Lag
<1>. DEFINE x == proxies[w]
<1>1. x \in Proxy
  BY DEF GatewayInv, TurnTypeInv
<1>2. x.on /\ x.dns.left > 0 => x.dns.age + x.dns.left <= TTL + Lag
  BY DEF GatewayInv, EntriesOK, Running
<1>3. proxies'[w] = IF ~x.on \/ x.dns.left = 0 THEN x
                    ELSE IF x.dns.left = 1 THEN [x EXCEPT !.dns = NoEntry]
                    ELSE [x EXCEPT !.dns = [age |-> Older(@.age), left |-> @.left - 1]]
  BY DEF Tick, Running
<1>. HIDE DEF x
<1>4. CASE ~x.on \/ x.dns.left = 0
  BY <1>1, <1>2, <1>3, <1>4 DEF x
<1>5. CASE x.on /\ x.dns.left # 0
  <2>. DEFINE e == IF x.dns.left = 1 THEN NoEntry
                   ELSE [age |-> Older(x.dns.age), left |-> x.dns.left - 1]
  <2>1. x.rules \in [Server -> Nat] /\ x.dns \in [age : Nat, left : Nat]
    BY <1>1, <1>5, RunningProxy
  <2>2. x.dns.age \in Nat /\ x.dns.left \in Nat /\ x.dns.left > 0
    BY <1>5, <2>1
  <2>3. Older(x.dns.age) \in Nat /\ Older(x.dns.age) <= x.dns.age + 1
    BY <2>2 DEF Older
  <2>4. e \in [age : Nat, left : Nat] /\ (e.left > 0 => e.age + e.left <= TTL + Lag)
    BY <1>2, <1>5, <2>2, <2>3, GatewayAssumption DEF NoEntry
  <2>5. proxies'[w] = [x EXCEPT !.dns = e]
    BY <1>3, <1>5
  <2>. HIDE DEF e
  <2>6. /\ [x EXCEPT !.dns = e] \in Proxy
        /\ [x EXCEPT !.dns = e].on = x.on
        /\ [x EXCEPT !.dns = e].rules = x.rules
        /\ [x EXCEPT !.dns = e].dns = e
    BY <1>1, <1>5, <2>4 DEF Proxy
  <2>. QED  BY <2>4, <2>5, <2>6 DEF x
<1>. QED  BY <1>4, <1>5

LEMMA TickKeeps ==
    ASSUME GatewayInv, Tick
    PROVE  GatewayInv'
<1>1. Quiet /\ DOMAIN proxies' = Worker /\ DOMAIN conn' = Conn
      /\ proxies' = [w \in Worker |-> proxies'[w]] /\ conn' = [c \in Conn |-> conn'[c]]
  BY DEF Tick, Quiet
<1>2. proxies' \in [Worker -> Proxy] /\ conn' \in [Conn -> IdleRec \cup ClosedRec \cup Handler]
  BY <1>1, TickEntry, TickConn
<1>3. \A w \in Worker : Running(w)' = Running(w) /\ (Running(w) => proxies'[w].rules = proxies[w].rules)
  BY TickEntry DEF Running
<1>4. EntriesOK'
  BY TickEntry DEF EntriesOK, Running
<1>5. ASSUME NEW d \in Conn  PROVE ConnOK(conn[d])'
  <2>1. ConnOK(conn'[d])
    BY TickConn
  <2>2. conn'[d] \in Handler => conn'[d].by \in Worker
    BY <2>1, Shape DEF ConnOK
  <2>. QED  BY <1>1, <1>3, <2>1, <2>2 DEF ConnOK, LiveOK, AgeOK, EndOK, CallOK, Quiet, turnVars
<1>6. TurnTypeInv'
  BY <1>1, <1>2 DEF GatewayInv, TurnTypeInv, Quiet, turnVars
<1>7. RulesOK'
  BY <1>1, <1>3 DEF GatewayInv, RulesOK, Quiet, turnVars
<1>8. SkillsOK'
  BY <1>1 DEF GatewayInv, SkillsOK, LoadedSkillsWhole, Quiet, turnVars
<1>. QED  BY <1>4, <1>5, <1>6, <1>7, <1>8 DEF GatewayInv

-----------------------------------------------------------------------------
(* The theorems *)

LEMMA StepInv == GatewayInv /\ [Next]_vars => GatewayInv'
<1>. SUFFICES ASSUME GatewayInv, [Next]_vars PROVE GatewayInv'
  OBVIOUS
<1>1. ASSUME NEW w \in Worker, NEW files \in SUBSET File, TurnBegins(w, files)
      PROVE  GatewayInv'
  BY <1>1, TurnBeginsKeeps
<1>2. ASSUME NEW servers \in Configurable, Configure(servers)  PROVE GatewayInv'
  BY <1>2, ConfigureKeeps DEF Configurable
<1>3. ASSUME NEW f \in File, CopySkill(f) \/ CopyFails(f)  PROVE GatewayInv'
  BY <1>3, CopySkillKeeps, CopyFailsKeeps
<1>4. CASE SkillsCopied \/ TurnEnds \/ RestartProxy \/ ContainerGoes
  BY <1>4, SkillsCopiedKeeps, TurnEndsKeeps, RestartProxyKeeps, ContainerGoesKeeps
<1>5. ASSUME NEW w \in Worker, WorkerCrashes(w)  PROVE GatewayInv'
  BY <1>5, WorkerCrashesKeeps
<1>6. ASSUME NEW c \in Conn, Handles(c)  PROVE GatewayInv'
  BY <1>6, HandlesEffect, EffectKeeps
<1>7. CASE Tick
  BY <1>7, TickKeeps
<1>8. CASE UNCHANGED vars
  <2>1. UNCHANGED <<proxyVars, conn, turn, host, told, stage, disk, todo, synced, box>>
    BY <1>8 DEF vars, turnVars
  <2>2. UNCHANGED <<alive, proxies, socket, fresh>>
    BY <2>1 DEF proxyVars
  <2>3. Fewer /\ Served' /\ conn' \in [Conn -> IdleRec \cup ClosedRec \cup Handler]
    BY <2>1, <2>2, SameConn DEF Running
  <2>4. \A d \in Conn : ConnOK(conn[d])'
    BY <2>1, <2>2, <2>3, FewerKeeps DEF GatewayInv, TurnTypeInv
  <2>5. TurnTypeInv'
    BY <2>1, <2>2 DEF GatewayInv, TurnTypeInv
  <2>6. EntriesOK' /\ RulesOK' /\ SkillsOK'
    BY <2>1, <2>2 DEF GatewayInv, EntriesOK, RulesOK, SkillsOK, LoadedSkillsWhole, Running
  <2>. QED  BY <2>4, <2>5, <2>6 DEF GatewayInv
<1>. QED  BY <1>1, <1>2, <1>3, <1>4, <1>5, <1>6, <1>7, <1>8 DEF Next

LEMMA GatewayAlways == Spec => []GatewayInv
BY InitInv, StepInv, PTL DEF Spec

\* However turns, restarts of the proxy and crashes of workers follow each
\* other, a call of this turn's agent that the turn's proxy reads finds the
\* rules of this turn: RegisterRules replaces every rule there was, and a call
\* for the proxy that took them came in after they were taken.
THEOREM GatewayRulesOfTheTurn == Spec => []RulesOfTheTurn
<1>1. GatewayInv => RulesOfTheTurn
  <2>. SUFFICES ASSUME GatewayInv, fresh, NEW c \in Conn,
                       At(c, "read", "mcp"), conn[c].live, conn[c].turn = told.turn
                PROVE  Rule(c) = told.turn
    BY DEF RulesOfTheTurn
  <2>1. conn[c] \in CallRec /\ CallOK(conn[c])
    BY Shape DEF GatewayInv, ConnOK, At
  <2>2. conn[c].by = socket /\ conn[c].call.server \in told.servers
    BY <2>1 DEF CallOK, At
  <2>. QED  BY <2>2 DEF Rule, GatewayInv, RulesOK
<1>. QED  BY <1>1, GatewayAlways, PTL

\* An agent that was given setting sources finds every skill file of the host
\* in its container, whole and in the version of its turn, though copying may
\* fail anywhere and earlier turns left what they left.
THEOREM GatewayLoadedSkillsWhole == Spec => []LoadedSkillsWhole
<1>1. GatewayInv => LoadedSkillsWhole
  BY DEF GatewayInv, SkillsOK
<1>. QED  BY <1>1, GatewayAlways, PTL

\* A chunked answer of Bedrock has its last chunk only after its last piece,
\* so a client never takes a broken one for a whole one.
THEOREM GatewayBrokenStreamSeen == Spec => []BrokenStreamSeen
<1>1. GatewayInv => BrokenStreamSeen
  BY DEF GatewayInv, ConnOK, EndOK, BrokenStreamSeen, TakenForWhole
<1>. QED  BY <1>1, GatewayAlways, PTL

\* No tunnel goes to an address that is TTL and the way of its answer old: an
\* entry leaves the cache before its age and what is left of it exceed both.
THEOREM GatewayAddressFresh == Spec => []AddressFresh
<1>1. GatewayInv => AddressFresh
  BY DEF GatewayInv, ConnOK, AgeOK, AddressFresh
<1>. QED  BY <1>1, GatewayAlways, PTL

=============================================================================
