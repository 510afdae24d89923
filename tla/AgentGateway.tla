---------------------------- MODULE AgentGateway ----------------------------
(***************************************************************************)
(* What stands between the agent of one conversation and the world: the    *)
(* set-up of a turn on the host (ExecuteService._stream_from_container up  *)
(* to the call of the container) and the CredentialInjectionProxy that     *)
(* listens on the container's proxy socket.                                *)
(*                                                                         *)
(* The container outlives turns, and the turns of a conversation are run   *)
(* by any worker process.  Every worker keeps the proxies it started       *)
(* (ContainerOrchestrator._proxies); the socket leads to the proxy that    *)
(* was bound to it last.  Turns do not overlap: ConversationTurn is about  *)
(* the lock that sees to it.                                               *)
(*                                                                         *)
(* The headers of a rule are those _resolve_headers() makes of the         *)
(* templates and the tokens of one turn: a rule is the number of the turn  *)
(* that registered it.  Signing and the texts of answers are left out.     *)
(***************************************************************************)
EXTENDS Integers, FiniteSets, FiniteSetsExt

CONSTANTS
    Worker,    \* worker processes of the host
    Server,    \* MCP servers of the tenant
    File,      \* files of the tenant's skills
    Conn,      \* connections to the proxy socket
    TTL,       \* DEFAULT_TTL_SECONDS of the DNS cache, in ticks
    Lag,       \* longest way of a DNS answer from the resolver to the proxy
    ErrorText, \* length of the 502 or 504 answer, in units of MaxBody
    MaxBody,   \* bound: length of an answer of Bedrock
    MaxTurns   \* bound: turns of the conversation

ASSUME GatewayAssumption ==
    /\ TTL \in Nat \ {0} /\ Lag \in Nat /\ ErrorText \in Nat
    /\ MaxBody \in Nat /\ MaxTurns \in Nat
    /\ "none" \notin Worker

VARIABLES
    turn,    \* number of the latest turn
    stage,   \* what _stream_from_container() of that turn does
    host,    \* worker that runs it
    told,    \* MCP servers the agent was told of, and the turn that told it
    disk,    \* skill files of the tenant on the host, when the turn began
    todo,    \* skill files the turn has not copied yet
    synced,  \* skills_synced
    alive,   \* the conversation has a container
    box,     \* /workspace/.claude/skills of the container
    proxies, \* _proxies of each worker, for this container
    socket,  \* worker whose proxy is bound to the socket
    fresh,   \* history: the rules of the turn are where its agent calls
    conn     \* the connections and their handlers

turnVars == <<turn, stage, host, told, disk, todo, synced, box>>
proxyVars == <<alive, proxies, socket, fresh>>
vars == <<turnVars, proxyVars, conn>>

NoRule == 0
NoEntry == [age |-> 0, left |-> 0]
NoProxy == [on |-> FALSE]
NewProxy == [on |-> TRUE, rules |-> [s \in Server |-> NoRule], dns |-> NoEntry]
Idle == [st |-> "idle"]
Running(w) == proxies[w].on

Init ==
    /\ turn = 0 /\ stage = "idle" /\ host \in Worker /\ told = [turn |-> 0, servers |-> {}]
    /\ disk = {} /\ todo = {} /\ synced = FALSE
    /\ alive = FALSE /\ box = [f \in File |-> 0]
    /\ proxies = [w \in Worker |-> NoProxy]
    /\ socket = "none" /\ fresh = FALSE
    /\ conn = [c \in Conn |-> Idle]
-----------------------------------------------------------------------------
(* Proxies.                                                                 *)

Handled(c, w) == conn[c].st \notin {"idle", "closed"} /\ conn[c].by = w

\* The handlers of a stopped proxy go on: stop() empties its rules and closes
\* its HTTP client under them, and its socket takes no new connection.
Stopped(w) ==
    [c \in Conn |-> IF Handled(c, w) THEN [conn[c] EXCEPT !.live = FALSE] ELSE conn[c]]

\* A process that is gone resets its connections.
Reset(w) == [c \in Conn |-> IF Handled(c, w) THEN Idle ELSE conn[c]]

\* The rules of the turn replace all others.
NewRules(servers) == [s \in Server |-> IF s \in servers THEN turn ELSE NoRule]

\* update_mcp_header_rules(): with no server to register nothing is done, and
\* with no proxy of the container in this worker only a warning is logged.
\* Mutant: rules of servers that are known already are kept.
RegisterMissing(w, servers) ==
    IF servers = {} \/ ~Running(w) THEN UNCHANGED proxies
    ELSE proxies' = [proxies EXCEPT ![w].rules =
             [s \in Server |-> IF @[s] # NoRule THEN @[s]
                               ELSE IF s \in servers THEN turn ELSE NoRule]]
RegisterRules(w, servers) ==
    IF servers = {} \/ ~Running(w) THEN UNCHANGED proxies
    ELSE proxies' = [proxies EXCEPT ![w].rules = NewRules(servers)]

\* get_or_create(): the container on record, with whatever proxy it has; or a
\* new one, with a proxy in this worker.
ReuseContainer == alive /\ UNCHANGED <<box, proxyVars, conn>>
CreateContainer(w) ==
    /\ ~alive
    /\ alive' = TRUE
    /\ box' = [f \in File |-> 0]
    /\ proxies' = [proxies EXCEPT ![w] = NewProxy]
    /\ socket' = w
    /\ UNCHANGED <<fresh, conn>>

\* Between turns the container is collected, evicted or dies.  Proxies that
\* other workers keep for it serve nobody any more.
ContainerGoes ==
    /\ alive /\ stage = "idle"
    /\ alive' = FALSE
    /\ proxies' = [w \in Worker |-> NoProxy]
    /\ socket' = "none"
    /\ conn' = [c \in Conn |-> Idle]
    /\ fresh' = FALSE
    /\ UNCHANGED turnVars

\* What _stream_from_container() kept is gone with it.
StreamEnds == stage' = "idle" /\ disk' = {} /\ todo' = {} /\ synced' = FALSE

WorkerCrashes(w) ==
    /\ Running(w)
    /\ proxies' = [proxies EXCEPT ![w] = NoProxy]
    /\ socket' = IF socket = w THEN "none" ELSE socket
    /\ conn' = Reset(w)
    /\ fresh' = (fresh /\ socket # w)
    /\ IF host = w THEN StreamEnds ELSE UNCHANGED <<stage, disk, todo, synced>>
    /\ UNCHANGED <<turn, host, told, box, alive>>

\* execute() on a ConnectionError: _restart_proxy() in the worker of the turn,
\* without the rules of the turn, whose stream then ends.
RestartProxy ==
    /\ stage = "running"
    /\ proxies' = [proxies EXCEPT ![host] = NewProxy]
    /\ socket' = host
    /\ conn' = IF Running(host) THEN Stopped(host) ELSE conn
    /\ fresh' = FALSE
    /\ StreamEnds
    /\ UNCHANGED <<turn, host, told, box, alive>>
-----------------------------------------------------------------------------
(* The set-up of a turn.                                                    *)

TurnBegins(w, files) ==
    /\ stage = "idle" /\ turn < MaxTurns
    /\ turn' = turn + 1
    /\ host' = w
    /\ disk' = files
    /\ stage' = "setup"
    /\ ReuseContainer \/ CreateContainer(w)
    /\ UNCHANGED <<told, todo, synced>>

\* _build_mcp_server_configs(): the active servers with a specification and a
\* base URL, none if the database could not be read.
Configurable == SUBSET Server

\* _extract_mcp_headers_to_proxy()
Configure(servers) ==
    /\ stage = "setup"
    /\ told' = [turn |-> turn, servers |-> servers]
    /\ RegisterRules(host, servers)
    /\ fresh' = (Running(host) /\ socket = host)
    /\ todo' = disk
    /\ stage' = "syncing"
    /\ UNCHANGED <<turn, host, disk, synced, box, alive, socket, conn>>

\* _write_skill_to_container(): the file goes over in chunks, is put together
\* beside its place and decoded into it.  A chunk that fails leaves the old
\* file, a decoding that fails a part of the new one.
CopySkill(f) ==
    /\ stage = "syncing" /\ f \in todo
    /\ box' = [box EXCEPT ![f] = turn]
    /\ todo' = todo \ {f}
    /\ UNCHANGED <<turn, stage, host, told, disk, synced, proxyVars, conn>>

Part == -1
\* Mutant: the exit code of the decoding is not looked at.
CopyFailsUnseen(f) ==
    /\ stage = "syncing" /\ f \in todo
    /\ box' \in {box, [box EXCEPT ![f] = Part]}
    /\ IF box' = box
       THEN todo' = {} /\ synced' = FALSE /\ stage' = "running"
       ELSE todo' = todo \ {f} /\ UNCHANGED <<synced, stage>>
    /\ UNCHANGED <<turn, host, told, disk, proxyVars, conn>>
CopyFails(f) ==
    /\ stage = "syncing" /\ f \in todo
    /\ box' \in {box, [box EXCEPT ![f] = Part]}
    /\ todo' = {} /\ synced' = FALSE /\ stage' = "running"
    /\ UNCHANGED <<turn, host, told, disk, proxyVars, conn>>

\* All are copied.  The agent loads skills (setting_sources) when there were
\* any.
SkillsCopied ==
    /\ stage = "syncing" /\ todo = {}
    /\ synced' = (disk # {})
    /\ stage' = "running"
    /\ UNCHANGED <<turn, host, told, disk, todo, box, proxyVars, conn>>

\* The stream of the turn ends, normally or not; its agent may go on calling
\* until it notices.
TurnEnds ==
    /\ stage # "idle"
    /\ StreamEnds
    /\ UNCHANGED <<turn, host, told, box, proxyVars, conn>>
-----------------------------------------------------------------------------
(* Connections.                                                             *)

Become(c, r) == conn' = [conn EXCEPT ![c] = r] /\ UNCHANGED <<turnVars, proxyVars>>

\* A request that the proxy reads: a call of an MCP tool, a relative path for
\* Bedrock, an absolute URL, or CONNECT.
ToolCalls == {[kind |-> "mcp", server |-> s] : s \in told.servers}
Calls == ToolCalls \cup {[kind |-> k] : k \in {"bedrock", "forward", "connect"}}
Request(c, call) ==
    /\ conn[c] = Idle /\ socket # "none"
    /\ stage \in {"running", "idle"}
    /\ Become(c, [st |-> "read", live |-> TRUE, by |-> socket, call |-> call,
                  turn |-> IF call.kind = "mcp" THEN told.turn ELSE 0,
                  headers |-> NoRule])

\* A request line or Content-Length that cannot be read, or a client that is
\* gone: the connection is closed without an answer.
Dropped(c) == conn[c].st \notin {"idle", "closed"} /\ Become(c, Idle)

Asked(c) == [conn[c] EXCEPT !.st = "asked"]

\* An answer as it was written: announced and written length, how its end is
\* announced, and whether the text of an error follows it.
Closed(c, frame, n, k, tail) ==
    Become(c, [st |-> "closed", frame |-> frame, n |-> n, k |-> k,
               tail |-> tail])
Fails(c) == Closed(c, "length", ErrorText, ErrorText, "none")

At(c, st, kind) == conn[c].st = st /\ conn[c].call.kind = kind

\* _handle_mcp_reverse_proxy(): the rules are looked up once the request is
\* read.
Rule(c) == IF conn[c].live THEN proxies[conn[c].by].rules[conn[c].call.server] ELSE NoRule
McpUnknown(c) == At(c, "read", "mcp") /\ Rule(c) = NoRule /\ Fails(c)
McpAsks(c) ==
    /\ At(c, "read", "mcp") /\ Rule(c) # NoRule
    /\ Become(c, [Asked(c) EXCEPT !.headers = Rule(c)])

\* The body is read in full before it is answered; its length plays no part.
McpAnswers(c) ==
    /\ At(c, "asked", "mcp") /\ conn[c].live
    /\ Closed(c, "length", MaxBody, MaxBody, "none")

BedrockAsks(c) == At(c, "read", "bedrock") /\ Become(c, Asked(c))

\* handle_request() of an absolute URL.
ForwardRefused(c) == At(c, "read", "forward") /\ Fails(c)
ForwardAsks(c) == At(c, "read", "forward") /\ Become(c, Asked(c))

\* The headers of the answer are passed on, Transfer-Encoding among them, and
\* a Content-Length is added.
ForwardAnswers(c) ==
    /\ At(c, "asked", "forward") /\ conn[c].live
    /\ \E frame \in {"length", "both"} : Closed(c, frame, MaxBody, MaxBody, "none")

\* Time-out (504) or another exception (502) before anything is written.
AskFails(c) == conn[c].st = "asked" /\ Fails(c)

\* _handle_bedrock_reverse_proxy(): the head goes out, then the body, piece by
\* piece.
BedrockHead(c) ==
    /\ At(c, "asked", "bedrock") /\ conn[c].live
    /\ \E n \in 0..MaxBody, frame \in {"length", "chunked"} :
           Become(c, [st |-> "stream", live |-> TRUE, by |-> conn[c].by,
                      frame |-> frame, n |-> n, k |-> 0])
BedrockPiece(c) ==
    /\ conn[c].st = "stream" /\ conn[c].live /\ conn[c].k < conn[c].n
    /\ Become(c, [conn[c] EXCEPT !.k = @ + 1])
BedrockEnds(c) ==
    /\ conn[c].st = "stream" /\ conn[c].live /\ conn[c].k = conn[c].n
    /\ Closed(c, conn[c].frame, conn[c].n, conn[c].k, "end")

\* A time-out or an exception after the head: a whole second answer is written
\* behind what went out.
\* Mutant: the last chunk is written whatever happened.
BedrockBreaksEnded(c) ==
    /\ conn[c].st = "stream" /\ (conn[c].k < conn[c].n \/ ~conn[c].live)
    /\ Closed(c, conn[c].frame, conn[c].n, conn[c].k, "end")
BedrockBreaks(c) ==
    /\ conn[c].st = "stream" /\ (conn[c].k < conn[c].n \/ ~conn[c].live)
    /\ Closed(c, conn[c].frame, conn[c].n, conn[c].k, "error")

\* _handle_connect(): a refusal announces a byte more than it has.  Otherwise
\* the client has its 200 before the name is looked up.
ConnectRefused(c) ==
    /\ At(c, "read", "connect")
    /\ Closed(c, "length", ErrorText + 1, ErrorText, "none")

Tunnel(c, age) == [st |-> "tunnel", live |-> conn[c].live, by |-> conn[c].by, age |-> age]
\* (The entries of a stopped proxy are left out: its handlers look up anew.)
Entry(c) == IF conn[c].live THEN proxies[conn[c].by].dns ELSE NoEntry

\* DNSCache.resolve(): the entry, as long as it has not expired; or an answer
\* of the resolver, which replaces whatever entry there is by then.
\* Mutant: an entry that is used lives on for another TTL.
CachedSliding(c) ==
    /\ At(c, "read", "connect") /\ Entry(c).left > 0
    /\ conn' = [conn EXCEPT ![c] = Tunnel(c, Entry(c).age)]
    /\ proxies' = [proxies EXCEPT ![conn[c].by].dns.left = TTL]
    /\ UNCHANGED <<turnVars, alive, socket, fresh>>
Cached(c) ==
    /\ At(c, "read", "connect") /\ Entry(c).left > 0
    /\ Become(c, Tunnel(c, Entry(c).age))
LookUp(c) ==
    /\ At(c, "read", "connect") /\ Entry(c).left = 0
    /\ Become(c, [st |-> "lookup", live |-> conn[c].live, by |-> conn[c].by])
ResolverAnswers(c) ==
    /\ conn[c].st = "lookup"
    /\ Become(c, [st |-> "resolved", live |-> conn[c].live, by |-> conn[c].by, age |-> 0])
Resolved(c) ==
    /\ conn[c].st = "resolved"
    /\ conn' = [conn EXCEPT ![c] = Tunnel(c, conn[c].age)]
    /\ proxies' = IF conn[c].live
                  THEN [proxies EXCEPT ![conn[c].by].dns = [age |-> conn[c].age, left |-> TTL]]
                  ELSE proxies
    /\ UNCHANGED <<turnVars, alive, socket, fresh>>

\* Time passes for the entries and for answers on their way.  Ages stop at the
\* first that no address may have.
Older(age) == IF age < TTL + Lag THEN age + 1 ELSE age
Tick ==
    /\ \A c \in Conn : conn[c].st = "resolved" => conn[c].age < Lag
    /\ conn' = [c \in Conn |-> IF conn[c].st = "resolved"
                               THEN [conn[c] EXCEPT !.age = Older(@)] ELSE conn[c]]
    /\ proxies' = [w \in Worker |->
           IF ~Running(w) \/ proxies[w].dns.left = 0 THEN proxies[w]
           ELSE IF proxies[w].dns.left = 1 THEN [proxies[w] EXCEPT !.dns = NoEntry]
           ELSE [proxies[w] EXCEPT !.dns = [age |-> Older(@.age), left |-> @.left - 1]]]
    /\ UNCHANGED <<turnVars, alive, socket, fresh>>

\* The client has read its answer to the end of the connection.
Fetched(c) == conn[c].st = "closed" /\ Become(c, Idle)

Handles(c) ==
    \/ \E call \in Calls : Request(c, call)
    \/ Dropped(c) \/ Fetched(c)
    \/ McpUnknown(c) \/ McpAsks(c) \/ McpAnswers(c)
    \/ ForwardRefused(c) \/ ForwardAsks(c) \/ ForwardAnswers(c)
    \/ BedrockAsks(c) \/ BedrockHead(c) \/ BedrockPiece(c) \/ BedrockEnds(c) \/ BedrockBreaks(c)
    \/ AskFails(c)
    \/ ConnectRefused(c) \/ Cached(c) \/ LookUp(c) \/ ResolverAnswers(c) \/ Resolved(c)

Next ==
    \/ \E w \in Worker : \E files \in SUBSET File : TurnBegins(w, files)
    \/ \E servers \in Configurable : Configure(servers)
    \/ \E f \in File : CopySkill(f) \/ CopyFails(f)
    \/ SkillsCopied \/ TurnEnds \/ RestartProxy \/ ContainerGoes
    \/ \E w \in Worker : WorkerCrashes(w)
    \/ \E c \in Conn : Handles(c)
    \/ Tick

Spec == Init /\ [][Next]_vars
-----------------------------------------------------------------------------
(* What an HTTP client makes of an answer.                                  *)

Text(r) == IF r.tail = "error" THEN r.k + ErrorText ELSE r.k
TakenForWhole(r) ==
    \/ r.frame = "length" /\ Text(r) >= r.n
    \/ r.frame = "chunked" /\ r.tail = "end"

(* The calls of a turn's agent find the rules its set-up registered: never  *)
(* those of an earlier turn and never none, as long as the socket leads to  *)
(* the proxy that the worker of the turn had when it registered them        *)
(* (RegisterRules replaces the rules of every turn before).                 *)
RulesOfTheTurn ==
    fresh => \A c \in Conn :
        At(c, "read", "mcp") /\ conn[c].live /\ conn[c].turn = told.turn => Rule(c) = told.turn

(* Setting sources are given to the agent only when every skill file of the *)
(* host is in the container, whole and in the version of this turn.         *)
LoadedSkillsWhole ==
    stage = "running" /\ synced => disk # {} /\ \A f \in disk : box[f] = turn

(* An answer of Bedrock that breaks off under chunked encoding is never     *)
(* taken for a whole one, though a second status line is written behind it. *)
BrokenStreamSeen ==
    \A c \in Conn : conn[c].st = "closed" =>
        (conn[c].frame = "chunked" /\ TakenForWhole(conn[c]) => conn[c].k = conn[c].n)

(* A tunnel goes to an address the resolver gave less than the TTL and the  *)
(* way of its answer ago, however lookups of the same name overtake.        *)
AddressFresh == \A c \in Conn : conn[c].st = "tunnel" => conn[c].age < TTL + Lag

=============================================================================
