---------------------------- MODULE EventStream ----------------------------
(***************************************************************************)
(* The events of one turn, from the messages of the agent SDK in the       *)
(* container (workspace_agent/sdk_client.py) over the agent socket to      *)
(* ExecuteService, which cuts the bytes into frames, translates, numbers   *)
(* and relays them (app/services/execute_service.py,                       *)
(* app/utils/streaming.py), and what it keeps of them afterwards.          *)
(*                                                                         *)
(* A frame on the wire is 'event: <type> / data: <json>' and a blank line. *)
(* Its bytes are three pieces: a part of the event line, then up to the    *)
(* middle of a multi-byte character of the data line, then the rest.  A    *)
(* chunk may end after any piece.                                          *)
(***************************************************************************)
EXTENDS Integers, SequencesExt, FiniteSets

CONSTANTS
    ToolUse,      \* tool_use ids
    NameOf,       \* NameOf[u]: name of the tool called
    Outside,      \* tool uses whose file_path is absolute, not in /workspace/
    RawUsage,     \* usage of a ResultMessage, as the SDK reports it
    Window,       \* context_window of the model, in tokens
    StartTokens,  \* estimated_context_tokens before the turn
    MaxMessages   \* bound: messages of the SDK before its result

ASSUME StreamAssumption ==
    /\ DOMAIN NameOf = ToolUse /\ Outside \subseteq ToolUse
    /\ IsFiniteSet(ToolUse) /\ \A raw \in RawUsage : \A f \in DOMAIN raw : raw[f] \in Nat
    /\ Window \in Nat /\ StartTokens \subseteq Nat /\ MaxMessages \in Nat

VARIABLES
    agent,    \* the SDK run in the container
    names,    \* tool_name_map: tool uses registered so far
    open,     \* tool uses without a result
    messages, \* number of SDK messages
    emitted,  \* history: frames the agent has written
    wire,     \* frames written and not yet parsed
    got,      \* pieces of "wire" in the buffer of the host
    split,    \* a chunk ended inside the character of the first frame
    broken,   \* history: the container died inside a frame that was read
    host,     \* what execute_streaming() does
    seq,      \* SequenceCounter
    sent,     \* events queued for the client, in order
    doneData, \* done_data
    external, \* external_file_paths
    replaced, \* the container was replaced while streaming
    copied,   \* files copied to /workspace/_external
    missed,   \* files whose copy failed
    events,   \* assistant_events
    draft,    \* what the session sees: message, usage log, conversation
    stored    \* what is committed

agentVars == <<agent, names, open, messages, emitted>>
wireVars == <<wire, got, split, broken>>
fileVars == <<external, replaced, copied, missed>>
dbVars == <<events, draft, stored>>
vars == <<agentVars, wireVars, host, seq, sent, doneData, fileVars, dbVars>>

Pieces == 3
InEventLine == 1   \* the buffer ends in the event line of a frame
InCharacter == 2   \* ... between two bytes of a character of its data line
None == [none |-> TRUE]
FileTool == {"Write", "Edit"}
Content == {"assistant", "thinking", "tool_call", "tool_result"}

\* data.get(field, default)
Get(data, field, default) == IF field \in DOMAIN data THEN data[field] ELSE default
Frame(type, data) == [type |-> type, data |-> data]

\* The events of "s" with one of these types, in their order.
OfType(s, types) ==
    LET Kept[n \in 0..Len(s)] ==
            IF n = 0 THEN <<>>
            ELSE IF s[n].type \in types THEN Append(Kept[n - 1], s[n])
            ELSE Kept[n - 1]
    IN Kept[Len(s)]

\* _check_context_limit() before a turn; a share of the window in percent.
Percent(tokens) == (tokens * 100) \div Window
Admits(c) == ~c.limit /\ (Window > 0 /\ c.tokens > 0 => Percent(c.tokens) < 95)

Init ==
    /\ agent = "starting" /\ names = {} /\ open = {} /\ messages = 0
    /\ emitted = <<>> /\ wire = <<>> /\ got = 0 /\ split = FALSE
    /\ broken = FALSE
    /\ host = "stream" /\ seq = 0 /\ sent = <<>> /\ doneData = None
    /\ external = {} /\ replaced = FALSE /\ copied = {} /\ missed = {}
    /\ events = <<>>
    /\ \E t \in StartTokens :
          /\ Admits([tokens |-> t, limit |-> FALSE])
          /\ stored = [log |-> <<>>, usage |-> None, tokens |-> t, limit |-> FALSE,
                       titled |-> FALSE]
    /\ draft = stored

-----------------------------------------------------------------------------
(* The agent in the container *)

Writes(frames) ==
    /\ emitted' = emitted \o frames
    /\ wire' = wire \o frames
    /\ UNCHANGED <<got, split, broken, host, seq, sent, doneData, fileVars, dbVars>>

ErrorFrame == Frame("error", [message |-> "failed"])

\* Blocks of an AssistantMessage.
TextFrame == Frame("text_delta", [text |-> "whole"])
ThinkingFrame == Frame("thinking", [content |-> "whole"])
UseFrame(u) == Frame("tool_use", [id |-> u, name |-> NameOf[u]])

\* Mutant: only tool uses of the same message are looked up.
ResultFrameFresh(u, known) == Frame("tool_result", [id |-> u, name |-> ""])

\* The name of a result is looked up in the map of the whole run.
ResultFrame(u, known) ==
    Frame("tool_result", [id |-> u, name |-> IF u \in known THEN NameOf[u] ELSE ""])

\* Mutant: no answer when the SDK ends without a result.
NoFrames == <<>>

\* What is sent when the SDK ends and no done frame was: an empty success.
FallbackFrames == <<Frame("done", [status |-> "success"])>>

\* _check_proxy_chain() fails, or the SDK is missing: an error, and no more.
AgentRefuses ==
    /\ agent = "starting"
    /\ agent' = "ended"
    /\ Writes(<<ErrorFrame>>)
    /\ UNCHANGED <<names, open, messages>>

\* The options are built, errors of MCP servers ignored; SystemMessage(init).
AgentStarts ==
    /\ agent = "starting"
    /\ agent' = "running"
    /\ Writes(<<Frame("system", [init |-> TRUE])>>)
    /\ UNCHANGED <<names, open, messages>>

Another ==
    /\ agent = "running" /\ messages < MaxMessages
    /\ messages' = messages + 1
    /\ UNCHANGED agent

\* AssistantMessage: text or thinking, then calls of tools.
AgentSpeaks ==
    /\ Another
    /\ \E said \in {<<>>, <<TextFrame>>, <<ThinkingFrame>>}, uses \in SUBSET (ToolUse \ names) :
          /\ said # <<>> \/ uses # {}
          /\ names' = names \cup uses
          /\ open' = open \cup uses
          /\ Writes(said \o SetToSeq({UseFrame(u) : u \in uses}))

\* UserMessage with the results of tools that were called.
AgentHears ==
    /\ Another
    /\ \E uses \in SUBSET open \ {{}} :
          /\ open' = open \ uses
          /\ Writes(SetToSeq({ResultFrame(u, names) : u \in uses}))
    /\ UNCHANGED names

\* ResultMessage.
AgentResult ==
    /\ agent = "running"
    /\ agent' = "answered"
    /\ \E status \in {"success", "error"}, raw \in RawUsage :
          Writes(<<Frame("done", [status |-> status, usage |-> raw, session |-> TRUE])>>)
    /\ UNCHANGED <<names, open, messages>>

\* query() ends; without a ResultMessage a done frame is made up.
AgentEnds ==
    /\ agent \in {"running", "answered"}
    /\ agent' = "ended"
    /\ Writes(IF agent = "answered" THEN <<>> ELSE FallbackFrames)
    /\ UNCHANGED <<names, open, messages>>

\* query() raises, also after its result: an error frame ends the stream.
AgentRaises ==
    /\ agent \in {"running", "answered"}
    /\ agent' = "ended"
    /\ Writes(<<ErrorFrame>>)
    /\ UNCHANGED <<names, open, messages>>

\* The container dies; what it has written may still be read, or a part of it.
ContainerDies ==
    /\ agent \notin {"dead", "gone"} /\ host = "stream"
    /\ agent' = "dead"
    /\ UNCHANGED <<names, open, messages, emitted, wireVars, host, seq, sent,
                   doneData, fileVars, dbVars>>

-----------------------------------------------------------------------------
(* Bytes to frames: _stream_from_container() and _parse_sse_event() *)

\* A chunk is decoded by itself: a character across its border is lost.
Receive ==
    /\ host = "stream" /\ got < Pieces
    /\ \E n \in got + 1 .. Pieces * Len(wire) : got' = n
    /\ split' = (split \/ got = InCharacter)
    /\ UNCHANGED <<agentVars, wire, broken, host, seq, sent, doneData, fileVars, dbVars>>

\* What the first frame of "wire" has become on its way.
Parsed ==
    LET f == Head(wire) IN
    IF split /\ "text" \in DOMAIN f.data
    THEN [f EXCEPT !.data.text = "damaged"] ELSE f

\* The error frame of the host follows what the buffer holds of frame "f": the
\* last event line and the last data line of the two count.  (Between the two
\* lines of "f", the error is as clean as before "f".)
Broken(f) ==
    CASE got = 0 -> ErrorFrame
      [] got = InEventLine -> Frame("garbled", ErrorFrame.data)
      [] got = InCharacter -> Frame(f.type, ErrorFrame.data)

\* The orchestrator reports a dead container and replaces it, if it can.
StreamFails ==
    /\ host = "stream" /\ agent = "dead" /\ got < Pieces
    /\ agent' = "gone" /\ replaced' = TRUE
    /\ \E after \in {<<>>, <<Frame("container_recovered", [recovered |-> TRUE])>>} :
          /\ wire' = <<IF wire = <<>> THEN ErrorFrame ELSE Broken(Head(wire))>> \o after
          /\ got' = Pieces * (1 + Len(after))
    /\ split' = FALSE /\ broken' = (got > 0)
    /\ UNCHANGED <<names, open, messages, emitted, host, seq, sent, doneData,
                   external, copied, missed, dbVars>>

\* The agent is silent for container_execution_timeout: its container is
\* replaced, too, without an event for it.
StreamTimesOut ==
    /\ host = "stream" /\ agent \in {"starting", "running", "answered"} /\ wire = <<>>
    /\ agent' = "gone" /\ replaced' = TRUE
    /\ wire' = <<ErrorFrame>> /\ got' = Pieces /\ split' = FALSE
    /\ UNCHANGED <<names, open, messages, emitted, broken, host, seq, sent, doneData,
                   external, copied, missed, dbVars>>

StreamEnds ==
    /\ host = "stream" /\ agent \in {"ended", "gone"} /\ wire = <<>>
    /\ host' = "rescue"
    /\ UNCHANGED <<agentVars, wireVars, seq, sent, doneData, fileVars, dbVars>>

-----------------------------------------------------------------------------
(* Frames to events: _translate_event() and the functions of streaming.py *)

Event(type, data) == [type |-> type, data |-> data]
Progress(kind) == Event("progress", [kind |-> kind])
InitEvent == Event("init", [init |-> TRUE])
ThinkingEvent(d) == Event("thinking", [content |-> Get(d, "content", "")])
AssistantEvent(d) == Event("assistant", [text |-> Get(d, "text", "")])
ToolCallEvent(d) == Event("tool_call", [id |-> Get(d, "id", ""), name |-> Get(d, "name", "")])
ToolResultEvent(d) ==
    Event("tool_result", [id |-> Get(d, "id", ""), name |-> Get(d, "name", "")])
ContextStatusEvent(level) ==
    Event("context_status", [level |-> level, can_continue |-> level # "blocked"])
TitleEvent == Event("title", [title |-> TRUE])
ErrorEvent == Event("error", [message |-> "failed"])
RecoveredEvent == Event("container_recovered", [recovered |-> TRUE])
DoneEvent(status, usage, session) ==
    Event("done", [status |-> status, usage |-> usage, session |-> session])
ErrorDone ==
    DoneEvent("error", [input |-> 0, output |-> 0, cache_5m |-> 0, cache_1h |-> 0,
                        cache_read |-> 0], FALSE)

\* Mutant: counters that are normalised already are not recognised.
NormaliseAnew(u) ==
    [input |-> Get(u, "input", 0), output |-> Get(u, "output", 0),
     cache_5m |-> Get(u, "ephemeral_5m", Get(u, "creation", 0)),
     cache_1h |-> Get(u, "ephemeral_1h", 0),
     cache_read |-> Get(u, "read", 0)]

\* _normalize_usage(): counters of the SDK, or such as it has returned.
NormaliseUsage(u) ==
    LET five == Get(u, "ephemeral_5m", 0) IN
    [input |-> Get(u, "input", 0), output |-> Get(u, "output", 0),
     cache_5m |-> IF "cache_5m" \in DOMAIN u THEN u.cache_5m
                  ELSE IF five = 0 THEN Get(u, "creation", 0) ELSE five,
     cache_1h |-> Get(u, "cache_1h", Get(u, "ephemeral_1h", 0)),
     cache_read |-> Get(u, "cache_read", Get(u, "read", 0))]

Translate(f) ==
    CASE f.type = "system" /\ "init" \in DOMAIN f.data -> <<InitEvent>>
      [] f.type = "text_delta" -> <<Progress("generating"), AssistantEvent(f.data)>>
      [] f.type = "thinking" -> <<Progress("thinking"), ThinkingEvent(f.data)>>
      [] f.type = "tool_use" -> <<Progress("tool"), ToolCallEvent(f.data)>>
      [] f.type = "tool_result" -> <<ToolResultEvent(f.data)>>
      [] f.type = "done" ->
            <<DoneEvent(Get(f.data, "status", "success"),
                        NormaliseUsage(Get(f.data, "usage", <<>>)),
                        Get(f.data, "session", FALSE))>>
      [] f.type = "container_recovered" -> <<RecoveredEvent>>
      [] OTHER -> <<Event(f.type, f.data)>>

\* Events get their numbers as they are made, the first one seq + 1.
Numbered(made) ==
    [i \in DOMAIN made |-> [type |-> made[i].type, seq |-> seq + i, data |-> made[i].data]]

-----------------------------------------------------------------------------
(* Events to the client: the loop of execute_streaming() *)

Tokens(usage) == usage.input + usage.output

\* Mutant: the turn may use up the last allowed percent.
LevelLate(percent) ==
    CASE percent > 95 -> "blocked"
      [] percent \in 85..95 -> "critical"
      [] percent \in 70..84 -> "warning"
      [] OTHER -> "normal"

\* _build_context_status_event().
Level(percent) ==
    CASE percent >= 95 -> "blocked"
      [] percent \in 85..94 -> "critical"
      [] percent \in 70..84 -> "warning"
      [] OTHER -> "normal"

ContextStatus(usage) ==
    IF Window = 0 THEN <<>>
    ELSE <<ContextStatusEvent(Level(Percent(draft.tokens + Tokens(usage))))>>

\* _generate_title_if_needed(): with some text of the answer, when Bedrock gives one.
Titles ==
    IF ~draft.titled /\ \E i \in DOMAIN events :
          events[i].type = "assistant" /\ events[i].data.text # ""
    THEN {<<>>, <<TitleEvent>>} ELSE {<<>>}

\* Mutant: all that is in the buffer is taken off it with the first frame.
NextFrameOnly ==
    /\ host = "stream" /\ got >= Pieces
    /\ wire' = SubSeq(wire, got \div Pieces + 1, Len(wire))
    /\ got' = got % Pieces /\ split' = FALSE
    /\ UNCHANGED <<agentVars, broken, host, replaced, copied, missed, stored>>

\* One frame is cut off the buffer.
NextFrame ==
    /\ host = "stream" /\ got >= Pieces
    /\ wire' = Tail(wire) /\ got' = got - Pieces /\ split' = FALSE
    /\ UNCHANGED <<agentVars, broken, host, replaced, copied, missed, stored>>

\* Mutant: only files that are written anew are looked after.
ExternalOf(shown) ==
    {u \in Outside : \E i \in DOMAIN shown :
        shown[i].type = "tool_call" /\ shown[i].data.id = u /\ NameOf[u] = "Write"}

\* _collect_external_file_path().
ExternalPaths(shown) ==
    {u \in Outside : \E i \in DOMAIN shown :
        /\ shown[i].type = "tool_call" /\ shown[i].data.id = u
        /\ shown[i].data.name \in FileTool}

\* Any event but done.
RelayEvent ==
    /\ NextFrame
    /\ Parsed.type # "done"
    /\ LET made == Numbered(Translate(Parsed)) IN
          /\ seq' = seq + Len(made)
          /\ sent' = sent \o made
          /\ external' = external \cup ExternalPaths(made)
          /\ events' = events \o OfType(made, Content)
    /\ UNCHANGED <<doneData, draft>>

\* The done event has its number before the events that precede it.
DoneEvents(done, title) ==
    LET made == Numbered(done \o ContextStatus(done[1].data.usage) \o title)
    IN Tail(made) \o <<Head(made)>>

RelayDone ==
    /\ NextFrame
    /\ Parsed.type = "done"
    /\ \E title \in Titles :
          LET done == Translate(Parsed) IN
          /\ sent' = sent \o DoneEvents(done, title)
          /\ seq' = seq + Len(DoneEvents(done, title))
          /\ doneData' = done[1].data
          /\ draft' = [draft EXCEPT !.titled = @ \/ title # <<>>]
    /\ UNCHANGED <<external, events>>

-----------------------------------------------------------------------------
(* After the stream *)

\* _rescue_external_files(): copied one by one; what the container no longer
\* has, or cannot copy, is logged.
Rescue ==
    /\ host = "rescue"
    /\ \E there \in IF replaced THEN {{}} ELSE SUBSET external :
          copied' = there /\ missed' = external \ there
    /\ host' = "record"
    /\ UNCHANGED <<agentVars, wireVars, seq, sent, doneData, external, replaced, dbVars>>

\* _update_context_status().
LimitReached(usage) == Window > 0 /\ Percent(draft.tokens + Tokens(usage)) >= 95

\* _record_usage(): from done_data, normalised once more.
RecordUsage ==
    LET usage == NormaliseUsage(doneData.usage) IN
    /\ host = "record" /\ doneData # None
    /\ host' = "answer"
    /\ draft' = [draft EXCEPT !.usage = usage, !.tokens = @ + Tokens(usage),
                              !.limit = LimitReached(usage)]
    /\ UNCHANGED <<agentVars, wireVars, seq, sent, doneData, fileVars, events, stored>>

\* Nothing to record, or an error that is only logged.
RecordNothing ==
    /\ host = "record"
    /\ host' = "answer"
    /\ UNCHANGED <<agentVars, wireVars, seq, sent, doneData, fileVars, dbVars>>

\* _save_assistant_message(); its errors are logged.
SaveAnswer ==
    /\ host = "answer"
    /\ host' = "end"
    /\ draft' \in {draft, [draft EXCEPT !.log = events]}
    /\ UNCHANGED <<agentVars, wireVars, seq, sent, doneData, fileVars, events, stored>>

\* An exception in the set-up, or from saving the session id: error and done.
HostRaises ==
    /\ \/ host = "stream" /\ agent = "starting" /\ wire = <<>>
       \/ host = "answer" /\ doneData # None /\ doneData.session
    /\ host' = "undo"
    /\ LET made == Numbered(<<ErrorEvent, ErrorDone>>)
       IN sent' = sent \o made /\ seq' = seq + Len(made)
    /\ UNCHANGED <<agentVars, wireVars, doneData, fileVars, dbVars>>

Commit ==
    /\ host = "end"
    /\ host' = "closed" /\ stored' = draft
    /\ UNCHANGED <<agentVars, wireVars, seq, sent, doneData, fileVars, events, draft>>

Rollback ==
    /\ host \in {"end", "undo"}
    /\ host' = "closed" /\ draft' = stored
    /\ UNCHANGED <<agentVars, wireVars, seq, sent, doneData, fileVars, events, stored>>

-----------------------------------------------------------------------------
Next ==
    \/ AgentRefuses \/ AgentStarts \/ AgentSpeaks \/ AgentHears
    \/ AgentResult \/ AgentEnds \/ AgentRaises \/ ContainerDies
    \/ Receive \/ StreamFails \/ StreamTimesOut \/ StreamEnds
    \/ RelayEvent \/ RelayDone
    \/ Rescue \/ RecordUsage \/ RecordNothing \/ SaveAnswer
    \/ HostRaises \/ Commit \/ Rollback

Spec == Init /\ [][Next]_vars

-----------------------------------------------------------------------------
(* Properties *)

\* What a frame of the agent, and an event of the client, tell of the run.
FrameKey(f) ==
    CASE f.type = "text_delta" -> <<"assistant">>
      [] f.type = "thinking" -> <<"thinking">>
      [] f.type = "tool_use" -> <<"tool_call", f.data.id>>
      [] f.type = "tool_result" -> <<"tool_result", f.data.id>>
      [] OTHER -> <<f.type>>
EventKey(e) ==
    IF e.type \in {"tool_call", "tool_result"} THEN <<e.type, e.data.id>> ELSE <<e.type>>
Told(frames) ==
    [i \in DOMAIN frames |->
        IF frames[i].type = "system" THEN <<"init">> ELSE FrameKey(frames[i])]
\* The events that stand for a frame: all but those the host adds of its own.
Relayed == {"init", "assistant", "thinking", "tool_call", "tool_result", "done", "error",
            "garbled", "system", "container_recovered"}
Shown ==
    LET relayed == OfType(sent, Relayed)
    IN [i \in DOMAIN relayed |-> EventKey(relayed[i])]

Closed == host = "closed"
Dones == {i \in DOMAIN sent : sent[i].type = "done"}

\* However the bytes are cut into chunks, the client is shown what the agent
\* has written, in order, without loss or repetition, as long as the container
\* lives.  When it dies, only the end is missing: what follows the whole frames
\* is one event for the failure, and the notice of the recovery.
FramesInOrder ==
    host = "stream" =>
        IF agent # "gone" THEN Shown \o Told(wire) = Told(emitted)
        ELSE \E whole \in 0..Len(Shown) :
                /\ IsPrefix(SubSeq(Shown, 1, whole), Told(emitted))
                /\ Len(Shown) - whole <= 2

\* A result of a tool carries the name of the call it belongs to, which the
\* client has been shown before: file synchronisation goes by that name.
ToolsNamed ==
    \A i \in DOMAIN sent : sent[i].type = "tool_result" /\ sent[i].data.id # "" =>
        \E k \in 1..i - 1 :
            /\ sent[k].type = "tool_call"
            /\ sent[k].data = sent[i].data

\* The client of a closed stream was told how the turn ended, by a done or an
\* error event, unless the container died while a frame was half-way.
TurnAnswered ==
    Closed => \/ \E e \in Range(sent) : e.type \in {"done", "error"}
              \/ broken

\* What is committed is what the client has seen: the message is made of its
\* events in order, the bill is that of the done event, and a turn whose done
\* event is the error of the service has left nothing.
KeptAsShown ==
    Closed =>
        /\ stored.log # <<>> =>
              stored.log = OfType(sent, Content)
        /\ stored.usage # None =>
              \E i \in Dones : sent[i].data.usage = stored.usage
        /\ Cardinality(Dones) = 2 => stored.log = <<>> /\ stored.usage = None

\* A context status tells the client whether the conversation can go on: once
\* the turn is on record, the next one is let in or refused accordingly.
StatusHonest ==
    Closed /\ stored.usage # None =>
        \A e \in Range(sent) : e.type = "context_status" =>
            (e.data.can_continue <=> Admits(stored))

\* A file that the agent was seen to write outside the workspace is copied
\* into it before the files are saved, or its loss is known.
OutsideFilesKept ==
    host \notin {"stream", "rescue", "undo", "closed"} =>
        \A e \in Range(sent) :
            e.type = "tool_call" /\ e.data.id \in Outside /\ e.data.name \in FileTool
                => e.data.id \in copied \cup missed

=============================================================================
