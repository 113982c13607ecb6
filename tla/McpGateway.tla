----------------------------- MODULE McpGateway -----------------------------
(***************************************************************************)
(* The gateway to one MCP server that runs as a child process              *)
(* (mcp_gateway/registry.py, stdio_client.py).  Every chat turn makes a    *)
(* registry client of its own from the declaration file, which asks the    *)
(* server for its tools unless a listing of the last minute is cached.     *)
(* All turns share the process-wide cache and the session of the server:   *)
(* one worker thread that serves a queue, while each caller waits for its  *)
(* future with a timeout.  The MCP library and the server are external: a  *)
(* start may fail, an answer may be an error, come late or never come.     *)
(* The client of the legacy HTTP gateway is stateless and left out.        *)
(***************************************************************************)
EXTENDS Integers, Sequences

CONSTANTS Turns,         \* chat turns, each with a registry client
          ServerTools,   \* the tools the server advertises
          Declarations,  \* what the declaration file may say of the server
          CacheTTL,      \* _DISCOVERY_CACHE_TTL_SECONDS, in ticks
          MaxClock,      \* bound: ticks
          MaxSessions    \* bound: sessions started

ASSUME McpAssumption == CacheTTL \in Nat \ {0} /\ MaxClock \in Nat /\ MaxSessions \in Nat \ {0}

VARIABLES decl,      \* the server's entry in config/mcp_servers.json
          cache,     \* _DISCOVERY_CACHE for the server
          turn,      \* the registry clients and what their turn waits for
          session,   \* the sessions started so far
          current,   \* the session in PersistentStdioMCPTransport._sessions, or 0
          clock,     \* time.monotonic()
          missed     \* when a listing last came without a tool

mcpVars == <<decl, cache, turn, session, current, clock, missed>>

Never == -CacheTTL
StopMark == "stop"                                 \* the None that close queues
NewTurn == [pc |-> "new", cfg |-> {}, tools |-> {}, op |-> "list", tool |-> "none", sid |-> 0,
            future |-> "open", answer |-> "none", found |-> Never]
NewSession == [worker |-> "start", ready |-> FALSE, error |-> FALSE, stop |-> FALSE,
               queue |-> <<>>, serving |-> <<>>]

McpInit == /\ decl \in Declarations
           /\ cache = [at |-> 0, tools |-> {}]   \* an earlier turn found the server down
           /\ missed = [t \in ServerTools |-> 0]
           /\ turn = [c \in Turns |-> NewTurn]
           /\ session = <<>> /\ current = 0
           /\ clock = 0

----------------------------------------------------------------------------
(* The registry client of a turn.                                          *)

\* _is_allowed: an empty allow-list admits every tool.
is_allowed(cfg, t) == (cfg.allow = {} \/ t \in cfg.allow) /\ t \notin cfg.deny

\* configured_tool_names: the tools the agent's registry offers to the model.
configured_tool_names(cfg) == {t \in cfg.allow : is_allowed(cfg, t)}

\* create_configured_mcp_client with discover=True reads the file for the turn.
CreateClient(c) ==
    /\ turn[c].pc = "new"
    /\ turn' = [turn EXCEPT ![c].pc = "discover", ![c].cfg = decl]
    /\ UNCHANGED <<decl, cache, session, current, clock, missed>>

Cached == clock - cache.at < CacheTTL

\* Mutant: every use of an entry makes it new again.
DiscoverSliding(c) ==
    /\ turn[c].pc = "discover" /\ Cached
    /\ turn' = [turn EXCEPT ![c].pc = "ready", ![c].tools = cache.tools, ![c].found = clock]
    /\ cache' = [cache EXCEPT !.at = clock]
    /\ UNCHANGED <<decl, session, current, clock, missed>>

\* discover_tools with a fresh entry: what another turn's declaration let through.
DiscoverCached(c) ==
    /\ turn[c].pc = "discover" /\ Cached
    /\ turn' = [turn EXCEPT ![c].pc = "ready", ![c].tools = cache.tools, ![c].found = clock]
    /\ UNCHANGED <<decl, cache, session, current, clock, missed>>

\* discover_tools without one asks the server.
DiscoverAsk(c) ==
    /\ turn[c].pc = "discover" /\ ~Cached
    /\ turn' = [turn EXCEPT ![c].pc = "dispatch", ![c].op = "list"]
    /\ UNCHANGED <<decl, cache, session, current, clock, missed>>

\* Why a call is refused before it is sent.  The argument checks of the
\* read-only servers (DBX statements, mail parameters) are a choice.
Refusal(c, t, valid) == CASE t \notin turn[c].tools -> "not_discovered"
                          [] t \in turn[c].tools /\ ~(is_allowed(turn[c].cfg, t) /\ valid) -> "denied"
                          [] OTHER -> "none"

\* call_tool, for a tool that the agent's registry offers.
DispatchTool(c, t) ==
    /\ turn[c].pc = "ready" /\ t \in configured_tool_names(turn[c].cfg)
    /\ \E valid \in BOOLEAN :
          LET answer == Refusal(c, t, valid)
          IN  turn' = [turn EXCEPT ![c].pc = IF answer = "none" THEN "dispatch" ELSE "answered",
                                   ![c].op = "call", ![c].tool = t, ![c].answer = answer]
    /\ UNCHANGED <<decl, cache, session, current, clock, missed>>

\* What the turn does with the end of its request.  A listing is filtered and
\* cached with the time it was taken over, and so is its failure.
Settle(c, how) ==
    IF turn[c].op = "call"
    THEN /\ turn' = [turn EXCEPT ![c].pc = "answered", ![c].answer = how, ![c].future = "open"]
         /\ UNCHANGED <<cache, missed>>
    ELSE LET tools == IF how = "ok" THEN {t \in ServerTools : is_allowed(turn[c].cfg, t)} ELSE {}
         IN  /\ turn' = [turn EXCEPT ![c].pc = "ready", ![c].tools = tools, ![c].found = clock,
                                     ![c].future = "open"]
             /\ cache' = [at |-> clock, tools |-> tools]
             /\ missed' = [t \in ServerTools |-> IF t \in tools THEN missed[t] ELSE clock]

----------------------------------------------------------------------------
(* A caller of the session: PersistentStdioMCPTransport and submit.        *)

\* _get_session, under the lock: the session of the server, dead or not.
GetSession(c) ==
    /\ turn[c].pc = "dispatch"
    /\ session' = IF current = 0 THEN Append(session, NewSession) ELSE session
    /\ current' = IF current = 0 THEN Len(session) + 1 ELSE current
    /\ turn' = [turn EXCEPT ![c].pc = "wait", ![c].sid = current']
    /\ UNCHANGED <<decl, cache, clock, missed>>

\* submit, once the session is ready: its error and its stop flag are tested
\* before the request is queued, with no lock around both.
PassReady(c) ==
    /\ turn[c].pc = "wait" /\ session[turn[c].sid].ready
    /\ IF session[turn[c].sid].error \/ session[turn[c].sid].stop
       THEN Settle(c, "failed")
       ELSE turn' = [turn EXCEPT ![c].pc = "put"] /\ UNCHANGED <<cache, missed>>
    /\ UNCHANGED <<decl, session, current, clock>>

\* The wait for the start of the server runs out.
ReadyTimesOut(c) ==
    /\ turn[c].pc = "wait" /\ ~session[turn[c].sid].ready
    /\ Settle(c, "failed")
    /\ UNCHANGED <<decl, session, current, clock>>

PutRequest(c) ==
    /\ turn[c].pc = "put"
    /\ session' = [session EXCEPT ![turn[c].sid].queue = Append(@, <<c, turn[c].op>>)]
    /\ turn' = [turn EXCEPT ![c].pc = "result"]
    /\ UNCHANGED <<decl, cache, current, clock, missed>>

TakeResult(c) ==
    /\ turn[c].pc = "result" /\ turn[c].future # "open"
    /\ Settle(c, turn[c].future)
    /\ UNCHANGED <<decl, session, current, clock>>

\* Mutant: the caller only gives up on a request the worker has begun.
ResultTimesOutWhenServed(c) ==
    /\ turn[c].pc = "result" /\ turn[c].future = "open"
    /\ session[turn[c].sid].serving = <<c, turn[c].op>>
    /\ Settle(c, "failed")
    /\ UNCHANGED <<decl, session, current, clock>>

\* future.result runs out.  The request stays queued and may still be served.
ResultTimesOut(c) ==
    /\ turn[c].pc = "result" /\ turn[c].future = "open"
    /\ Settle(c, "failed")
    /\ UNCHANGED <<decl, session, current, clock>>

----------------------------------------------------------------------------
(* The worker thread of a session.                                         *)

\* The turns, once the futures of these requests are set.  Nobody looks at
\* the future of a request that was given up.
Resolved(requests, how) ==
    [c \in Turns |-> IF turn[c].pc = "result" /\ <<c, turn[c].op>> \in requests
                     THEN [turn[c] EXCEPT !.future = how] ELSE turn[c]]

Worker(s, from, to) == /\ session[s].worker = from
                       /\ session' = [session EXCEPT ![s] = to]
                       /\ UNCHANGED <<decl, cache, current, clock, missed>>

\* The server starts and initialises.
Initialize(s) == /\ Worker(s, "start", [session[s] EXCEPT !.worker = "loop", !.ready = TRUE])
                 /\ UNCHANGED turn

\* _run: an error of the start, or of the connection while the worker waits,
\* is kept for the callers to come.
SessionFails(s) ==
    \E from \in {"start", "get"} :
        /\ Worker(s, from, [session[s] EXCEPT !.worker = "failing", !.ready = TRUE, !.error = TRUE])
        /\ UNCHANGED turn

\* _fail_pending, up to the moment the queue is empty.
FailPending(s) ==
    /\ Worker(s, "failing", [session[s] EXCEPT !.worker = "dead", !.queue = <<>>])
    /\ turn' = Resolved({session[s].queue[i] : i \in DOMAIN session[s].queue} \ {<<StopMark>>}, "failed")

\* The head of the worker's loop.
TestStop(s) ==
    /\ Worker(s, "loop", [session[s] EXCEPT !.worker = IF session[s].stop THEN "ended" ELSE "get"])
    /\ UNCHANGED turn

\* A stop mark ends the worker; what is queued behind it stays there.
GetRequest(s) ==
    /\ session[s].queue # <<>>
    /\ LET head == Head(session[s].queue)
           rest == [session[s] EXCEPT !.queue = Tail(@)]
       IN  Worker(s, "get", IF head = <<StopMark>> THEN [rest EXCEPT !.worker = "ended"]
                            ELSE [rest EXCEPT !.worker = "serve", !.serving = head])
    /\ UNCHANGED turn

\* The server answers or the library raises; the worker lives on in both cases.
AnswerRequest(s) ==
    /\ Worker(s, "serve", [session[s] EXCEPT !.worker = "loop", !.serving = <<>>])
    /\ \E how \in {"ok", "failed"} : turn' = Resolved({session[s].serving}, how)

\* PersistentStdioMCPTransport.close, at exit: the session leaves the table and
\* is asked to stop.
Close ==
    /\ current # 0 /\ Len(session) < MaxSessions
    /\ current' = 0
    /\ session' = [session EXCEPT ![current].stop = TRUE, ![current].queue = Append(@, <<StopMark>>)]
    /\ UNCHANGED <<decl, cache, turn, clock, missed>>

----------------------------------------------------------------------------
\* The operator edits the declaration file (bound: while a turn is to come
\* that would read it).
EditDeclaration == /\ \E c \in Turns : turn[c].pc = "new"
                   /\ decl' \in Declarations \ {decl}
                   /\ UNCHANGED <<cache, turn, session, current, clock, missed>>

\* Bound: while some turn has not found its tools.
McpTick == /\ clock < MaxClock /\ \E c \in Turns : turn[c].found = Never
           /\ clock' = clock + 1
           /\ UNCHANGED <<decl, cache, turn, session, current, missed>>

\* The steps a caller's thread takes on its own.
CallerStep(c) == \/ DiscoverCached(c) \/ DiscoverAsk(c) \/ GetSession(c) \/ PassReady(c)
                 \/ ReadyTimesOut(c) \/ PutRequest(c) \/ TakeResult(c) \/ ResultTimesOut(c)

McpNext == \/ \E c \in Turns : \/ CreateClient(c) \/ CallerStep(c)
                               \/ \E t \in ServerTools : DispatchTool(c, t)
           \/ \E s \in DOMAIN session : \/ Initialize(s) \/ SessionFails(s) \/ FailPending(s)
                                        \/ TestStop(s) \/ GetRequest(s) \/ AnswerRequest(s)
           \/ Close \/ EditDeclaration \/ McpTick

\* The threads of the callers run, and their waits end.  Nothing is assumed
\* of the server, of the worker thread or of the clock.
McpFairness == \A c \in Turns : WF_mcpVars(CallerStep(c))

McpSpec == McpInit /\ [][McpNext]_mcpVars /\ McpFairness

----------------------------------------------------------------------------
\* Every request of a turn ends, whatever the server does and wherever the
\* session fails or is closed under the caller: submit tests the session and
\* queues the request in two steps, so a request may be queued after
\* _fail_pending emptied the queue, or behind the stop mark of close, where
\* nobody will answer it.
EveryMcpCallAnswers ==
    \A c \in Turns : turn[c].pc \in {"discover", "dispatch"} ~> turn[c].pc \in {"ready", "answered"}

\* A turn refuses a tool of its declaration only on fresh evidence: some listing
\* that was taken less than the life of a cache entry before the turn looked came
\* without that tool, however turns share, filter and overwrite the cache
\* (discover_tools).  It bounds how long one listing is believed, not how long a
\* server is of no use: a session whose start failed is kept with its error, and
\* each later listing fails again until the process restarts.
RefusalsAreFresh ==
    \A c \in Turns : turn[c].answer = "not_discovered"
                     => turn[c].found - missed[turn[c].tool] < CacheTTL
=============================================================================
