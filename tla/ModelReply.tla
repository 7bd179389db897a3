----------------------------- MODULE ModelReply -----------------------------
(***************************************************************************)
(* How the brain gets a reply from a model: core/llm_clients/client.py and *)
(* routing.py, called by brain.query and brain.chat on a thread for each   *)
(* request.  A request tries its routes in turn; an attempt may send       *)
(* several calls, since a provider may refuse a parameter, streaming or    *)
(* tools.  What the routes refused and when they cool down is shared by    *)
(* all requests.  The text of the answer is buffered and shown at the end; *)
(* thoughts and progress are shown at once, and count as output, too.      *)
(***************************************************************************)
EXTENDS Naturals, Sequences, FiniteSets, SequencesExt

CONSTANTS
    Queries,       \* the requests
    WithTools,     \* those that offer tools
    Guarded,       \* those of a chat with a screenshot, which have no tools
    Candidates,    \* the configured routes, in their order
    ProviderOf,    \* the interface of each route
    MaxRounds,     \* bound: rounds of tool calls in an attempt
    MaxFailures    \* bound: what goes wrong at the providers altogether

RouteSet == ToSet(Candidates)

ASSUME ModelReplyAssumption ==
    /\ Candidates \in Seq(RouteSet) \ {<<>>} /\ IsInjective(Candidates)
    /\ ProviderOf \in [RouteSet -> {"openai", "chatgpt", "anthropic"}]
    /\ WithTools \subseteq Queries /\ Guarded \subseteq Queries \ WithTools
    /\ MaxRounds \in Nat /\ MaxFailures \in Nat

VARIABLES
    stage,      \* where each request is
    ready,      \* the routes that its first look found not cooling
    plan,       \* the routes it has left; the head is the one it tries
    tried,      \* the routes it has tried
    way,        \* how the current call asks: with tools, streaming or not
    rounds,     \* tool rounds of the attempt
    calls,      \* calls of the attempt: numbers the current one
    spoke,      \* emitted: the attempt has yielded a chunk
    voices,     \* the calls whose text is in the answer, or withheld for it
    abandoned,  \* requests whose ctx.cancelled is set
    cooling,    \* _route_cooldowns
    noTools, noStream,    \* the routes known not to support them
    failures,   \* how much went wrong
    woke        \* history: routes that cooled at a first look and not at the second

chainVars == <<stage, ready, plan, tried>>
replyVars == <<way, rounds, calls, spoke, voices>>
routeVars == <<cooling, noTools, noStream>>
modelVars == <<chainVars, replyVars, abandoned, routeVars, failures, woke>>

\* With tools, first as the provider's interface likes it, then not streaming
ToolWays == {"tools", "tools_create"}

ReplyTypeOK ==
    /\ stage \in [Queries -> {"idle", "looked", "asking", "done", "failed", "cancelled"}]
    /\ ready \in [Queries -> SUBSET RouteSet] /\ tried \in [Queries -> SUBSET RouteSet]
    /\ woke \in [Queries -> SUBSET RouteSet]
    /\ plan \in [Queries -> Seq(RouteSet)]
    /\ \A q \in Queries : stage[q] = "asking" => plan[q] # <<>> /\ Head(plan[q]) \in tried[q]
    /\ way \in [Queries -> ToolWays \cup {"stream", "create"}]
    /\ rounds \in [Queries -> 0 .. MaxRounds]
    /\ calls \in [Queries -> Nat] /\ \A q \in Queries : stage[q] = "asking" => calls[q] # 0
    /\ voices \in [Queries -> SUBSET Nat] /\ \A q \in Queries : voices[q] \subseteq 1 .. calls[q]
    /\ spoke \in [Queries -> BOOLEAN]
    /\ abandoned \subseteq Queries
    /\ cooling \cup noTools \cup noStream \subseteq RouteSet
    /\ failures \in 0 .. MaxFailures

ModelInit ==
    /\ stage = [q \in Queries |-> "idle"]
    /\ ready = [q \in Queries |-> {}]
    /\ plan = [q \in Queries |-> <<>>]
    /\ tried = [q \in Queries |-> {}]
    /\ way = [q \in Queries |-> "stream"]
    /\ rounds = [q \in Queries |-> 0]
    /\ calls = [q \in Queries |-> 0]
    /\ spoke = [q \in Queries |-> FALSE]
    /\ voices = [q \in Queries |-> {}]
    /\ abandoned = {}
    /\ cooling \in SUBSET RouteSet    \* left by earlier requests
    /\ noTools = {}
    /\ noStream = {}
    /\ failures = 0
    /\ woke = [q \in Queries |-> {}]

-----------------------------------------------------------------------------
(* Which route is asked, and how *)

Provider(q) == ProviderOf[Head(plan[q])]

\* _response_stream_text looks whether the route streams, the others try it
Plain(route) ==
    IF ProviderOf[route] = "chatgpt" /\ route \in noStream THEN "create" ELSE "stream"

\* _stream_codex offers its tools again even if they were refused before
WayOf(q, route) ==
    IF q \in WithTools /\ (ProviderOf[route] = "chatgpt" \/ route \notin noTools)
    THEN "tools" ELSE Plain(route)

AskAgain(q, how) ==
    /\ way' = [way EXCEPT ![q] = how]
    /\ calls' = [calls EXCEPT ![q] = @ + 1]

Attempt(q, routes) ==
    /\ stage' = [stage EXCEPT ![q] = "asking"]
    /\ plan' = [plan EXCEPT ![q] = routes]
    /\ tried' = [tried EXCEPT ![q] = @ \cup {Head(routes)}]
    /\ spoke' = [spoke EXCEPT ![q] = FALSE]
    /\ voices' = [voices EXCEPT ![q] = {}]
    /\ rounds' = [rounds EXCEPT ![q] = 0]
    /\ way' = [way EXCEPT ![q] = WayOf(q, Head(routes))]
    /\ calls' = [calls EXCEPT ![q] = 1]

Finish(q, how) ==
    /\ stage' = [stage EXCEPT ![q] = how]
    /\ UNCHANGED <<plan, tried, replyVars>>

NextRoute(q) ==
    IF Len(plan[q]) > 1 THEN Attempt(q, Tail(plan[q])) ELSE Finish(q, "failed")

(* _stream_with_fallbacks looks twice at the cooldowns: first which routes *)
(* are ready ...                                                           *)
LookForReady(q) ==
    /\ stage[q] = "idle"
    /\ stage' = [stage EXCEPT ![q] = "looked"]
    /\ ready' = [ready EXCEPT ![q] = RouteSet \ cooling]
    /\ UNCHANGED <<plan, tried, replyVars, abandoned, routeVars, failures, woke>>

\* The candidates that are in S, in their order: SelectSeq as a recursive function
Among(S) ==
    LET chosen[n \in 0 .. Len(Candidates)] ==
            IF n = 0 THEN <<>>
            ELSE IF Candidates[n] \in S THEN Append(chosen[n - 1], Candidates[n])
            ELSE chosen[n - 1]
    IN  chosen[Len(Candidates)]

Ordered_ReadyOnly(first, late) == first

\* ready + cooling
Ordered(first, late) == first \o late

(* ... then which are cooling; all of them cooling is an error *)
LookForCooling(q) ==
    /\ stage[q] = "looked"
    /\ LET first == Among(ready[q])
           late  == Among(cooling)
       IN IF first = <<>> /\ late # <<>>
          THEN Finish(q, "failed")
          ELSE Attempt(q, IF Ordered(first, late) = <<>> THEN Candidates
                                                         ELSE Ordered(first, late))
    /\ UNCHANGED <<ready, abandoned, routeVars, failures, woke>>

-----------------------------------------------------------------------------
(* What a provider answers *)

Asking(q, ways) == stage[q] = "asking" /\ way[q] \in ways

(* A chunk comes to the handler, which drops the request if it is cancelled: *)
(* a thought or a line of progress ...                                       *)
Yield(q, next) ==
    IF q \in abandoned
    THEN stage' = [stage EXCEPT ![q] = "cancelled"] /\ UNCHANGED spoke
    ELSE stage' = [stage EXCEPT ![q] = next] /\ spoke' = [spoke EXCEPT ![q] = TRUE]

(* ... or text of the calls in said *)
Chunk(q, said, next) ==
    /\ Yield(q, next)
    /\ voices' = [voices EXCEPT ![q] = @ \cup said]

(* A piece of the stream; the Responses interface streams thoughts, too *)
StreamChunk(q) ==
    /\ Asking(q, {"stream"})
    /\ \/ Chunk(q, {calls[q]}, "asking")
       \/ Provider(q) = "chatgpt" /\ Yield(q, "asking") /\ UNCHANGED voices
    /\ UNCHANGED <<ready, plan, tried, way, rounds, calls, abandoned, routeVars, failures, woke>>

(* The whole text at once, after which the route is complete.  With tools, *)
(* the text of a round that calls none; ChatToolLoop has a text of its own *)
(* when its rounds are used up.                                            *)
WholeText(q) ==
    /\ Asking(q, ToolWays \cup {"create"})
    /\ \E said \in SUBSET {calls[q]} :
          /\ said \cup voices[q] # {}
          /\ Chunk(q, said, "done")
    /\ UNCHANGED <<ready, plan, tried, way, rounds, calls, abandoned, routeVars, failures, woke>>

(* A round of tool calls.  ChatToolLoop yields nothing before its end; the *)
(* loop of _stream_openai_compat yields the text of the round as progress. *)
ToolRound(q) ==
    /\ Asking(q, ToolWays)
    /\ rounds[q] < MaxRounds
    /\ rounds' = [rounds EXCEPT ![q] = @ + 1]
    /\ calls' = [calls EXCEPT ![q] = @ + 1]
    /\ voices' = [voices EXCEPT ![q] = {}]
    /\ \/ UNCHANGED <<stage, spoke>>
       \/ Provider(q) = "openai" /\ Yield(q, "asking")
    /\ UNCHANGED <<ready, plan, tried, way, abandoned, routeVars, failures, woke>>

Problem == failures < MaxFailures /\ failures' = failures + 1

(* The route ends with no more text: with no chunk at all it counts as a   *)
(* failure.  ChatToolLoop never does.                                      *)
RouteEnds(q) ==
    /\ stage[q] = "asking"
    /\ way[q] \in ToolWays => Provider(q) = "openai" /\ voices[q] = {}
    /\ IF spoke[q]
       THEN Finish(q, "done") /\ UNCHANGED <<cooling, failures>>
       ELSE Problem /\ cooling' = cooling \cup {Head(plan[q])} /\ NextRoute(q)
    /\ UNCHANGED <<ready, abandoned, noTools, noStream, woke>>

-----------------------------------------------------------------------------
(* What a provider refuses, and what goes wrong *)

\* The loop over tool rounds has begun: _stream_openai_compat handles no error there
InRounds(q) == Provider(q) = "openai" /\ way[q] \in ToolWays /\ rounds[q] > 0

\* _stream_openai_compat_plain: already streamed output; the others do not ask
MayRetry(q) == q \in Guarded /\ Provider(q) = "openai" => ~spoke[q]

Again(q, how) ==
    /\ Problem
    /\ ~InRounds(q)
    /\ MayRetry(q)
    /\ AskAgain(q, how)
    /\ UNCHANGED <<stage, ready, plan, tried, spoke, abandoned, cooling, woke>>

\* Text that was withheld is gone with the call, unless it is the one in its place
Forgotten(q) ==
    voices' = [voices EXCEPT ![q] = IF spoke[q] \/ way[q] = "tools_create" THEN @ ELSE {}]

(* _tools_not_supported_error: the attempt goes on without tools; the      *)
(* Responses interface may refuse them because it wants to stream          *)
ToolsRefused(q) ==
    /\ Asking(q, ToolWays)
    /\ \/ Again(q, Plain(Head(plan[q]))) /\ UNCHANGED noStream
       \/ /\ Provider(q) = "chatgpt"
          /\ Again(q, "stream")
          /\ noStream' = noStream \ {Head(plan[q])}
    /\ noTools' = noTools \cup {Head(plan[q])}
    /\ rounds' = [rounds EXCEPT ![q] = 0]
    /\ voices' = [voices EXCEPT ![q] = IF spoke[q] THEN @ ELSE {}]

(* _without_unsupported_parameter: the call is repeated without it *)
ParameterRefused(q) ==
    /\ stage[q] = "asking"
    /\ Provider(q) # "anthropic"
    /\ Again(q, way[q])
    /\ Forgotten(q)
    /\ UNCHANGED <<noTools, noStream, rounds>>

(* _stream_mode_error: any error without a status that speaks of streams,  *)
(* also in the middle of one.  The first call with tools withholds its text*)
(* until it is over, and keeps what it has got of the stream.              *)
StreamRefused(q) ==
    /\ Asking(q, {"stream", "tools"})
    /\ Provider(q) # "anthropic"
    /\ way[q] = "tools" => Provider(q) = "openai"
    /\ Again(q, IF way[q] = "tools" THEN "tools_create" ELSE "create")
    /\ voices' \in {voices, [voices EXCEPT ![q] =
                                IF way[q] = "tools" THEN @ \cup {calls[q]} ELSE @]}
    /\ noStream' = noStream \cup {Head(plan[q])}
    /\ UNCHANGED <<noTools, rounds>>

(* _requires_stream_error *)
StreamRequired(q) ==
    /\ Asking(q, {"create"})
    /\ Provider(q) = "chatgpt"
    /\ Again(q, "stream")
    /\ noStream' = noStream \ {Head(plan[q])}
    /\ UNCHANGED <<noTools, rounds, voices>>

(* Any other error: the next route, unless the attempt has yielded a chunk *)
RouteFails(q) ==
    /\ stage[q] = "asking"
    /\ Problem
    /\ IF spoke[q]
       THEN Finish(q, "failed") /\ UNCHANGED cooling
       ELSE cooling' \in {cooling, cooling \cup {Head(plan[q])}} /\ NextRoute(q)
    /\ UNCHANGED <<ready, abandoned, noTools, noStream, woke>>

-----------------------------------------------------------------------------
(* brain.cancel *)
DropRequest(q) ==
    /\ stage[q] \in {"looked", "asking"}
    /\ q \notin abandoned
    /\ abandoned' = abandoned \cup {q}
    /\ UNCHANGED <<chainVars, replyVars, routeVars, failures, woke>>

(* A cooldown is over *)
Wake(route) ==
    /\ route \in cooling
    /\ cooling' = cooling \ {route}
    /\ woke' = [q \in Queries |->
                  IF stage[q] = "looked" /\ route \notin ready[q]
                  THEN woke[q] \cup {route} ELSE woke[q]]
    /\ UNCHANGED <<chainVars, replyVars, abandoned, noTools, noStream, failures>>

ProviderStep(q) ==
    \/ StreamChunk(q) \/ WholeText(q) \/ ToolRound(q) \/ RouteEnds(q)
    \/ ToolsRefused(q) \/ ParameterRefused(q) \/ StreamRefused(q) \/ StreamRequired(q)
    \/ RouteFails(q)

ModelNext ==
    \/ \E q \in Queries :
          LookForReady(q) \/ LookForCooling(q) \/ ProviderStep(q) \/ DropRequest(q)
    \/ \E route \in RouteSet : Wake(route)

ModelSpec == ModelInit /\ [][ModelNext]_modelVars

-----------------------------------------------------------------------------
(* Properties *)

(* The answer comes from one call to one model                             *)
(* (tests/test_llm_fallbacks.py:85, "does not mix after output").          *)
OneVoice == \A q \in Queries : stage[q] = "done" => Cardinality(voices[q]) <= 1

(* A request that failed and has shown nothing was refused by every route, *)
(* but for those whose cooldown ended between its two looks at them, or    *)
(* found all of them cooling - whatever other requests do to the cooldowns.*)
NoRouteLeftOut ==
    \A q \in Queries :
       stage[q] = "failed" /\ ~spoke[q] /\ ready[q] # {} => RouteSet \ tried[q] \subseteq woke[q]

=============================================================================
