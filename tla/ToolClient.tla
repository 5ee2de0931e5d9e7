----------------------------- MODULE ToolClient ------------------------------
(***************************************************************************)
(* The two ends of a tool call.  The assistant's requests list the tools   *)
(* of the gateway, a page at a time or from a cache, show them to the      *)
(* model under names that the model's service accepts, and translate the   *)
(* names that it calls back (app/src/lib/mcp-client.ts).  The dashboard    *)
(* itself is a server of tools (middleware.ts, api/mcp, mcp-server.ts),    *)
(* which other agents reach with credentials of two kinds.                 *)
(*                                                                         *)
(* The requests of one process share the cache and the map of names.       *)
(***************************************************************************)
EXTENDS Integers, Sequences, SequencesExt

CONSTANTS
    Askers,       \* requests of the assistant
    ToolNames,    \* numbers, in the order in which the gateway lists them
    Candidates,   \* for a name the service does not accept, the names tried for it
    ToolPage,     \* tools of a page
    ToolLife,     \* CACHE_TTL_MS
    MaxToolTime,  \* bound of the model
    NoAnswer

ASSUME ToolAssumption == ToolNames \subseteq Nat /\ IsFiniteSet(ToolNames) /\ ToolPage \in Nat

\* The code numbers the candidates of a name until it finds one that is free.
ASSUME CandidatesAssumption ==
    /\ IsFiniteSet(DOMAIN Candidates)
    /\ \A n \in DOMAIN Candidates :
          /\ Candidates[n] \in Seq(Nat)
          /\ Cardinality(ToSet(Candidates[n])) >= Cardinality(DOMAIN Candidates)

VARIABLES
    tools,      \* the gateway's
    toolClock,
    toolsCache, \* NoAnswer, or a list and when it was complete
    truncated,  \* truncatedNameMap
    asker       \* per request: what it has listed, and what the model was shown

clientVars == <<tools, toolClock, toolsCache, truncated, asker>>

NoMap == [x \in {} |-> NoAnswer]

ClientInit ==
    /\ tools \in SUBSET ToolNames
    /\ toolClock = 0 /\ toolsCache = NoAnswer /\ truncated = NoMap
    /\ asker = [s \in Askers |-> [at |-> "idle", list |-> <<>>, shown |-> <<>>]]

\* A process that lists nothing.
ClientRest == tools = {} /\ toolClock = 0 /\ toolsCache = NoAnswer /\ truncated = NoMap /\ asker = [s \in {} |-> NoAnswer]

\* The owner of the gateway adds or removes a tool.
Redeploy ==
    /\ \E n \in ToolNames : tools' = (tools \cup {n}) \ (tools \cap {n})
    /\ UNCHANGED <<toolClock, toolsCache, truncated, asker>>

ToolTick ==
    /\ toolClock < MaxToolTime
    /\ toolClock' = toolClock + 1
    /\ UNCHANGED <<tools, toolsCache, truncated, asker>>

\* toBedrockName: the first candidate that is free or already stands for the name.
Bedrock(map, name) ==
    LET tried == Candidates[name]
        Free(i) == tried[i] \in DOMAIN map => map[tried[i]] = name
    IN IF name \notin DOMAIN Candidates THEN name
       ELSE tried[CHOOSE i \in DOMAIN tried : Free(i) /\ \A j \in 1 .. i - 1 : ~Free(j)]

\* Mutation of Named: the candidates are not looked up.
NamedBlindly(map, name) ==
    IF name \notin DOMAIN Candidates THEN map
    ELSE [b \in DOMAIN map \cup {Candidates[name][1]} |-> IF b = Candidates[name][1] THEN name ELSE map[b]]

Named(map, name) ==
    LET b == Bedrock(map, name)
    IN IF name \notin DOMAIN Candidates THEN map
       ELSE [c \in DOMAIN map \cup {b} |-> IF c = b THEN name ELSE map[c]]

\* The tools whose own name, accepted as it is, was given to another one: nothing
\* looks for that.
GivenAway == (ToolNames \ DOMAIN Candidates) \cap DOMAIN truncated

RestoreToolName(b) == IF b \in DOMAIN truncated THEN truncated[b] ELSE b

\* toBedrockTools: the list under its names, each named after those before it.
ToBedrockTools(s, list) ==
    LET map == FoldLeft(Named, truncated, list)
    IN /\ truncated' = map
       /\ asker' = [asker EXCEPT ![s] = [at |-> "shown", list |-> <<>>,
                                         shown |-> [i \in DOMAIN list |-> [name |-> Bedrock(map, list[i]), tool |-> list[i]]]]]

Fresh == toolsCache # NoAnswer /\ toolClock - toolsCache.at < ToolLife

Lists(s, place, list) == asker' = [asker EXCEPT ![s] = [at |-> place, list |-> list, shown |-> <<>>]]

ListCached(s) ==
    /\ asker[s].at = "idle" /\ Fresh
    /\ ToBedrockTools(s, toolsCache.list)
    /\ UNCHANGED <<tools, toolClock, toolsCache>>

ListPages(s) ==
    /\ asker[s].at = "idle" /\ ~Fresh
    /\ Lists(s, "listing", <<>>)
    /\ UNCHANGED <<tools, toolClock, toolsCache, truncated>>

\* Numbers in their order.
Ascending(names) ==
    [i \in 1 .. Cardinality(names) |->
        CHOOSE n \in names : Cardinality({m \in names : m <= n}) = i]

\* A page follows the last name listed; without a cursor to go on the list is
\* complete, and replaces what another request may have cached meanwhile.
ListPage(s) ==
    LET list == asker[s].list
        left == Ascending({n \in tools : \A i \in DOMAIN list : n > list[i]})
        page == list \o SubSeq(left, 1, Min({ToolPage, Len(left)}))
    IN /\ asker[s].at = "listing"
       /\ IF Len(left) > ToolPage
          THEN /\ Lists(s, "listing", page)
               /\ UNCHANGED <<toolsCache, truncated>>
          ELSE /\ toolsCache' = [list |-> page, at |-> toolClock]
               /\ ToBedrockTools(s, page)
       /\ UNCHANGED <<tools, toolClock>>

\* mcpCall throws, of an http error, an error in the payload or an empty stream, and
\* the request goes on without tools.
ListFails(s) ==
    /\ asker[s].at = "listing"
    /\ Lists(s, "over", <<>>)
    /\ UNCHANGED <<tools, toolClock, toolsCache, truncated>>

Ended(s) ==
    /\ asker[s].at = "shown"
    /\ Lists(s, "over", <<>>)
    /\ UNCHANGED <<tools, toolClock, toolsCache, truncated>>

ClientNext ==
    \/ Redeploy \/ ToolTick
    \/ \E s \in Askers : ListCached(s) \/ ListPages(s) \/ ListPage(s) \/ ListFails(s) \/ Ended(s)

-----------------------------------------------------------------------------
(***************************************************************************)
(* The dashboard as a server.  A request has a path; origin, that it came  *)
(* through CloudFront; scheme, "sts" or else; sts, what came of the        *)
(* presigned request; token and session, that they are right; body and     *)
(* call, what is asked for.  An environment has what is configured.        *)
(***************************************************************************)

\* verifyStsCallerIdentity and isAllowedMcpCaller: only an answer of STS with all
\* three fields names a caller; an entry of the list is an identity or a role.
CallerOf(sts) == IF sts.genuine /\ sts.answer = "identity" THEN {sts.caller} ELSE {}
IsAllowed(caller, env) == caller.account = env.account /\ {caller.arn, caller.role} \cap env.allowed # {}

Perimeter(req, env) == env.secret => req.origin
Public(req) == req.path = "static"
McpCaller(req, env) ==
    IF req.scheme = "sts" THEN \E caller \in CallerOf(req.sts) : IsAllowed(caller, env)
    ELSE env.token /\ req.token

\* middleware.
Admitted(req, env) ==
    \/ req.path = "health"
    \/ /\ Perimeter(req, env)
       /\ IF req.path = "mcp" THEN McpCaller(req, env) ELSE Public(req) \/ env.disabled \/ req.session
Refusal(req, env) ==
    IF ~Perimeter(req, env) THEN 403
    ELSE [mcp |-> IF req.scheme # "sts" /\ ~env.token THEN 404 ELSE 401,
          api |-> 401, page |-> 302][req.path]

\* handleMcpRequest: a notification has no answer; a tool that is not known or that
\* fails answers so.  `works` is what the tool's handler does.
HandleMcpRequest(call, works) ==
    LET Result(failed) == <<[id |-> call.id, code |-> 0, failed |-> failed]>>
    IN CASE call.method = "notification" -> <<>>
         [] call.method \in {"initialize", "tools/list"} -> Result(FALSE)
         [] call.method = "tools/call" -> Result(~call.known \/ ~works)
         [] OTHER -> <<[id |-> call.id, code |-> -32601, failed |-> TRUE]>>

\* An answer without a reply to the call.
Status(http) == [http |-> http, reply |-> <<>>]

\* The route of the tools.  A method that is no string makes the handler throw.
McpRoute(req, works) ==
    IF req.body = "request" /\ req.call.method = "malformed" THEN Status(500)
    ELSE IF req.body = "request"
    THEN LET reply == HandleMcpRequest(req.call, works)
         IN [http |-> IF reply = <<>> THEN 204 ELSE 200, reply |-> reply]
    ELSE [http |-> 400, reply |-> <<[id |-> NoAnswer, failed |-> TRUE,
                                     code |-> IF req.body = "unparsable" THEN -32700 ELSE -32600]>>]

VARIABLE served   \* NoAnswer, or a request, the environment and what was answered

Handled == 0   \* some other handler's own answer
ServeNext(requests, environments) ==
    /\ served = NoAnswer
    /\ \E req \in requests, env \in environments, works \in BOOLEAN :
          served' = [req |-> req, env |-> env,
                     answer |-> IF ~Admitted(req, env) THEN Status(Refusal(req, env))
                                ELSE IF req.path = "mcp" THEN McpRoute(req, works) ELSE Status(Handled)]

-----------------------------------------------------------------------------
\* A name the model was shown stays the name of the tool it was shown for, whatever
\* is listed and named meanwhile, and no two tools of a request share one ("keep a
\* map to restore the original for tools/call", mcp-client.ts:126), but for the
\* tools whose own name was given to another: nothing else disturbs a name.
ToolsKeepTheirNames ==
    \A s \in DOMAIN asker : LET shown == asker[s].shown IN
        /\ \A i \in DOMAIN shown :
              shown[i].tool \in GivenAway \/ RestoreToolName(shown[i].name) = shown[i].tool
        /\ \A i, j \in DOMAIN shown :
              shown[i].name = shown[j].name => i = j \/ {shown[i].tool, shown[j].tool} \cap GivenAway # {}

\* What the comments of middleware.ts promise: the toggle relaxes the session gate
\* alone (30-31), a session opens no tools and a token no presigned request (44-45),
\* so that an answer never depends on them; and whoever calls a tool is answered
\* once, with the identity of the call, even if the tool fails.
CallersAreAnswered ==
    served # NoAnswer =>
        LET req == served.req
            env == served.env
            answer == served.answer
        IN /\ Admitted(req, [env EXCEPT !.disabled = TRUE]) # Admitted(req, [env EXCEPT !.disabled = FALSE])
                 => req.path \in {"page", "api"} /\ Perimeter(req, env) /\ ~req.session
           /\ req.path = "mcp" => Admitted(req, env) = Admitted([req EXCEPT !.session = ~@], env)
           /\ req.path = "mcp" /\ req.scheme = "sts" => Admitted(req, env) = Admitted([req EXCEPT !.token = ~@], [env EXCEPT !.token = ~@])
           /\ answer.reply # <<>> => req.origin \/ ~env.secret
           /\ answer.http \in {200, 204} =>
                 /\ (answer.reply = <<>>) = (req.call.method = "notification")
                 /\ \A i \in DOMAIN answer.reply : answer.reply[i].id = req.call.id
=============================================================================
