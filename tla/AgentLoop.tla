----------------------------- MODULE AgentLoop ------------------------------
(***************************************************************************)
(* The dashboard's assistant route, app/src/app/api/ai/route.ts: every     *)
(* request runs model turns and the tools they ask for, and streams frames *)
(* to the browser: any number of chunks, one final frame, the end.  The    *)
(* diagnosis route, api/diagnose/route.ts, is the same with one turn and   *)
(* no tools.                                                               *)
(*                                                                         *)
(* Text is only whether there is any.  Chunks not read yet are one chunk.  *)
(***************************************************************************)
EXTENDS Naturals, Sequences

CONSTANTS
    Requests,   \* requests, each used once
    ToolUses,   \* tool calls one turn can contain
    MaxTurns,   \* turns of the loop, 8 in the code
    None

ASSUME TurnAssumption == MaxTurns \in Nat \ {0}
ASSUME NoneAssumption == None \notin {"done", "error", "read"} \cup Requests

VARIABLES
    agent,  \* per request: the route's progress and its conversation
    wire    \* per request: frames sent and not read, and how the stream ends

agentVars == <<agent, wire>>

Unused == [pc |-> "unused", turn |-> 0, tools |-> FALSE, todo |-> {}, results |-> {}, uses |-> {}, convo |-> <<>>]
NoWire == [chunk |-> FALSE, final |-> None, end |-> "open"]
Question == [role |-> "user", uses |-> {}, results |-> {}]

AgentInit ==
    /\ agent = [s \in Requests |-> Unused]
    /\ wire = [s \in Requests |-> NoWire]

\* send: frames go nowhere once the client has cancelled or lost the stream; what
\* the route still does then is not followed.
Sent(s, frame) ==
    IF wire[s].end # "open" THEN wire[s]
    ELSE IF frame = "chunk" THEN [wire[s] EXCEPT !.chunk = TRUE]
    ELSE [wire[s] EXCEPT !.final = frame, !.end = "closed"]

Goes(s, pc) == agent' = [agent EXCEPT ![s].pc = pc]
Ends(s) == agent' = [agent EXCEPT ![s] = [Unused EXCEPT !.pc = "over"]]

\* POST begins with a valid body; a rejected one never gets here.
Accept(s) ==
    /\ agent[s].pc = "unused"
    /\ agent' = [agent EXCEPT ![s] = [Unused EXCEPT !.pc = "setup", !.convo = <<Question>>]]

\* The gateway's address and its tools; a failure leaves the answer tool-less.
Setup(s, found) ==
    /\ agent[s].pc = "setup"
    /\ agent' = [agent EXCEPT ![s].pc = "turn", ![s].tools = found]
    /\ UNCHANGED wire

\* sendConverseStream: the model answers, the primary one or, when that is
\* unavailable, the fallback that the later turns stay with.
Converse(s) ==
    /\ agent[s].pc = "turn"
    /\ Goes(s, "stream")
    /\ UNCHANGED wire

\* Mutation of Fail: the stream is closed without the error frame.
FailSilently(s) ==
    /\ agent[s].pc \in {"turn", "stream"}
    /\ Ends(s)
    /\ wire' = [wire EXCEPT ![s].end = IF @ = "open" THEN "closed" ELSE @]

\* Any other failure of the model ends the stream with an error frame.
Fail(s) ==
    /\ agent[s].pc \in {"turn", "stream"}
    /\ Ends(s)
    /\ wire' = [wire EXCEPT ![s] = Sent(s, "error")]

Chunk(s) ==
    /\ agent[s].pc = "stream"
    /\ ~wire[s].chunk /\ wire[s].end = "open"
    /\ wire' = [wire EXCEPT ![s] = Sent(s, "chunk")]
    /\ UNCHANGED agent

\* The turn stops for tool calls; uses are the blocks that have an id and a name.
AskTools(s, uses) ==
    /\ agent[s].pc = "stream" /\ agent[s].tools
    /\ agent' = [agent EXCEPT ![s].pc = "tools", ![s].uses = uses, ![s].todo = uses,
                              ![s].results = {}]
    /\ UNCHANGED wire

\* Mutation of UseTool: a failed call has no result block.
UseToolIfItWorks(s, u, works) ==
    /\ agent[s].pc = "tools" /\ agent[s].todo # {}
    /\ u = CHOOSE x \in agent[s].todo : TRUE
    /\ agent' = [agent EXCEPT ![s].todo = @ \ {u},
                              ![s].results = IF works THEN @ \cup {u} ELSE @]
    /\ UNCHANGED wire

\* One call, in the order of the blocks.  Bad input and a failed call become the
\* result of this call alone.
UseTool(s, u, works) ==
    /\ agent[s].pc = "tools" /\ agent[s].todo # {}
    /\ u = CHOOSE x \in agent[s].todo : TRUE
    /\ agent' = [agent EXCEPT ![s].todo = @ \ {u}, ![s].results = @ \cup {u}]
    /\ UNCHANGED wire

\* Both messages join the conversation; after the last turn the answer is what
\* there is.
EndTurn(s) ==
    /\ agent[s].pc = "tools" /\ agent[s].todo = {}
    /\ agent' = [agent EXCEPT
         ![s].turn = @ + 1, ![s].uses = {}, ![s].results = {},
         ![s].pc = IF agent[s].turn + 1 < MaxTurns THEN "turn" ELSE "spent",
         ![s].convo = @ \o <<[role |-> "assistant", uses |-> agent[s].uses, results |-> {}],
                             [role |-> "user", uses |-> {}, results |-> agent[s].results]>>]
    /\ UNCHANGED wire

\* The turn stops for another reason, or was the last.  generateFollowups never
\* throws, whatever its model call does; then done.
Done(s) ==
    /\ agent[s].pc \in {"stream", "spent"}
    /\ Ends(s)
    /\ wire' = [wire EXCEPT ![s] = Sent(s, "done")]

\* The model runs every turn to an end: chunks alone are no progress.
AgentProgress(s) ==
    \/ \E found \in BOOLEAN : Setup(s, found)
    \/ Converse(s)
    \/ Fail(s)
    \/ \E uses \in SUBSET ToolUses : AskTools(s, uses)
    \/ \E u \in ToolUses, works \in BOOLEAN : UseTool(s, u, works)
    \/ EndTurn(s)
    \/ Done(s)

AgentStep(s) == Chunk(s) \/ AgentProgress(s)

\* What the model is given: every turn that called tools is followed by exactly
\* the results of its calls, whichever of them failed; the service refuses a
\* conversation in which one is missing or extra (route.ts: "Every toolResult
\* needs a matching toolUse block, even on failure").
ToolCallsAnswered ==
    \A s \in Requests : LET c == agent[s].convo IN
        /\ Len(c) <= 2 * MaxTurns + 1
        /\ \A i \in 1 .. Len(c) : c[i].role = "assistant" =>
             i < Len(c) /\ c[i + 1].role = "user" /\ c[i + 1].results = c[i].uses
=============================================================================
