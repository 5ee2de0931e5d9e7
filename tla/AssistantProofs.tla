-------------------------- MODULE AssistantProofs ---------------------------
(***************************************************************************)
(* Proofs about the assistant and its chat, for any number of documents,   *)
(* requests, tool calls and turns.                                         *)
(***************************************************************************)
EXTENDS ChatPanel, FiniteSetTheorems, TLAPS

USE TurnAssumption, NoneAssumption DEF TurnAssumption, NoneAssumption
-----------------------------------------------------------------------------
(* The route.                                                              *)

Turns == [role : {"user", "assistant"}, uses : SUBSET ToolUses, results : SUBSET ToolUses]
Agents == [pc : {"unused", "setup", "turn", "stream", "tools", "spent", "over"}, turn : Nat,
           tools : BOOLEAN, todo : SUBSET ToolUses, results : SUBSET ToolUses,
           uses : SUBSET ToolUses, convo : Seq(Turns)]

Answered(c) == \A i \in 1 .. Len(c) : c[i].role = "assistant" =>
                   i < Len(c) /\ c[i + 1].role = "user" /\ c[i + 1].results = c[i].uses

\* A turn under way is not the last one yet, and holds the results of the calls
\* it has made.
AgentOK(a) ==
    /\ Answered(a.convo) /\ Len(a.convo) <= 2 * a.turn + 1 /\ a.turn <= MaxTurns
    /\ a.pc \in {"setup", "turn", "stream", "tools"} => a.turn < MaxTurns
    /\ a.pc = "tools" => a.results = a.uses \ a.todo /\ a.todo \subseteq a.uses

AgentInv == agent \in [Requests -> Agents] /\ \A s \in Requests : AgentOK(agent[s])

(* The panels.                                                             *)

Messages == [role : {"user", "assistant"}, q : Questions \cup {None}, parts : SUBSET Requests,
             error : BOOLEAN]
Panels == [mounted : BOOLEAN, messages : Seq(Messages), streaming : BOOLEAN,
           partial : SUBSET Requests, last : Questions \cup {None},
           request : Requests \cup {None}, streams : SUBSET Requests]
Wires == [chunk : BOOLEAN, final : {None, "done", "error", "read"},
          end : {"open", "closed", "aborted"}]

PanelTypeOK ==
    /\ wire \in [Requests -> Wires] /\ doc \in [Docs -> Panels]
    /\ stored \in Seq(Messages) /\ events \subseteq Docs

\* A stream is closed by its final frame, after which the route is over.
WireInv == \A s \in Requests :
    /\ wire[s].final # None <=> wire[s].end = "closed"
    /\ wire[s].end = "closed" => agent[s].pc = "over"
    /\ wire[s].final = "read" => ~wire[s].chunk
    /\ agent[s].pc = "unused" => wire[s].end = "open"

Current(d, s) == doc[d].streaming /\ doc[d].request = s

Owned == \A d \in Docs : \A s \in doc[d].streams :
    agent[s].pc # "unused" /\ \A e \in Docs \ {d} : s \notin doc[e].streams

Unread(s) == wire[s].end # "aborted" /\ wire[s].final # "read"

\* Where nothing is crossed a panel reads the stream it waits for and no other, and
\* has streamed its text alone.
StreamOK(d) ==
    /\ doc[d].streaming => doc[d].request \in doc[d].streams
    /\ doc[d].request \in doc[d].streams \cup {None}
    /\ doc[d].partial \subseteq {doc[d].request} \/ doc[d].partial \cup {doc[d].request} \subseteq crossed
    /\ \A s \in doc[d].streams \ crossed : Current(d, s) <=> Unread(s)
    /\ doc[d].request \in crossed \/ \A s \in doc[d].streams : Unread(s) => s = doc[d].request

StreamInv == Owned /\ \A d \in Docs : StreamOK(d)

\* A history is separate but for the requests of a set.
Separate(list, mixed) == \A i, j \in DOMAIN list :
    /\ list[i].parts = {} \/ (\E s \in Requests : list[i].parts = {s}) \/ list[i].parts \subseteq mixed
    /\ i # j => list[i].parts \cap list[j].parts \subseteq mixed

Holds(list, s) == \E i \in DOMAIN list : s \in list[i].parts

\* Requests whose answer no history can hold yet.
Open == {s \in Requests \ crossed : agent[s].pc = "unused" \/ \E d \in Docs : Current(d, s)}

TextOK(list, open, mixed) ==
    list \in Seq(Messages) /\ Separate(list, mixed) /\ \A s \in open : ~Holds(list, s)
TextInv == TextOK(stored, Open, crossed) /\ \A d \in Docs : TextOK(doc[d].messages, Open, crossed)

ChatInv == AgentInv /\ PanelTypeOK /\ WireInv /\ StreamInv /\ TextInv /\ Converged
-----------------------------------------------------------------------------
(* The route's conversation.                                               *)

LEMMA InitAgent == AgentInit => AgentInv
  <1> SUFFICES ASSUME AgentInit PROVE AgentInv
    OBVIOUS
  <1>1. Unused \in Agents /\ AgentOK(Unused)
    BY DEF Unused, Agents, AgentOK, Answered
  <1> QED
    BY <1>1 DEF AgentInit, AgentInv

\* One request moves, the others stay.
LEMMA OneAgent ==
    ASSUME AgentInv, NEW s \in Requests, NEW a \in Agents, AgentOK(a), agent' = [agent EXCEPT ![s] = a]
    PROVE  AgentInv'
  BY DEF AgentInv

LEMMA EndedAgent ==
    ASSUME AgentInv, NEW s, Ends(s)
    PROVE  AgentInv'
  <1>1. Unused \in Agents /\ Unused.convo = <<>> /\ Unused.turn = 0
    BY DEF Unused, Agents
  <1>2. [Unused EXCEPT !.pc = "over"] \in Agents
    BY <1>1 DEF Agents
  <1>3. AgentOK([Unused EXCEPT !.pc = "over"])
    BY DEF Unused, AgentOK, Answered
  <1>4. CASE s \in Requests
    BY <1>2, <1>3, <1>4, OneAgent DEF Ends
  <1>5. CASE s \notin Requests
    <2>1. agent' = agent
      BY <1>5 DEF Ends, AgentInv
    <2> QED
      BY <2>1 DEF AgentInv
  <1> QED
    BY <1>4, <1>5

LEMMA AcceptedAgent ==
    ASSUME AgentInv, NEW s \in Requests, Accept(s)
    PROVE  AgentInv'
  <1> DEFINE a == [Unused EXCEPT !.pc = "setup", !.convo = <<Question>>]
  <1>1. Question \in Turns /\ Question.role = "user"
    BY DEF Question, Turns
  <1>2. <<Question>> \in Seq(Turns) /\ Len(<<Question>>) = 1 /\ <<Question>>[1] = Question
    BY <1>1
  <1> HIDE DEF Question
  <1>3. a \in Agents
    BY <1>2 DEF Unused, Agents
  <1>4. AgentOK(a)
    BY <1>1, <1>2 DEF Unused, AgentOK, Answered
  <1> QED
    BY <1>3, <1>4, OneAgent DEF Accept

\* A turn that called tools adds its message and the results.
LEMMA TurnAnswered ==
    ASSUME NEW c \in Seq(Turns), Answered(c),
           NEW x \in Turns, NEW y \in Turns, y.role = "user", y.results = x.uses
    PROVE  LET d == c \o <<x, y>> IN d \in Seq(Turns) /\ Len(d) = Len(c) + 2 /\ Answered(d)
  <1> DEFINE d == c \o <<x, y>>
  <1>1. <<x, y>> \in Seq(Turns) /\ Len(<<x, y>>) = 2 /\ <<x, y>>[1] = x /\ <<x, y>>[2] = y
    OBVIOUS
  <1>2. d \in Seq(Turns) /\ Len(d) = Len(c) + 2 /\ Len(c) \in Nat
    BY <1>1
  <1>3. /\ \A i \in 1 .. Len(c) : d[i] = c[i]
        /\ d[Len(c) + 1] = x /\ d[Len(c) + 2] = y
    BY <1>1, <1>2
  <1> HIDE DEF d
  <1>4. ASSUME NEW i \in 1 .. Len(d), d[i].role = "assistant"
        PROVE  i < Len(d) /\ d[i + 1].role = "user" /\ d[i + 1].results = d[i].uses
    <2>1. CASE i \in 1 .. Len(c)
      <3>1. i < Len(c) /\ c[i + 1].role = "user" /\ c[i + 1].results = c[i].uses
        BY <1>3, <1>4, <2>1 DEF Answered
      <3>2. i + 1 \in 1 .. Len(c)
        BY <1>2, <2>1, <3>1
      <3> QED
        BY <1>2, <1>3, <2>1, <3>1, <3>2
    <2>2. CASE i = Len(c) + 1
      BY <1>2, <1>3, <2>2
    <2>3. CASE i = Len(c) + 2
      BY <1>3, <1>4, <2>3
    <2> QED
      BY <1>2, <2>1, <2>2, <2>3
  <1> QED
    BY <1>2, <1>4 DEF Answered, d

LEMMA RouteAgent ==
    ASSUME AgentInv, NEW s \in Requests, AgentStep(s)
    PROVE  AgentInv'
  <1> DEFINE a == agent[s]
  <1>1. a \in Agents /\ AgentOK(a) /\ agent \in [Requests -> Agents]
    BY DEF AgentInv
  <1> HIDE DEF a
  <1>2. ASSUME NEW found \in BOOLEAN, Setup(s, found) PROVE AgentInv'
    <2>1. agent' = [agent EXCEPT ![s] = [a EXCEPT !.pc = "turn", !.tools = found]] /\ a.pc = "setup"
      BY <1>2 DEF Setup, a
    <2>2. [a EXCEPT !.pc = "turn", !.tools = found] \in Agents
      BY <1>1 DEF Agents
    <2>3. AgentOK([a EXCEPT !.pc = "turn", !.tools = found])
      BY <1>1, <2>1 DEF AgentOK, Agents
    <2> QED
      BY <2>1, <2>2, <2>3, OneAgent
  <1>3. CASE Converse(s)
    <2>1. agent' = [agent EXCEPT ![s] = [a EXCEPT !.pc = "stream"]] /\ a.pc = "turn"
      BY <1>3 DEF Converse, Goes, a
    <2>2. [a EXCEPT !.pc = "stream"] \in Agents /\ AgentOK([a EXCEPT !.pc = "stream"])
      BY <1>1, <2>1 DEF AgentOK, Agents
    <2> QED
      BY <2>1, <2>2, OneAgent
  <1>4. ASSUME NEW uses \in SUBSET ToolUses, AskTools(s, uses) PROVE AgentInv'
    <2> DEFINE b == [a EXCEPT !.pc = "tools", !.uses = uses, !.todo = uses, !.results = {}]
    <2>1. agent' = [agent EXCEPT ![s] = b] /\ a.pc = "stream"
      BY <1>4 DEF AskTools, a
    <2>2. b \in Agents
      BY <1>1 DEF Agents
    <2>3. AgentOK(b)
      BY <1>1, <2>1 DEF AgentOK, Agents
    <2> QED
      BY <2>1, <2>2, <2>3, OneAgent
  <1>5. ASSUME NEW u \in ToolUses, NEW works \in BOOLEAN, UseTool(s, u, works) PROVE AgentInv'
    <2> DEFINE b == [a EXCEPT !.todo = a.todo \ {u}, !.results = a.results \cup {u}]
    <2>1. a.pc = "tools" /\ a.todo # {} /\ u = CHOOSE x \in a.todo : TRUE
      BY <1>5 DEF UseTool, a
    <2>2. agent' = [agent EXCEPT ![s] = b]
      BY <1>5 DEF UseTool, a
    <2>3. u \in a.todo
      BY <2>1
    <2>4. b \in Agents
      BY <1>1 DEF Agents
    <2>5. a.results = a.uses \ a.todo /\ a.todo \subseteq a.uses
      BY <1>1, <2>1 DEF AgentOK
    <2>6. a.results \cup {u} = a.uses \ (a.todo \ {u})
      BY <2>3, <2>5
    <2>7. AgentOK(b)
      BY <1>1, <2>1, <2>5, <2>6 DEF AgentOK, Agents
    <2> QED
      BY <2>2, <2>4, <2>7, OneAgent
  <1>6. CASE EndTurn(s)
    <2> DEFINE x == [role |-> "assistant", uses |-> a.uses, results |-> {}]
               y == [role |-> "user", uses |-> {}, results |-> a.results]
               c == a.convo \o <<x, y>>
               pc == IF a.turn + 1 < MaxTurns THEN "turn" ELSE "spent"
               b == [a EXCEPT !.turn = a.turn + 1, !.uses = {}, !.results = {}, !.pc = pc, !.convo = c]
    <2>1. a.pc = "tools" /\ a.todo = {} /\ agent' = [agent EXCEPT ![s] = b]
      BY <1>6 DEF EndTurn, a
    <2>2. a.results = a.uses /\ a.turn \in Nat /\ a.turn < MaxTurns /\ Answered(a.convo)
          /\ Len(a.convo) <= 2 * a.turn + 1 /\ a.convo \in Seq(Turns) /\ a.uses \in SUBSET ToolUses
      BY <1>1, <2>1 DEF AgentOK, Agents
    <2>3. c \in Seq(Turns) /\ Len(c) = Len(a.convo) + 2 /\ Answered(c)
      <3>1. x \in Turns /\ y \in Turns /\ y.role = "user" /\ y.results = x.uses
        BY <2>2 DEF Turns
      <3> HIDE DEF x, y
      <3> QED
        BY <2>2, <3>1, TurnAnswered
    <2>4. pc \in {"turn", "spent"} /\ (pc = "turn" => a.turn + 1 < MaxTurns)
      OBVIOUS
    <2> HIDE DEF c, pc
    <2>5. b \in Agents
      <3>1. c \in Seq(Turns) /\ pc \in {"turn", "spent"} /\ a.turn + 1 \in Nat
        BY <2>2, <2>3, <2>4
      <3> QED
        BY <1>1, <3>1 DEF Agents
    <2>6. b.convo = c /\ b.turn = a.turn + 1 /\ b.pc = pc
      BY <1>1 DEF Agents
    <2>7. AgentOK(b)
      <3>1. Len(c) <= 2 * (a.turn + 1) + 1 /\ a.turn + 1 <= MaxTurns
        BY <2>2, <2>3
      <3> QED
        BY <2>3, <2>4, <2>6, <3>1 DEF AgentOK
    <2> QED
      BY <2>1, <2>5, <2>7, OneAgent
  <1>7. CASE Fail(s) \/ Done(s)
    BY <1>7, EndedAgent DEF Fail, Done
  <1>8. CASE Chunk(s)
    BY <1>8 DEF Chunk, AgentInv
  <1> QED
    BY <1>2, <1>3, <1>4, <1>5, <1>6, <1>7, <1>8 DEF AgentStep, AgentProgress

\* The panels start requests and abort them, and change nothing else of a route.
LEMMA NextAgent == ASSUME AgentInv, [Next]_vars PROVE AgentInv'
  <1>1. ASSUME NEW d \in Docs, NEW s, Abort(s) PROVE AgentInv'
    BY <1>1, EndedAgent DEF Abort
  <1>2. ASSUME NEW d \in Docs, Unmount(d) \/ Stop(d) PROVE AgentInv'
    <2>1. Abort(doc[d].request) \/ UNCHANGED agent
      BY <1>2 DEF Unmount, Stop, agentVars
    <2> QED
      BY <1>1, <2>1 DEF AgentInv
  <1>3. ASSUME NEW d \in Docs, NEW s \in Requests, Refused(d, s) \/ OnEnd(d, s) \/ Break(d, s)
        PROVE  AgentInv'
    BY <1>1, <1>3 DEF Refused, OnEnd, Break
  <1>4. ASSUME NEW d \in Docs, Retry(d) \/ \E q \in Questions : Send(d, q) PROVE AgentInv'
    <2>1. PICK s \in Fresh : Accept(s)
      BY <1>4 DEF Retry, Send
    <2> QED
      BY <2>1, AcceptedAgent DEF Fresh
  <1>5. ASSUME NEW d \in Docs, Mount(d) \/ OnStorage(d) \/ \E s \in Requests : OnChunk(d, s) \/ OnFinal(d, s)
        PROVE  AgentInv'
    BY <1>5 DEF Mount, OnStorage, OnChunk, OnFinal, AgentInv
  <1>6. CASE UNCHANGED vars
    BY <1>6 DEF vars, AgentInv
  <1> QED
    BY <1>2, <1>3, <1>4, <1>5, <1>6, RouteAgent DEF Next

(* What the model is given holds exactly the results of each turn's calls, *)
(* whichever of them failed (route.ts).                                    *)
THEOREM ToolCallsAreAnswered == Spec => []ToolCallsAnswered
  <1>1. AgentInv => ToolCallsAnswered
    <2> SUFFICES ASSUME AgentInv, NEW s \in Requests
                 PROVE  /\ Len(agent[s].convo) <= 2 * MaxTurns + 1
                        /\ Answered(agent[s].convo)
      BY DEF ToolCallsAnswered, Answered
    <2>1. agent[s] \in Agents /\ AgentOK(agent[s])
      BY DEF AgentInv
    <2>2. agent[s].turn \in Nat /\ Len(agent[s].convo) \in Nat
      BY <2>1 DEF Agents
    <2> QED
      BY <2>1, <2>2 DEF AgentOK
  <1>2. Init => AgentInv
    BY InitAgent DEF Init
  <1> QED
    BY <1>1, <1>2, NextAgent, PTL DEF Spec
-----------------------------------------------------------------------------
(* Histories.                                                              *)

LEMMA AppendText ==
    ASSUME NEW open, NEW mixed, NEW list, TextOK(list, open, mixed), NEW m \in Messages,
           m.parts = {} \/ (\E s \in open \cap Requests : m.parts = {s}) \/ m.parts \subseteq mixed
    PROVE  TextOK(Append(list, m), open \ m.parts, mixed)
  <1> DEFINE new == Append(list, m)
  <1>1. list \in Seq(Messages) /\ Len(list) \in Nat /\ DOMAIN list = 1 .. Len(list)
    BY DEF TextOK
  <1>2. /\ new \in Seq(Messages) /\ DOMAIN new = 1 .. Len(list) + 1
        /\ \A i \in 1 .. Len(list) : new[i] = list[i]
        /\ new[Len(list) + 1] = m
    BY <1>1
  <1> HIDE DEF new
  <1>3. \A i \in 1 .. Len(list) : list[i].parts \cap m.parts \subseteq mixed
    BY <1>1 DEF TextOK, Holds
  <1>4. Separate(new, mixed)
    <2> SUFFICES ASSUME NEW i \in 1 .. Len(list) + 1, NEW j \in 1 .. Len(list) + 1
                 PROVE  /\ \/ new[i].parts = {} \/ \E s \in Requests : new[i].parts = {s}
                           \/ new[i].parts \subseteq mixed
                        /\ i # j => new[i].parts \cap new[j].parts \subseteq mixed
      BY <1>2 DEF Separate
    <2>1. CASE i \in 1 .. Len(list) /\ j \in 1 .. Len(list)
      BY <1>1, <1>2, <2>1 DEF TextOK, Separate
    <2>2. CASE i = Len(list) + 1 /\ j \in 1 .. Len(list)
      BY <1>2, <1>3, <2>2
    <2>3. CASE i \in 1 .. Len(list) /\ j = Len(list) + 1
      <3>1. \/ new[i].parts = {} \/ \E s \in Requests : new[i].parts = {s}
            \/ new[i].parts \subseteq mixed
        BY <1>1, <1>2, <2>3 DEF TextOK, Separate
      <3> QED
        BY <1>2, <1>3, <2>3, <3>1
    <2>4. CASE i = Len(list) + 1 /\ j = Len(list) + 1
      BY <1>2, <2>4
    <2> QED
      BY <1>1, <2>1, <2>2, <2>3, <2>4
  <1>5. \A s \in open \ m.parts : ~Holds(new, s)
    <2> SUFFICES ASSUME NEW s \in open \ m.parts, NEW i \in 1 .. Len(list) + 1, s \in new[i].parts
                 PROVE  FALSE
      BY <1>2 DEF Holds
    <2>1. i \in 1 .. Len(list)
      BY <1>1, <1>2
    <2> QED
      BY <1>1, <1>2, <2>1 DEF TextOK, Holds
  <1> QED
    BY <1>2, <1>4, <1>5 DEF TextOK, new

LEMMA FrontText ==
    ASSUME NEW open, NEW mixed, NEW list, TextOK(list, open, mixed), list # <<>>
    PROVE  TextOK(Front(list), open, mixed)
  <1> DEFINE new == Front(list)
  <1>1. list \in Seq(Messages) /\ Len(list) \in Nat /\ DOMAIN list = 1 .. Len(list) /\ Len(list) # 0
    BY DEF TextOK
  <1>2. /\ new \in Seq(Messages) /\ DOMAIN new \subseteq DOMAIN list
        /\ \A i \in DOMAIN new : new[i] = list[i]
    BY <1>1 DEF Front
  <1> HIDE DEF new
  <1>3. Separate(new, mixed)
    BY <1>2 DEF TextOK, Separate
  <1>4. \A s \in open : ~Holds(new, s)
    BY <1>2 DEF TextOK, Holds
  <1> QED
    BY <1>2, <1>3, <1>4 DEF TextOK, new

LEMMA PoppedText ==
    ASSUME NEW open, NEW mixed, NEW list, TextOK(list, open, mixed), NEW q
    PROVE  TextOK(Popped(list, q), open, mixed)
  <1> DEFINE kept == IF list # <<>> /\ Last(list).error THEN Front(list) ELSE list
  <1>1. TextOK(kept, open, mixed)
    BY FrontText
  <1> HIDE DEF kept
  <1>2. TextOK(IF kept # <<>> /\ Last(kept) = User(q) THEN Front(kept) ELSE kept, open, mixed)
    BY <1>1, FrontText
  <1> QED
    BY <1>2 DEF Popped, kept

\* A history stays separate while no request becomes open again and none is
\* crossed no more.
LEMMA TextStays ==
    ASSUME NEW open, NEW fewer, fewer \subseteq open, NEW mixed, NEW more, mixed \subseteq more,
           NEW list, TextOK(list, open, mixed)
    PROVE  TextOK(list, fewer, more)
  <1>1. Separate(list, more)
    BY DEF TextOK, Separate
  <1> QED
    BY <1>1 DEF TextOK

\* A panel that does not change, of whose streams no other is read to the end.
LEMMA SameStreams ==
    ASSUME NEW e \in Docs, StreamOK(e), crossed \subseteq crossed',
           doc'[e].streaming = doc[e].streaming, doc'[e].request = doc[e].request,
           doc'[e].partial = doc[e].partial, doc'[e].streams = doc[e].streams,
           \A r \in doc[e].streams : Unread(r)' <=> Unread(r)
    PROVE  StreamOK(e)'
  <1>1. \A r \in doc[e].streams : Current(e, r)' <=> Current(e, r)
    BY DEF Current
  <1>2. \A r \in doc'[e].streams \ crossed' : Current(e, r)' <=> Unread(r)'
    BY <1>1 DEF StreamOK
  <1>3. doc'[e].request \in crossed' \/ \A r \in doc'[e].streams : Unread(r)' => r = doc'[e].request
    BY DEF StreamOK
  <1>4. /\ doc'[e].streaming => doc'[e].request \in doc'[e].streams
        /\ doc'[e].request \in doc'[e].streams \cup {None}
        /\ doc'[e].partial \subseteq {doc'[e].request} \/ doc'[e].partial \cup {doc'[e].request} \subseteq crossed'
    BY DEF StreamOK
  <1> QED
    BY <1>2, <1>3, <1>4 DEF StreamOK

LEMMA NobodyAsked == Init => ChatInv
  <1> SUFFICES ASSUME Init PROVE ChatInv
    OBVIOUS
  <1>1. AgentInv
    BY InitAgent DEF Init
  <1>2. NoWire \in Wires /\ NoWire.end = "open" /\ NoWire.final = None /\ <<>> \in Seq(Messages)
    BY DEF NoWire, Wires
  <1>3. Closed \in Panels
    BY <1>2 DEF Closed, Panels
  <1>4. /\ wire = [s \in Requests |-> NoWire] /\ doc = [d \in Docs |-> Closed]
        /\ stored = <<>> /\ events = {}
    BY DEF Init, AgentInit
  <1>5. PanelTypeOK
    BY <1>2, <1>3, <1>4 DEF PanelTypeOK
  <1>6. WireInv
    BY <1>2, <1>4 DEF WireInv
  <1>7. \A d \in Docs : /\ ~doc[d].streaming /\ ~doc[d].mounted /\ doc[d].messages = <<>>
                        /\ doc[d].streams = {} /\ doc[d].request = None /\ doc[d].partial = {}
    BY <1>4 DEF Closed
  <1>8. StreamInv /\ Converged
    BY <1>7 DEF StreamInv, StreamOK, Owned, Converged
  <1>9. TextOK(<<>>, Open, crossed)
    BY <1>2 DEF TextOK, Separate, Holds
  <1> QED
    BY <1>1, <1>4, <1>5, <1>6, <1>7, <1>8, <1>9 DEF ChatInv, TextInv

\* A step of the route: the frames it sends open no stream again.
LEMMA RouteChat ==
    ASSUME ChatInv, NEW s \in Requests, AgentStep(s), UNCHANGED clientVars
    PROVE  ChatInv'
  <1>1. AgentInv' /\ agent \in [Requests -> Agents] /\ agent' \in [Requests -> Agents]
        /\ wire \in [Requests -> Wires]
    BY RouteAgent DEF ChatInv, AgentInv, PanelTypeOK
  <1> DEFINE closed(frame) == [wire[s] EXCEPT !.final = frame, !.end = "closed"]
  <1>2. /\ agent[s].pc # "unused" /\ agent'[s].pc # "unused"
        /\ \A r \in Requests \ {s} : agent'[r] = agent[r]
    <2>1. CASE Chunk(s)
      BY <2>1 DEF Chunk
    <2>2. CASE Fail(s) \/ Done(s)
      BY <1>1, <2>2 DEF Fail, Done, Ends, Unused
    <2>3. CASE EndTurn(s)
      <3> DEFINE pc == IF agent[s].turn + 1 < MaxTurns THEN "turn" ELSE "spent"
      <3>1. pc # "unused" /\ agent'[s].pc = pc /\ agent[s].pc = "tools"
        BY <1>1, <2>3 DEF EndTurn, Agents
      <3> QED
        BY <1>1, <2>3, <3>1 DEF EndTurn
    <2>4. CASE (\E found \in BOOLEAN : Setup(s, found)) \/ Converse(s)
      BY <1>1, <2>4 DEF Setup, Converse, Goes, Agents
    <2>5. ASSUME NEW uses \in SUBSET ToolUses, AskTools(s, uses)
          PROVE  /\ agent[s].pc # "unused" /\ agent'[s].pc # "unused"
                 /\ \A r \in Requests \ {s} : agent'[r] = agent[r]
      BY <1>1, <2>5 DEF AskTools, Agents
    <2>6. ASSUME NEW u \in ToolUses, NEW works \in BOOLEAN, UseTool(s, u, works)
          PROVE  /\ agent[s].pc # "unused" /\ agent'[s].pc # "unused"
                 /\ \A r \in Requests \ {s} : agent'[r] = agent[r]
      <3>1. agent'[s].pc = agent[s].pc
        BY <1>1, <2>6 DEF UseTool, Agents
      <3> QED
        BY <1>1, <2>6, <3>1 DEF UseTool
    <2> QED
      BY <2>1, <2>2, <2>3, <2>4, <2>5, <2>6 DEF AgentStep, AgentProgress
  <1>3. \/ wire' = wire
        \/ agent[s].pc = "stream" /\ wire[s].end = "open" /\ UNCHANGED agent
           /\ wire' = [wire EXCEPT ![s] = [wire[s] EXCEPT !.chunk = TRUE]]
        \/ wire[s].end = "open" /\ agent'[s].pc = "over"
           /\ \E frame \in {"done", "error"} : wire' = [wire EXCEPT ![s] = closed(frame)]
    <2>1. CASE Chunk(s)
      BY <1>1, <2>1 DEF Chunk, Sent
    <2>2. CASE Fail(s) \/ Done(s)
      <3>1. PICK frame \in {"done", "error"} : wire' = [wire EXCEPT ![s] = Sent(s, frame)]
        BY <2>2 DEF Fail, Done
      <3>2. agent'[s].pc = "over"
        BY <1>1, <2>2 DEF Fail, Done, Ends, Unused
      <3>3. CASE wire[s].end = "open"
        BY <1>1, <3>1, <3>2, <3>3 DEF Sent
      <3>4. CASE wire[s].end # "open"
        BY <1>1, <3>1, <3>4 DEF Sent
      <3> QED
        BY <3>3, <3>4
    <2>3. ASSUME ~Chunk(s), ~Fail(s), ~Done(s) PROVE UNCHANGED wire
      BY <2>3 DEF AgentStep, AgentProgress, Setup, Converse, AskTools, UseTool, EndTurn
    <2> QED
      BY <2>1, <2>2, <2>3
  <1>4. /\ wire' \in [Requests -> Wires] /\ \A r \in Requests \ {s} : wire'[r] = wire[r]
        /\ \/ wire'[s] = wire[s] /\ (wire[s].end = "closed" => agent'[s].pc = "over")
           \/ /\ wire[s].end = "open" /\ wire'[s].end = "open" /\ wire'[s].final = wire[s].final
           \/ /\ wire[s].end = "open" /\ agent'[s].pc = "over"
              /\ wire'[s].end = "closed" /\ wire'[s].final \in {"done", "error"}
    <2>1. CASE wire' = wire
      <3>1. wire[s].end = "closed" => agent'[s].pc = "over"
        <4> SUFFICES ASSUME wire[s].end = "closed" PROVE agent'[s].pc = "over"
          OBVIOUS
        <4>1. agent[s].pc = "over"
          BY DEF ChatInv, WireInv
        <4> QED
          BY <4>1 DEF AgentStep, AgentProgress, Chunk, Setup, Converse, Fail, AskTools, UseTool, EndTurn, Done
      <3> QED
        BY <1>1, <2>1, <3>1
    <2>2. CASE /\ wire[s].end = "open"
               /\ wire' = [wire EXCEPT ![s] = [wire[s] EXCEPT !.chunk = TRUE]]
      BY <1>1, <2>2 DEF Wires
    <2>3. ASSUME NEW frame \in {"done", "error"}, wire[s].end = "open", agent'[s].pc = "over",
                 wire' = [wire EXCEPT ![s] = closed(frame)]
          PROVE  /\ wire' \in [Requests -> Wires] /\ \A r \in Requests \ {s} : wire'[r] = wire[r]
                 /\ wire'[s].end = "closed" /\ wire'[s].final = frame
      BY <1>1, <2>3 DEF Wires
    <2> QED
      BY <1>3, <2>1, <2>2, <2>3
  <1>5. WireInv'
    BY <1>1, <1>2, <1>4 DEF ChatInv, WireInv
  <1>6. UNCHANGED <<doc, stored, events, crossed>>
    BY DEF clientVars
  <1>7. \A d \in Docs, r \in Requests : Current(d, r)' <=> Current(d, r)
    BY <1>6 DEF Current
  <1>8. StreamInv'
    <2>1. \A r \in Requests : Unread(r)' <=> Unread(r)
      <3>1. \A r \in Requests \ {s} : Unread(r)' <=> Unread(r)
        BY <1>4 DEF Unread
      <3>2. wire[s].end = "open" => wire[s].final # "read"
        BY DEF ChatInv, WireInv
      <3>3. Unread(s)' <=> Unread(s)
        BY <1>4, <3>2 DEF Unread
      <3> QED
        BY <3>1, <3>3
    <2>2. \A d \in Docs : doc[d].streams \subseteq Requests
      BY DEF ChatInv, PanelTypeOK, Panels
    <2>3. ASSUME NEW d \in Docs PROVE StreamOK(d)'
      BY <1>6, <2>1, <2>2, SameStreams DEF ChatInv, StreamInv
    <2>4. Owned'
      BY <1>2, <1>6, <2>2 DEF ChatInv, StreamInv, Owned
    <2> QED
      BY <2>3, <2>4 DEF StreamInv
  <1>9. Open' = Open
    BY <1>2, <1>6, <1>7 DEF Open
  <1> QED
    BY <1>1, <1>4, <1>5, <1>6, <1>8, <1>9 DEF ChatInv, TextInv, PanelTypeOK, Converged

\* One panel changes, the others stay.
LEMMA OnePanel ==
    ASSUME PanelTypeOK, NEW d \in Docs, NEW p \in Panels, doc' = [doc EXCEPT ![d] = p]
    PROVE  doc' \in [Docs -> Panels] /\ doc'[d] = p /\ \A e \in Docs \ {d} : doc'[e] = doc[e]
  BY DEF PanelTypeOK

\* A request that is aborted is over and read no more.
LEMMA AbortWire ==
    ASSUME ChatInv, NEW s \in Requests, Abort(s)
    PROVE  /\ AgentInv' /\ wire' \in [Requests -> Wires] /\ WireInv'
           /\ wire'[s].end = "aborted" /\ agent'[s].pc = "over"
           /\ \A r \in Requests \ {s} : wire'[r] = wire[r] /\ agent'[r] = agent[r]
  <1>1. agent \in [Requests -> Agents] /\ wire \in [Requests -> Wires]
    BY DEF ChatInv, AgentInv, PanelTypeOK
  <1>2. AgentInv'
    BY EndedAgent DEF Abort, ChatInv
  <1>3. agent'[s].pc = "over" /\ \A r \in Requests \ {s} : agent'[r] = agent[r]
    BY <1>1 DEF Abort, Ends, Unused
  <1>4. [NoWire EXCEPT !.end = "aborted"] \in Wires
    BY DEF NoWire, Wires
  <1>5. /\ wire' \in [Requests -> Wires] /\ \A r \in Requests \ {s} : wire'[r] = wire[r]
        /\ wire'[s].end = "aborted" /\ wire'[s].final = None /\ wire'[s].chunk = FALSE
    BY <1>1, <1>4 DEF Abort, NoWire
  <1>6. WireInv'
    BY <1>3, <1>5 DEF ChatInv, WireInv
  <1> QED
    BY <1>2, <1>3, <1>5, <1>6

\* A panel takes the stored history: when it is mounted, and on a storage event.
LEMMA MountChat == ASSUME ChatInv, NEW d \in Docs, Mount(d) PROVE ChatInv'
  <1> DEFINE p == [Closed EXCEPT !.mounted = TRUE, !.messages = stored]
  <1>1. p \in Panels
    BY DEF ChatInv, PanelTypeOK, Closed, Panels
  <1>2. doc' \in [Docs -> Panels] /\ doc'[d] = p /\ \A e \in Docs \ {d} : doc'[e] = doc[e]
    BY <1>1, OnePanel DEF ChatInv, Mount
  <1>3. /\ ~p.streaming /\ p.messages = stored /\ p.streams = {} /\ p.request = None /\ p.partial = {}
    BY DEF Closed
  <1> HIDE DEF p
  <1>4. UNCHANGED <<agent, wire, stored, crossed>> /\ events' = events \ {d}
    BY DEF Mount
  <1>5. \A e \in Docs, r \in Requests : Current(e, r)' => Current(e, r)
    BY <1>2, <1>3 DEF Current
  <1>6. StreamInv'
    <2>1. ASSUME NEW e \in Docs \ {d} PROVE StreamOK(e)'
      <3>1. StreamOK(e) /\ doc'[e] = doc[e] /\ \A r \in doc[e].streams : Unread(r)' <=> Unread(r)
        BY <1>2, <1>4 DEF ChatInv, StreamInv, Unread
      <3> QED
        BY <1>4, <3>1, SameStreams
    <2>2. StreamOK(d)'
      BY <1>2, <1>3 DEF StreamOK
    <2>3. Owned'
      BY <1>2, <1>3, <1>4 DEF ChatInv, StreamInv, Owned
    <2> QED
      BY <2>1, <2>2, <2>3 DEF StreamInv
  <1>7. TextInv'
    <2>1. Open' \subseteq Open
      BY <1>4, <1>5 DEF Open
    <2> QED
      BY <1>2, <1>3, <1>4, <2>1, TextStays DEF ChatInv, TextInv
  <1>8. Converged'
    BY <1>2, <1>3, <1>4 DEF ChatInv, Converged
  <1> QED
    BY <1>2, <1>4, <1>6, <1>7, <1>8 DEF ChatInv, AgentInv, WireInv, PanelTypeOK

LEMMA OnStorageChat == ASSUME ChatInv, NEW d \in Docs, OnStorage(d) PROVE ChatInv'
  <1> DEFINE p == [doc[d] EXCEPT !.messages = stored]
  <1>1. p \in Panels /\ doc[d] \in Panels
    BY DEF ChatInv, PanelTypeOK, Panels
  <1>2. doc' \in [Docs -> Panels] /\ doc'[d] = p /\ \A e \in Docs \ {d} : doc'[e] = doc[e]
    <2>1. doc' = [doc EXCEPT ![d] = p]
      BY DEF OnStorage
    <2> QED
      BY <1>1, <2>1, OnePanel DEF ChatInv
  <1>3. /\ p.streaming = doc[d].streaming /\ p.messages = stored /\ p.streams = doc[d].streams
        /\ p.request = doc[d].request /\ p.partial = doc[d].partial /\ p.mounted = doc[d].mounted
    BY <1>1 DEF Panels
  <1> HIDE DEF p
  <1>4. UNCHANGED <<agent, wire, stored, crossed>> /\ events' = events \ {d}
    BY DEF OnStorage
  <1>5. \A e \in Docs : /\ doc'[e].streaming = doc[e].streaming /\ doc'[e].streams = doc[e].streams
                        /\ doc'[e].request = doc[e].request /\ doc'[e].partial = doc[e].partial
    BY <1>2, <1>3
  <1>6. \A e \in Docs, r \in Requests : Current(e, r)' <=> Current(e, r)
    BY <1>5 DEF Current
  <1>7. StreamInv'
    <2>1. ASSUME NEW e \in Docs PROVE StreamOK(e)'
      <3>1. StreamOK(e) /\ \A r \in doc[e].streams : Unread(r)' <=> Unread(r)
        BY <1>4 DEF ChatInv, StreamInv, Unread
      <3> QED
        BY <1>4, <1>5, <3>1, SameStreams
    <2>2. Owned'
      BY <1>4, <1>5 DEF ChatInv, StreamInv, Owned
    <2> QED
      BY <2>1, <2>2 DEF StreamInv
  <1>8. TextInv'
    <2>1. Open' = Open
      BY <1>4, <1>6 DEF Open
    <2> QED
      BY <1>2, <1>3, <1>4, <2>1 DEF ChatInv, TextInv
  <1>9. Converged'
    BY <1>2, <1>3, <1>4 DEF ChatInv, Converged
  <1> QED
    BY <1>2, <1>4, <1>7, <1>8, <1>9 DEF ChatInv, AgentInv, WireInv, PanelTypeOK

\* A panel that goes away aborts the stream it waits for: what its readers still
\* go on with is crossed, or has been read to the final frame.
LEMMA UnmountChat == ASSUME ChatInv, NEW d \in Docs, Unmount(d) PROVE ChatInv'
  <1> DEFINE left == [doc[d] EXCEPT !.mounted = FALSE, !.streaming = FALSE]
             p == IF Reading(d) \subseteq {doc[d].request} THEN Closed ELSE left
  <1>1. doc[d] \in Panels /\ doc[d].streams \subseteq Requests /\ StreamOK(d)
    BY DEF ChatInv, PanelTypeOK, Panels, StreamInv
  <1>2. Closed \in Panels /\ left \in Panels
    <2>1. <<>> \in Seq(Messages)
      OBVIOUS
    <2> QED
      BY <1>1, <2>1 DEF Closed, Panels
  <1>3. doc' \in [Docs -> Panels] /\ doc'[d] = p /\ \A e \in Docs \ {d} : doc'[e] = doc[e]
    <2>1. p \in Panels /\ doc' = [doc EXCEPT ![d] = p]
      BY <1>2 DEF Unmount
    <2> QED
      BY <2>1, OnePanel DEF ChatInv
  <1>4. /\ ~p.streaming /\ ~p.mounted /\ p.streams \subseteq doc[d].streams
        /\ p = Closed \/ /\ p.streams = doc[d].streams /\ p.request = doc[d].request
                         /\ p.partial = doc[d].partial /\ p.messages = doc[d].messages
    BY <1>1 DEF Closed, Panels
  <1>5. Closed.streams = {} /\ Closed.request = None /\ Closed.partial = {} /\ Closed.messages = <<>>
    BY DEF Closed
  <1> HIDE DEF p, left
  <1>6. UNCHANGED <<stored, crossed>> /\ events' = events \ {d}
    BY DEF Unmount
  <1>7. /\ AgentInv' /\ wire' \in [Requests -> Wires] /\ WireInv'
        /\ \A r \in Requests : agent[r].pc # "unused" => agent'[r].pc # "unused"
        /\ \A r \in Requests : agent'[r].pc = "unused" => agent[r].pc = "unused"
        /\ \A r \in Requests \ doc[d].streams : wire'[r] = wire[r]
        /\ \A r \in Requests : Unread(r)' => Unread(r) /\ r # doc[d].request
    <2>1. CASE doc[d].request = None
      <3>1. UNCHANGED <<agent, wire>>
        BY <2>1 DEF Unmount, agentVars
      <3> QED
        BY <2>1, <3>1 DEF ChatInv, AgentInv, WireInv, PanelTypeOK, Unread
    <2>2. CASE doc[d].request # None
      <3>1. doc[d].request \in doc[d].streams /\ doc[d].request \in Requests
        BY <1>1, <2>2 DEF StreamOK
      <3>2. Abort(doc[d].request)
        BY <2>2 DEF Unmount
      <3> QED
        BY <3>1, <3>2, AbortWire DEF Unread
    <2> QED
      BY <2>1, <2>2
  <1>8. \A e \in Docs, r \in Requests : Current(e, r)' => Current(e, r)
    BY <1>3, <1>4 DEF Current
  <1>9. StreamInv'
    <2>1. ASSUME NEW e \in Docs \ {d} PROVE StreamOK(e)'
      <3>1. \A r \in doc[e].streams : r \in Requests /\ r \notin doc[d].streams
        BY DEF ChatInv, StreamInv, Owned, PanelTypeOK, Panels
      <3>2. \A r \in doc[e].streams : Unread(r)' <=> Unread(r)
        BY <1>7, <3>1 DEF Unread
      <3>3. StreamOK(e) /\ doc'[e] = doc[e]
        BY <1>3 DEF ChatInv, StreamInv
      <3> QED
        BY <1>6, <3>2, <3>3, SameStreams
    <2>2. StreamOK(d)'
      <3>1. CASE p = Closed
        BY <1>3, <1>4, <1>5, <3>1 DEF StreamOK
      <3>2. CASE p # Closed
        <4>1. /\ doc'[d].streams = doc[d].streams /\ doc'[d].request = doc[d].request
              /\ doc'[d].partial = doc[d].partial /\ ~doc'[d].streaming
          BY <1>3, <1>4, <3>2
        <4>2. \A r \in doc[d].streams \ crossed : ~Unread(r)' /\ ~Current(d, r)'
          <5> SUFFICES ASSUME NEW r \in doc[d].streams \ crossed PROVE ~Unread(r)' /\ ~Current(d, r)'
            OBVIOUS
          <5>1. ~Current(d, r)'
            BY <4>1 DEF Current
          <5>2. Unread(r) => r = doc[d].request
            BY <1>1 DEF StreamOK, Current
          <5> QED
            BY <1>1, <1>7, <5>1, <5>2
        <4>3. doc[d].request \in crossed \/ \A r \in doc[d].streams : Unread(r)' => r = doc[d].request
          BY <1>1, <1>7 DEF StreamOK
        <4> QED
          BY <1>1, <1>6, <4>1, <4>2, <4>3 DEF StreamOK
      <3> QED
        BY <3>1, <3>2
    <2>3. Owned'
      <3>1. \A e \in Docs : doc'[e].streams \subseteq doc[e].streams /\ doc[e].streams \subseteq Requests
        BY <1>3, <1>4 DEF ChatInv, PanelTypeOK, Panels
      <3> QED
        BY <1>7, <3>1 DEF ChatInv, StreamInv, Owned
    <2> QED
      BY <2>1, <2>2, <2>3 DEF StreamInv
  <1>10. TextInv'
    <2>1. Open' \subseteq Open
      BY <1>6, <1>7, <1>8 DEF Open
    <2>2. TextOK(<<>>, Open', crossed')
      BY DEF TextOK, Separate, Holds
    <2>3. \A e \in Docs : TextOK(doc[e].messages, Open', crossed') /\ TextOK(stored, Open', crossed')
      BY <1>6, <2>1, TextStays DEF ChatInv, TextInv
    <2>4. \A e \in Docs : doc'[e].messages = doc[e].messages \/ doc'[e].messages = <<>>
      BY <1>3, <1>4, <1>5
    <2> QED
      BY <1>6, <2>2, <2>3, <2>4 DEF ChatInv, TextInv
  <1>11. Converged'
    BY <1>3, <1>4, <1>6 DEF ChatInv, Converged
  <1> QED
    BY <1>3, <1>6, <1>7, <1>9, <1>10, <1>11 DEF ChatInv, PanelTypeOK

\* A question goes out with a request nobody has used.
LEMMA SendChat ==
    ASSUME ChatInv, NEW d \in Docs, NEW s \in Fresh, NEW q \in Questions, NEW list,
           TextOK(list, Open, crossed), SendFrom(d, q, list, s), Accept(s), UNCHANGED wire
    PROVE  ChatInv'
  <1> DEFINE new == Append(list, User(q))
             p == [doc[d] EXCEPT !.messages = new, !.streaming = TRUE, !.partial = {}, !.last = q,
                                 !.request = s, !.streams = @ \cup {s}]
  <1>1. User(q) \in Messages /\ User(q).parts = {}
    BY DEF User, Messages
  <1>2. TextOK(new, Open, crossed) /\ new \in Seq(Messages)
    <2>1. TextOK(new, Open \ User(q).parts, crossed)
      BY <1>1, AppendText
    <2>2. Open \ User(q).parts = Open
      BY <1>1
    <2> QED
      BY <2>1, <2>2 DEF TextOK
  <1> HIDE DEF new
  <1>3. s \in Requests /\ agent[s].pc = "unused" /\ doc[d] \in Panels
    BY DEF Fresh, ChatInv, PanelTypeOK
  <1>4. p \in Panels
    BY <1>2, <1>3 DEF Panels
  <1>5. doc' \in [Docs -> Panels] /\ doc'[d] = p /\ \A e \in Docs \ {d} : doc'[e] = doc[e]
    <2>1. doc' = [doc EXCEPT ![d] = p]
      BY DEF SendFrom, new
    <2> QED
      BY <1>4, <2>1, OnePanel DEF ChatInv
  <1>6. /\ p.streaming /\ p.messages = new /\ p.streams = doc[d].streams \cup {s}
        /\ p.request = s /\ p.partial = {}
    BY <1>3 DEF Panels
  <1> HIDE DEF p
  <1>7. /\ UNCHANGED <<stored, events, wire>> /\ ~doc[d].streaming
        /\ crossed' = IF Live(d) = {} THEN crossed ELSE crossed \cup {s}
    BY DEF SendFrom
  <1>8. /\ AgentInv' /\ agent'[s].pc = "setup"
        /\ \A r \in Requests \ {s} : agent'[r] = agent[r]
    BY <1>3, AcceptedAgent DEF ChatInv, Accept, AgentInv, Unused
  <1>9. wire[s].end = "open" /\ wire[s].final = None
    BY <1>3 DEF ChatInv, WireInv, PanelTypeOK, Wires
  <1>10. WireInv'
    BY <1>7, <1>8, <1>9 DEF ChatInv, WireInv
  <1>11. /\ \A e \in Docs \ {d}, r \in Requests : Current(e, r)' <=> Current(e, r)
         /\ \A r \in Requests : ~Current(d, r)
         /\ \A r \in Requests : Current(d, r)' <=> r = s
    BY <1>5, <1>6, <1>7 DEF Current
  <1>12. \A e \in Docs : doc[e].streams \subseteq Requests /\ s \notin doc[e].streams
    BY <1>3 DEF ChatInv, StreamInv, Owned, PanelTypeOK, Panels
  <1>13. \A r : Unread(r)' <=> Unread(r)
    BY <1>7 DEF Unread
  <1>14. crossed \subseteq crossed' /\ (s \in crossed' \/ \A r \in doc[d].streams : ~Unread(r))
    BY <1>7 DEF Live, Reading, Unread
  <1>15. StreamInv'
    <2>1. ASSUME NEW e \in Docs \ {d} PROVE StreamOK(e)'
      <3>1. StreamOK(e) /\ doc'[e] = doc[e]
        BY <1>5 DEF ChatInv, StreamInv
      <3> QED
        BY <1>13, <1>14, <3>1, SameStreams
    <2>2. StreamOK(d)'
      <3>1. Unread(s)
        BY <1>9 DEF Unread
      <3>2. \A r \in doc[d].streams \ crossed : ~Unread(r)
        BY <1>11, <1>12 DEF ChatInv, StreamInv, StreamOK
      <3>3. \A r \in doc'[d].streams \ crossed' : Current(d, r)' <=> Unread(r)'
        BY <1>3, <1>5, <1>6, <1>11, <1>12, <1>13, <1>14, <3>1, <3>2
      <3>4. doc'[d].request \in crossed' \/ \A r \in doc'[d].streams : Unread(r)' => r = doc'[d].request
        BY <1>5, <1>6, <1>13, <1>14
      <3> QED
        BY <1>5, <1>6, <3>3, <3>4 DEF StreamOK
    <2>3. Owned'
      <3> SUFFICES ASSUME NEW e \in Docs, NEW r \in doc'[e].streams
                   PROVE  agent'[r].pc # "unused" /\ \A f \in Docs \ {e} : r \notin doc'[f].streams
        BY DEF Owned
      <3>1. CASE r = s
        BY <1>5, <1>6, <1>8, <1>12, <3>1
      <3>2. CASE r # s
        <4>1. r \in doc[e].streams /\ r \in Requests
          BY <1>5, <1>6, <1>12, <3>2
        <4>2. agent[r].pc # "unused" /\ \A f \in Docs \ {e} : r \notin doc[f].streams
          BY <4>1 DEF ChatInv, StreamInv, Owned
        <4>3. \A f \in Docs : doc'[f].streams \subseteq doc[f].streams \cup {s}
          BY <1>5, <1>6
        <4> QED
          BY <1>8, <3>2, <4>1, <4>2, <4>3
      <3> QED
        BY <3>1, <3>2
    <2> QED
      BY <2>1, <2>2, <2>3 DEF StreamInv
  <1>16. TextInv'
    <2>1. Open' \subseteq Open
      BY <1>3, <1>8, <1>11, <1>14 DEF Open
    <2> QED
      BY <1>2, <1>5, <1>6, <1>7, <1>14, <2>1, TextStays DEF ChatInv, TextInv
  <1>17. Converged'
    BY <1>5, <1>6, <1>7 DEF ChatInv, Converged
  <1> QED
    BY <1>5, <1>7, <1>8, <1>10, <1>15, <1>16, <1>17 DEF ChatInv, PanelTypeOK

\* An answer settles: its text is of the request that was read, which is read no
\* more, or of requests that are crossed.
LEMMA SettleChat ==
    ASSUME ChatInv, NEW d \in Docs, NEW s \in doc[d].streams,
           crossed \subseteq crossed', Current(d, s) \/ ~doc[d].streaming \/ doc[d].request \in crossed',
           NEW answer, answer # None => answer \in Messages,
           answer # None => answer.parts \subseteq crossed' \/ answer.parts \subseteq {s} \cap Open,
           Settle(d, answer),
           AgentInv', wire' \in [Requests -> Wires], WireInv', agent'[s].pc = "over", ~Unread(s)',
           \A r \in Requests \ {s} : wire'[r] = wire[r] /\ agent'[r] = agent[r]
    PROVE  ChatInv'
  <1> DEFINE new == IF answer = None THEN doc[d].messages ELSE Append(doc[d].messages, answer)
             p == [doc[d] EXCEPT !.messages = new, !.streaming = FALSE]
             text == IF answer = None THEN {} ELSE answer.parts
  <1>1. doc[d] \in Panels /\ s \in Requests /\ TextOK(doc[d].messages, Open, crossed')
    <2>1. TextOK(doc[d].messages, Open, crossed)
      BY DEF ChatInv, TextInv
    <2> QED
      BY <2>1, TextStays DEF ChatInv, PanelTypeOK, Panels
  <1>2. TextOK(new, Open \ text, crossed')
    <2>1. CASE answer = None
      BY <1>1, <2>1, TextStays
    <2>2. CASE answer # None
      <3>1. \/ answer.parts = {} \/ answer.parts \subseteq crossed'
            \/ \E r \in Open \cap Requests : answer.parts = {r}
        BY <1>1, <2>2
      <3>2. TextOK(Append(doc[d].messages, answer), Open \ answer.parts, crossed')
        BY <1>1, <2>2, <3>1, AppendText
      <3> QED
        BY <2>2, <3>2
    <2> QED
      BY <2>1, <2>2
  <1>3. doc' = [doc EXCEPT ![d] = p] /\ stored' = new
        /\ events' = IF new = stored THEN events ELSE events \cup {e \in Docs \ {d} : doc[e].mounted}
    BY <1>1 DEF Settle, Panels
  <1>4. text \subseteq crossed' \/ text \subseteq {s}
    OBVIOUS
  <1> HIDE DEF new, text
  <1>5. new \in Seq(Messages)
    BY <1>2 DEF TextOK
  <1>6. p \in Panels
    BY <1>1, <1>5 DEF Panels
  <1>7. doc' \in [Docs -> Panels] /\ doc'[d] = p /\ \A e \in Docs \ {d} : doc'[e] = doc[e]
    BY <1>3, <1>6, OnePanel DEF ChatInv
  <1>8. /\ ~p.streaming /\ p.messages = new /\ p.streams = doc[d].streams
        /\ p.request = doc[d].request /\ p.partial = doc[d].partial
    BY <1>1 DEF Panels
  <1> HIDE DEF p
  <1>9. /\ \A e \in Docs \ {d}, r \in Requests : Current(e, r)' <=> Current(e, r)
        /\ \A r \in Requests : ~Current(d, r)'
    BY <1>7, <1>8 DEF Current
  <1>10. \A e \in Docs : doc'[e].streams = doc[e].streams /\ doc[e].streams \subseteq Requests
    BY <1>7, <1>8 DEF ChatInv, PanelTypeOK, Panels
  <1>11. \A e \in Docs \ {d} : s \notin doc[e].streams
    BY DEF ChatInv, StreamInv, Owned
  <1>12. /\ \A r \in Requests \ {s} : Unread(r)' <=> Unread(r)
         /\ \A r \in Requests : Unread(r)' => Unread(r)
    BY DEF Unread
  <1>13. StreamInv'
    <2>1. ASSUME NEW e \in Docs \ {d} PROVE StreamOK(e)'
      <3>1. StreamOK(e) /\ doc'[e] = doc[e] /\ \A r \in doc[e].streams : Unread(r)' <=> Unread(r)
        BY <1>7, <1>10, <1>11, <1>12 DEF ChatInv, StreamInv
      <3> QED
        BY <3>1, SameStreams
    <2>2. StreamOK(d)'
      <3>1. StreamOK(d)
        BY DEF ChatInv, StreamInv
      <3>2. \A r \in doc[d].streams \ crossed' : ~Unread(r)'
        <4> SUFFICES ASSUME NEW r \in doc[d].streams \ crossed', Unread(r)' PROVE FALSE
          OBVIOUS
        <4>1. r \in Requests /\ r # s /\ Unread(r) /\ r \notin crossed
          BY <1>10, <1>12
        <4>2. Current(d, r)
          BY <3>1, <4>1 DEF StreamOK
        <4> QED
          BY <4>1, <4>2 DEF Current
      <3>3. doc[d].request \in crossed' \/ \A r \in doc[d].streams : Unread(r)' => r = doc[d].request
        BY <1>10, <1>12, <3>1 DEF StreamOK
      <3>4. /\ doc'[d].streams = doc[d].streams /\ doc'[d].request = doc[d].request
            /\ doc'[d].partial = doc[d].partial /\ ~doc'[d].streaming
        BY <1>7, <1>8
      <3>5. doc[d].partial \subseteq {doc[d].request} \/ doc[d].partial \cup {doc[d].request} \subseteq crossed'
        BY <3>1 DEF StreamOK
      <3> QED
        BY <1>9, <1>10, <3>1, <3>2, <3>3, <3>4, <3>5 DEF StreamOK
    <2>3. Owned'
      <3>1. \A r \in Requests : agent[r].pc # "unused" => agent'[r].pc # "unused"
        OBVIOUS
      <3> QED
        BY <1>10, <3>1 DEF ChatInv, StreamInv, Owned
    <2> QED
      BY <2>1, <2>2, <2>3 DEF StreamInv
  <1>14. TextInv'
    <2>1. Open' \subseteq Open \ text
      <3>1. s \notin Open'
        BY <1>9, <1>10, <1>11 DEF Open, Current, ChatInv, StreamInv, StreamOK
      <3>2. Open' \subseteq Open
        BY <1>1, <1>9 DEF Open
      <3>3. Open' \cap crossed' = {}
        BY DEF Open
      <3> QED
        BY <1>4, <3>1, <3>2, <3>3
    <2>2. TextOK(new, Open', crossed')
      BY <1>2, <2>1, TextStays
    <2>3. \A e \in Docs \ {d} : TextOK(doc[e].messages, Open', crossed')
      BY <2>1, TextStays DEF ChatInv, TextInv
    <2> QED
      BY <1>3, <1>7, <1>8, <2>2, <2>3 DEF TextInv
  <1>15. Converged'
    <2> SUFFICES ASSUME NEW e \in Docs, doc'[e].mounted, ~doc'[e].streaming, e \notin events'
                 PROVE  doc'[e].messages = stored'
      BY DEF Converged
    <2>1. CASE e = d
      BY <1>3, <1>7, <1>8, <2>1
    <2>2. CASE e # d
      <3>1. doc'[e] = doc[e] /\ new = stored /\ e \notin events
        BY <1>3, <1>7, <2>2
      <3> QED
        BY <1>3, <3>1 DEF ChatInv, Converged
    <2> QED
      BY <2>1, <2>2
  <1>16. events' \subseteq Docs
    BY <1>3 DEF ChatInv, PanelTypeOK
  <1> QED
    BY <1>3, <1>5, <1>7, <1>13, <1>14, <1>15, <1>16 DEF ChatInv, PanelTypeOK

\* A stream with more to say is the one the panel waits for and the text it has
\* streamed, or it is crossed and so is that text.
LEMMA UnreadText ==
    ASSUME ChatInv, NEW d \in Docs, NEW s \in doc[d].streams, Unread(s)
    PROVE  \/ s \notin crossed /\ Current(d, s) /\ s \in Open /\ doc[d].partial \subseteq {s}
           \/ s \in crossed /\ doc[d].request \in crossed /\ doc[d].partial \subseteq crossed
  <1>1. StreamOK(d) /\ s \in Requests
    BY DEF ChatInv, StreamInv, PanelTypeOK, Panels
  <1>2. CASE s \notin crossed
    <2>1. Current(d, s)
      BY <1>1, <1>2 DEF StreamOK
    <2> QED
      BY <1>1, <1>2, <2>1 DEF StreamOK, Current, Open
  <1>3. CASE s \in crossed
    <2>1. doc[d].request \in crossed
      BY <1>1, <1>3 DEF StreamOK
    <2> QED
      BY <1>1, <1>3, <2>1 DEF StreamOK
  <1> QED
    BY <1>2, <1>3

LEMMA PartialIsMessage ==
    ASSUME doc \in [Docs -> Panels], NEW d \in Docs, NEW error \in BOOLEAN
    PROVE  PartialAnswer(d, error) # None =>
               PartialAnswer(d, error) \in Messages /\ PartialAnswer(d, error).parts = doc[d].partial
  <1>1. doc[d].partial \subseteq Requests
    BY DEF Panels
  <1>2. Answer(doc[d].partial, error) \in Messages /\ Answer(doc[d].partial, error).parts = doc[d].partial
    BY <1>1 DEF Answer, Messages
  <1> QED
    BY <1>2 DEF PartialAnswer

\* A stream is aborted, or breaks, and what was streamed settles.
LEMMA AbortChat ==
    ASSUME ChatInv, NEW d \in Docs, NEW s \in doc[d].streams, NEW error \in BOOLEAN,
           Abort(s), Settle(d, PartialAnswer(d, error)), crossed \subseteq crossed',
           Current(d, s) \/ ~doc[d].streaming \/ doc[d].request \in crossed',
           doc[d].partial \subseteq crossed' \/ doc[d].partial \subseteq {s} \cap Open
    PROVE  ChatInv'
  <1>1. s \in Requests /\ doc \in [Docs -> Panels]
    BY DEF ChatInv, PanelTypeOK, Panels
  <1>2. /\ AgentInv' /\ wire' \in [Requests -> Wires] /\ WireInv'
        /\ wire'[s].end = "aborted" /\ agent'[s].pc = "over"
        /\ \A r \in Requests \ {s} : wire'[r] = wire[r] /\ agent'[r] = agent[r]
    BY <1>1, AbortWire
  <1>3. ~Unread(s)'
    BY <1>2 DEF Unread
  <1> DEFINE answer == PartialAnswer(d, error)
  <1>4. answer # None => answer \in Messages /\ answer.parts = doc[d].partial
    BY <1>1, PartialIsMessage
  <1>5. Settle(d, answer)
    OBVIOUS
  <1> HIDE DEF answer
  <1>6. answer # None => answer.parts \subseteq crossed' \/ answer.parts \subseteq {s} \cap Open
    BY <1>4
  <1> QED
    BY <1>2, <1>3, <1>4, <1>5, <1>6, SettleChat

\* The panel is not told of more than it has streamed.
LEMMA RefusedChat ==
    ASSUME ChatInv, NEW d \in Docs, NEW s \in doc[d].streams, Unread(s), Abort(s),
           Settle(d, PartialAnswer(d, TRUE)), crossed' = crossed
    PROVE  ChatInv'
  <1>1. /\ Current(d, s) \/ doc[d].request \in crossed'
        /\ doc[d].partial \subseteq crossed' \/ doc[d].partial \subseteq {s} \cap Open
    BY UnreadText
  <1> QED
    BY <1>1, AbortChat

LEMMA FinalChat == ASSUME ChatInv, NEW d \in Docs, NEW s \in Requests, OnFinal(d, s) PROVE ChatInv'
  <1> DEFINE answer == IF wire[s].final = "done" THEN Answer({s}, FALSE) ELSE PartialAnswer(d, TRUE)
  <1>1. /\ s \in doc[d].streams /\ ~wire[s].chunk /\ wire[s].final \in {"done", "error"}
        /\ wire[s].end # "aborted" /\ UNCHANGED <<agent, crossed>>
        /\ wire' = [wire EXCEPT ![s].final = "read"] /\ Settle(d, answer)
    BY DEF OnFinal, Reading
  <1>2. Unread(s)
    BY <1>1 DEF Unread
  <1>3. \/ s \notin crossed /\ Current(d, s) /\ s \in Open /\ doc[d].partial \subseteq {s}
        \/ s \in crossed /\ doc[d].request \in crossed /\ doc[d].partial \subseteq crossed
    BY <1>1, <1>2, UnreadText
  <1>4. /\ answer # None => answer \in Messages
        /\ answer # None => answer.parts \subseteq crossed' \/ answer.parts \subseteq {s} \cap Open
    <2>1. Answer({s}, FALSE) \in Messages /\ Answer({s}, FALSE).parts = {s}
      BY DEF Answer, Messages
    <2>2. PartialAnswer(d, TRUE) # None =>
            PartialAnswer(d, TRUE) \in Messages /\ PartialAnswer(d, TRUE).parts = doc[d].partial
      BY PartialIsMessage DEF ChatInv, PanelTypeOK
    <2> QED
      BY <1>1, <1>3, <2>1, <2>2
  <1> HIDE DEF answer
  <1>5. /\ wire' \in [Requests -> Wires] /\ wire'[s].final = "read" /\ wire'[s].chunk = wire[s].chunk
        /\ wire'[s].end = wire[s].end /\ \A r \in Requests \ {s} : wire'[r] = wire[r]
    BY <1>1 DEF ChatInv, PanelTypeOK, Wires
  <1>6. wire[s].end = "closed" /\ agent[s].pc = "over"
    BY <1>1 DEF ChatInv, WireInv
  <1>7. WireInv' /\ AgentInv' /\ ~Unread(s)'
    BY <1>1, <1>5, <1>6 DEF ChatInv, WireInv, AgentInv, Unread
  <1> QED
    BY <1>1, <1>3, <1>4, <1>5, <1>6, <1>7, SettleChat

\* A chunk joins what the panel has streamed: the text of the request it waits for,
\* or of crossed requests.
LEMMA ChunkChat == ASSUME ChatInv, NEW d \in Docs, NEW s \in Requests, OnChunk(d, s) PROVE ChatInv'
  <1> DEFINE p == [doc[d] EXCEPT !.partial = doc[d].partial \cup {s}]
  <1>1. /\ s \in doc[d].streams /\ wire[s].chunk /\ wire[s].end # "aborted"
        /\ UNCHANGED <<agent, stored, events, crossed>>
        /\ wire' = [wire EXCEPT ![s].chunk = FALSE] /\ doc' = [doc EXCEPT ![d] = p]
    BY DEF OnChunk, Reading
  <1>2. Unread(s)
    BY <1>1 DEF ChatInv, WireInv, Unread
  <1>3. \/ s \notin crossed /\ Current(d, s) /\ s \in Open /\ doc[d].partial \subseteq {s}
        \/ s \in crossed /\ doc[d].request \in crossed /\ doc[d].partial \subseteq crossed
    BY <1>1, <1>2, UnreadText
  <1>4. doc[d] \in Panels /\ p \in Panels
    BY DEF ChatInv, PanelTypeOK, Panels
  <1>5. doc' \in [Docs -> Panels] /\ doc'[d] = p /\ \A e \in Docs \ {d} : doc'[e] = doc[e]
    BY <1>1, <1>4, OnePanel DEF ChatInv
  <1>6. /\ p.streaming = doc[d].streaming /\ p.messages = doc[d].messages /\ p.mounted = doc[d].mounted
        /\ p.streams = doc[d].streams /\ p.request = doc[d].request /\ p.partial = doc[d].partial \cup {s}
    BY <1>4 DEF Panels
  <1> HIDE DEF p
  <1>7. /\ wire' \in [Requests -> Wires] /\ wire'[s].chunk = FALSE /\ wire'[s].final = wire[s].final
        /\ wire'[s].end = wire[s].end /\ \A r \in Requests \ {s} : wire'[r] = wire[r]
    BY <1>1 DEF ChatInv, PanelTypeOK, Wires
  <1>8. WireInv' /\ AgentInv' /\ \A r \in Requests : Unread(r)' <=> Unread(r)
    BY <1>1, <1>7 DEF ChatInv, WireInv, AgentInv, Unread
  <1>9. \A e \in Docs, r \in Requests : Current(e, r)' <=> Current(e, r)
    BY <1>5, <1>6 DEF Current
  <1>10. \A e \in Docs : /\ doc'[e].streams = doc[e].streams /\ doc[e].streams \subseteq Requests
                         /\ doc'[e].streaming = doc[e].streaming /\ doc'[e].request = doc[e].request
                         /\ doc'[e].messages = doc[e].messages /\ doc'[e].mounted = doc[e].mounted
    BY <1>5, <1>6 DEF ChatInv, PanelTypeOK, Panels
  <1>11. StreamInv'
    <2>1. ASSUME NEW e \in Docs \ {d} PROVE StreamOK(e)'
      <3>1. StreamOK(e) /\ doc'[e] = doc[e] /\ \A r \in doc[e].streams : Unread(r)' <=> Unread(r)
        BY <1>5, <1>8, <1>10 DEF ChatInv, StreamInv
      <3> QED
        BY <1>1, <3>1, SameStreams
    <2>2. StreamOK(d)'
      <3>1. StreamOK(d)
        BY DEF ChatInv, StreamInv
      <3>2. \/ doc'[d].partial \subseteq {doc'[d].request}
            \/ doc'[d].partial \cup {doc'[d].request} \subseteq crossed'
        BY <1>1, <1>3, <1>5, <1>6 DEF Current
      <3>3. \A r \in doc[d].streams : Unread(r)' <=> Unread(r)
        BY <1>8, <1>10
      <3> QED
        BY <1>1, <1>9, <1>10, <3>1, <3>2, <3>3 DEF StreamOK
    <2>3. Owned'
      BY <1>1, <1>10 DEF ChatInv, StreamInv, Owned
    <2> QED
      BY <2>1, <2>2, <2>3 DEF StreamInv
  <1>12. Open' = Open
    BY <1>1, <1>9 DEF Open
  <1>13. TextInv' /\ Converged'
    BY <1>1, <1>10, <1>12 DEF ChatInv, TextInv, Converged
  <1> QED
    BY <1>1, <1>5, <1>7, <1>8, <1>11, <1>13 DEF ChatInv, PanelTypeOK

\* What ends without a word has had its final frame.
LEMMA EndChat == ASSUME ChatInv, NEW d \in Docs, NEW s \in Requests, OnEnd(d, s) PROVE ChatInv'
  <1>1. s \in doc[d].streams /\ wire[s].end = "closed" /\ wire[s].final \in {None, "read"} /\ Abort(s)
        /\ UNCHANGED <<doc, stored, events, crossed>>
    BY DEF OnEnd, Reading, clientVars
  <1>2. wire[s].final = "read" /\ agent[s].pc = "over"
    BY <1>1 DEF ChatInv, WireInv
  <1>3. /\ AgentInv' /\ wire' \in [Requests -> Wires] /\ WireInv'
        /\ wire'[s].end = "aborted" /\ agent'[s].pc = "over"
        /\ \A r \in Requests \ {s} : wire'[r] = wire[r] /\ agent'[r] = agent[r]
    BY <1>1, AbortWire
  <1>4. \A r \in Requests : Unread(r)' <=> Unread(r)
    BY <1>2, <1>3 DEF Unread
  <1>5. \A e \in Docs, r \in Requests : Current(e, r)' <=> Current(e, r)
    BY <1>1 DEF Current
  <1>6. StreamInv'
    <2>1. \A e \in Docs : doc[e].streams \subseteq Requests
      BY DEF ChatInv, PanelTypeOK, Panels
    <2>2. ASSUME NEW e \in Docs PROVE StreamOK(e)'
      BY <1>1, <1>4, <2>1, SameStreams DEF ChatInv, StreamInv
    <2>3. Owned'
      BY <1>1, <1>2, <1>3, <2>1 DEF ChatInv, StreamInv, Owned
    <2> QED
      BY <2>2, <2>3 DEF StreamInv
  <1>7. Open' = Open
    BY <1>1, <1>2, <1>3, <1>5 DEF Open
  <1> QED
    BY <1>1, <1>3, <1>6, <1>7 DEF ChatInv, TextInv, PanelTypeOK, Converged

\* A connection that fails after its final frame settles the text of the request
\* sent last, which is crossed from then on.
LEMMA BreakChat == ASSUME ChatInv, NEW d \in Docs, NEW s \in Requests, Break(d, s) PROVE ChatInv'
  <1>1. /\ s \in doc[d].streams /\ wire[s].end # "aborted" /\ Abort(s) /\ Settle(d, PartialAnswer(d, TRUE))
        /\ crossed' = IF wire[s].final = "read" THEN crossed \cup {doc[d].request} ELSE crossed
    BY DEF Break, Reading
  <1>2. CASE wire[s].final = "read"
    <2>1. doc[d].partial \subseteq crossed' /\ doc[d].request \in crossed'
      BY <1>1, <1>2 DEF ChatInv, StreamInv, StreamOK
    <2> QED
      BY <1>1, <1>2, <2>1, AbortChat
  <1>3. CASE wire[s].final # "read"
    BY <1>1, <1>3, RefusedChat DEF Unread
  <1> QED
    BY <1>2, <1>3

\* Stop aborts the request sent last and keeps its text.
LEMMA StopChat == ASSUME ChatInv, NEW d \in Docs, Stop(d) PROVE ChatInv'
  <1> DEFINE s == doc[d].request
  <1>1. /\ doc[d].streaming /\ Abort(s) /\ Settle(d, PartialAnswer(d, FALSE)) /\ UNCHANGED crossed
        /\ StreamOK(d)
    BY DEF Stop, ChatInv, StreamInv
  <1>2. s \in doc[d].streams /\ Current(d, s) /\ s \in Requests
    BY <1>1 DEF StreamOK, Current, ChatInv, PanelTypeOK, Panels
  <1>3. doc[d].partial \subseteq crossed' \/ doc[d].partial \subseteq {s} \cap Open
    BY <1>1, <1>2 DEF StreamOK, Open
  <1> HIDE DEF s
  <1> QED
    BY <1>1, <1>2, <1>3, AbortChat

LEMMA NextChat == ASSUME ChatInv, [Next]_vars PROVE ChatInv'
  <1>1. ASSUME NEW d \in Docs, NEW q \in Questions, Send(d, q) PROVE ChatInv'
    BY <1>1, SendChat DEF Send, ChatInv, TextInv
  <1>2. ASSUME NEW d \in Docs, Retry(d) PROVE ChatInv'
    <2>1. doc[d].last \in Questions
      BY <1>2 DEF Retry, ChatInv, PanelTypeOK, Panels
    <2>2. TextOK(Popped(doc[d].messages, doc[d].last), Open, crossed)
      BY PoppedText DEF ChatInv, TextInv
    <2> QED
      BY <1>2, <2>1, <2>2, SendChat DEF Retry
  <1>3. ASSUME NEW d \in Docs, NEW s \in Requests, Refused(d, s) PROVE ChatInv'
    <2>1. s \in doc[d].streams /\ Unread(s)
      BY <1>3 DEF Refused, Reading, Unread, ChatInv, WireInv
    <2> QED
      BY <1>3, <2>1, RefusedChat DEF Refused
  <1>4. CASE UNCHANGED vars
    <2>1. UNCHANGED <<agent, wire, doc, stored, events, crossed>>
      BY <1>4 DEF vars
    <2>2. AgentInv' /\ PanelTypeOK' /\ WireInv' /\ Converged'
      BY <2>1 DEF ChatInv, AgentInv, PanelTypeOK, WireInv, Converged
    <2>3. StreamInv' /\ Open' = Open
      BY <2>1 DEF ChatInv, StreamInv, StreamOK, Owned, Unread, Open, Current
    <2> QED
      BY <2>1, <2>2, <2>3 DEF ChatInv, TextInv
  <1> QED
    BY <1>1, <1>2, <1>3, <1>4, MountChat, UnmountChat, OnStorageChat, StopChat, BreakChat, FinalChat,
       ChunkChat, EndChat, RouteChat DEF Next
-----------------------------------------------------------------------------
LEMMA Chats == Spec => []ChatInv
  BY NobodyAsked, NextChat, PTL DEF Spec

(* An answer is in a history at most once and holds the text of one        *)
(* request, whatever was stopped, failed, asked again or left: only the    *)
(* requests a connection failed into after its own final frame are mixed   *)
(* up, and with each other alone (use-sse.ts, ChatPanel.tsx).              *)
THEOREM AnswersStaySeparate == Spec => []AnswersAreSeparate
  <1>1. ChatInv => AnswersAreSeparate
    <2> SUFFICES ASSUME ChatInv, NEW list, TextOK(list, Open, crossed),
                        NEW i \in 1 .. Len(list), NEW j \in 1 .. Len(list)
                 PROVE  /\ Cardinality(list[i].parts) <= 1 \/ list[i].parts \subseteq crossed
                        /\ i # j => list[i].parts \cap list[j].parts \subseteq crossed
      BY DEF AnswersAreSeparate, Lists, ChatInv, TextInv
    <2>1. i \in DOMAIN list /\ j \in DOMAIN list
      BY DEF TextOK
    <2>2. \/ list[i].parts = {} \/ \E s \in Requests : list[i].parts = {s}
          \/ list[i].parts \subseteq crossed
      BY <2>1 DEF TextOK, Separate
    <2>3. i # j => list[i].parts \cap list[j].parts \subseteq crossed
      BY <2>1 DEF TextOK, Separate
    <2>4. Cardinality(list[i].parts) <= 1 \/ list[i].parts \subseteq crossed
      <3>1. CASE list[i].parts = {}
        BY <3>1, FS_EmptySet
      <3>2. ASSUME NEW s, list[i].parts = {s} PROVE Cardinality(list[i].parts) = 1
        BY <3>2, FS_Singleton
      <3> QED
        BY <2>2, <3>1, <3>2
    <2> QED
      BY <2>3, <2>4
  <1> QED
    BY <1>1, Chats, PTL
-----------------------------------------------------------------------------
(* What a document at rest shows needs less of the invariant.              *)

Shown == doc \in [Docs -> Panels] /\ stored \in Seq(Messages) /\ Converged

\* A panel changes and stores its list; the others hear of it unless it is the
\* list that was stored.
LEMMA OneShown ==
    ASSUME Shown, NEW d \in Docs, NEW p \in Panels, doc' = [doc EXCEPT ![d] = p],
           stored' \in Seq(Messages),
           p.mounted /\ ~p.streaming /\ d \notin events' => p.messages = stored',
           \A e \in Docs \ {d} : doc[e].mounted /\ e \notin events' => e \notin events /\ stored' = stored
    PROVE  Shown'
  <1>1. doc' \in [Docs -> Panels] /\ doc'[d] = p /\ \A e \in Docs \ {d} : doc'[e] = doc[e]
    BY DEF Shown
  <1>2. Converged'
    <2> SUFFICES ASSUME NEW e \in Docs, doc'[e].mounted, ~doc'[e].streaming, e \notin events'
                 PROVE  doc'[e].messages = stored'
      BY DEF Converged
    <2>1. CASE e = d
      BY <1>1, <2>1
    <2>2. CASE e # d
      BY <1>1, <2>2 DEF Shown, Converged
    <2> QED
      BY <2>1, <2>2
  <1> QED
    BY <1>1, <1>2 DEF Shown

LEMMA SettleShown ==
    ASSUME Shown, NEW d \in Docs, NEW answer, answer # None => answer \in Messages, Settle(d, answer)
    PROVE  Shown'
  <1> DEFINE new == IF answer = None THEN doc[d].messages ELSE Append(doc[d].messages, answer)
             p == [doc[d] EXCEPT !.messages = new, !.streaming = FALSE]
  <1>1. doc[d] \in Panels /\ doc[d].messages \in Seq(Messages)
    BY DEF Shown, Panels
  <1>2. new \in Seq(Messages)
    BY <1>1
  <1>3. doc' = [doc EXCEPT ![d] = p] /\ stored' = new
        /\ events' = IF new = stored THEN events ELSE events \cup {e \in Docs \ {d} : doc[e].mounted}
    BY <1>1 DEF Settle, Panels
  <1> HIDE DEF new
  <1>4. p \in Panels /\ p.messages = new
    BY <1>1, <1>2 DEF Panels
  <1> QED
    BY <1>2, <1>3, <1>4, OneShown

LEMMA PoppedShown ==
    ASSUME NEW list \in Seq(Messages), NEW q
    PROVE  Popped(list, q) \in Seq(Messages)
  <1>1. ASSUME NEW l \in Seq(Messages), l # <<>> PROVE Front(l) \in Seq(Messages)
    BY <1>1 DEF Front
  <1> QED
    BY <1>1 DEF Popped

LEMMA SendShown ==
    ASSUME Shown, NEW d \in Docs, NEW s \in Requests, NEW q \in Questions, NEW list \in Seq(Messages),
           SendFrom(d, q, list, s)
    PROVE  Shown'
  <1> DEFINE new == Append(list, User(q))
             p == [doc[d] EXCEPT !.messages = new, !.streaming = TRUE, !.partial = {}, !.last = q,
                                 !.request = s, !.streams = @ \cup {s}]
  <1>1. doc[d] \in Panels /\ new \in Seq(Messages)
    BY DEF Shown, User, Messages
  <1>2. doc' = [doc EXCEPT ![d] = p] /\ UNCHANGED <<stored, events>>
    BY DEF SendFrom
  <1> HIDE DEF new
  <1>3. p \in Panels /\ p.streaming
    BY <1>1 DEF Panels
  <1> QED
    BY <1>2, <1>3, OneShown DEF Shown

LEMMA NextShown == ASSUME Shown, [Next]_vars PROVE Shown'
  <1>1. ASSUME NEW d \in Docs, Mount(d) PROVE Shown'
    <2> DEFINE p == [Closed EXCEPT !.mounted = TRUE, !.messages = stored]
    <2>1. p \in Panels /\ p.messages = stored
      BY DEF Shown, Closed, Panels
    <2>2. doc' = [doc EXCEPT ![d] = p] /\ stored' = stored /\ events' = events \ {d}
      BY <1>1 DEF Mount
    <2> QED
      BY <2>1, <2>2, OneShown DEF Shown
  <1>2. ASSUME NEW d \in Docs, Unmount(d) PROVE Shown'
    <2> DEFINE left == [doc[d] EXCEPT !.mounted = FALSE, !.streaming = FALSE]
               p == IF Reading(d) \subseteq {doc[d].request} THEN Closed ELSE left
    <2>1. <<>> \in Seq(Messages) /\ doc[d] \in Panels
      BY DEF Shown
    <2>2. Closed \in Panels /\ ~Closed.mounted /\ left \in Panels /\ ~left.mounted
      BY <2>1 DEF Closed, Panels
    <2>3. p \in Panels /\ ~p.mounted
      BY <2>2
    <2>4. doc' = [doc EXCEPT ![d] = p] /\ stored' = stored /\ events' = events \ {d}
      BY <1>2 DEF Unmount
    <2> HIDE DEF p
    <2> QED
      BY <2>3, <2>4, OneShown DEF Shown
  <1>3. ASSUME NEW d \in Docs, OnStorage(d) PROVE Shown'
    <2> DEFINE p == [doc[d] EXCEPT !.messages = stored]
    <2>1. p \in Panels /\ p.messages = stored
      BY DEF Shown, Panels
    <2>2. doc' = [doc EXCEPT ![d] = p] /\ stored' = stored /\ events' = events \ {d}
      BY <1>3 DEF OnStorage
    <2> QED
      BY <2>1, <2>2, OneShown DEF Shown
  <1>4. ASSUME NEW d \in Docs, NEW q \in Questions, Send(d, q) PROVE Shown'
    BY <1>4, SendShown DEF Send, Fresh, Shown, Panels
  <1>5. ASSUME NEW d \in Docs, Retry(d) PROVE Shown'
    <2>1. doc[d].last \in Questions /\ doc[d].messages \in Seq(Messages)
      BY <1>5 DEF Retry, Shown, Panels
    <2> QED
      BY <1>5, <2>1, PoppedShown, SendShown DEF Retry, Fresh
  <1>6. ASSUME NEW d \in Docs, Stop(d) PROVE Shown'
    BY <1>6, PartialIsMessage, SettleShown DEF Stop, Shown
  <1>7. ASSUME NEW d \in Docs, NEW s \in Requests, Refused(d, s) \/ Break(d, s) PROVE Shown'
    BY <1>7, PartialIsMessage, SettleShown DEF Refused, Break, Shown
  <1>8. ASSUME NEW d \in Docs, NEW s \in Requests, OnFinal(d, s) PROVE Shown'
    <2> DEFINE answer == IF wire[s].final = "done" THEN Answer({s}, FALSE) ELSE PartialAnswer(d, TRUE)
    <2>1. Answer({s}, FALSE) \in Messages
      BY DEF Answer, Messages
    <2>2. answer # None => answer \in Messages
      BY <2>1, PartialIsMessage DEF Shown
    <2>3. Settle(d, answer)
      BY <1>8 DEF OnFinal
    <2> HIDE DEF answer
    <2> QED
      BY <2>2, <2>3, SettleShown
  <1>9. ASSUME NEW d \in Docs, NEW s \in Requests, OnChunk(d, s) PROVE Shown'
    <2> DEFINE p == [doc[d] EXCEPT !.partial = doc[d].partial \cup {s}]
    <2>1. p \in Panels /\ p.messages = doc[d].messages /\ p.mounted = doc[d].mounted /\ p.streaming = doc[d].streaming
      BY DEF Shown, Panels
    <2>2. doc' = [doc EXCEPT ![d] = p] /\ UNCHANGED <<stored, events>>
      BY <1>9 DEF OnChunk
    <2> QED
      BY <2>1, <2>2, OneShown DEF Shown, Converged
  <1>10. CASE UNCHANGED clientVars
    BY <1>10 DEF clientVars, Shown, Converged
  <1>11. ASSUME NEW d \in Docs, NEW s \in Requests, OnEnd(d, s) PROVE UNCHANGED clientVars
    BY <1>11 DEF OnEnd
  <1>12. UNCHANGED vars => UNCHANGED clientVars
    BY DEF vars, clientVars
  <1> QED
    BY <1>1, <1>2, <1>3, <1>4, <1>5, <1>6, <1>7, <1>8, <1>9, <1>10, <1>11, <1>12 DEF Next

(* Documents at rest show the stored history, in whatever order they       *)
(* asked, stopped, failed and heard of each other (ChatPanel.tsx).         *)
THEOREM HistoriesConverge == Spec => []Converged
  <1>1. Init => Shown
    BY NobodyAsked DEF ChatInv, PanelTypeOK, Shown
  <1>2. Shown => Converged
    BY DEF Shown
  <1> QED
    BY <1>1, <1>2, NextShown, PTL DEF Spec
=============================================================================
