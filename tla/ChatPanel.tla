----------------------------- MODULE ChatPanel ------------------------------
(***************************************************************************)
(* The chat of the dashboard, app/src/components/chat/ChatPanel.tsx, over  *)
(* the stream reader lib/use-sse.ts, composed with the route that answers  *)
(* it (AgentLoop).  Two documents, the drawer and the pop-up's frame, show *)
(* one history, kept in sessionStorage and followed by storage events.     *)
(*                                                                         *)
(* A message of the assistant is the set of requests whose text it holds.  *)
(***************************************************************************)
EXTENDS AgentLoop, FiniteSets

CONSTANTS
    Docs,        \* documents with a chat panel
    Questions    \* texts a user types

VARIABLES
    doc,     \* per document: its list, streamed text, last question, request
    stored,  \* sessionStorage 'nfm-chat'
    events,  \* documents with a storage event to handle
    crossed  \* history: requests a connection of an earlier one has failed into

clientVars == <<doc, stored, events, crossed>>
vars == <<agent, wire, doc, stored, events, crossed>>

User(q) == [role |-> "user", q |-> q, parts |-> {}, error |-> FALSE]
Answer(parts, error) == [role |-> "assistant", q |-> None, parts |-> parts, error |-> error]
Closed == [mounted |-> FALSE, messages |-> <<>>, streaming |-> FALSE,
           partial |-> {}, last |-> None, request |-> None, streams |-> {}]

Init ==
    /\ AgentInit
    /\ doc = [d \in Docs |-> Closed]
    /\ stored = <<>>
    /\ events = {}
    /\ crossed = {}

Last(list) == list[Len(list)]
Front(list) == SubSeq(list, 1, Len(list) - 1)

\* Nothing more is read of request s.
Abort(s) ==
    /\ wire' = [wire EXCEPT ![s] = [NoWire EXCEPT !.end = "aborted"]]
    /\ Ends(s)

\* The streams a panel's readers are at work on, and those with more to say.
Reading(d) == {s \in doc[d].streams : wire[s].end # "aborted"}
Live(d) == {s \in Reading(d) : wire[s].final # "read"}

\* A panel comes back when the readers of the one before it are done.
Mount(d) ==
    /\ ~doc[d].mounted /\ Reading(d) = {}
    /\ doc' = [doc EXCEPT ![d] = [Closed EXCEPT !.mounted = TRUE, !.messages = stored]]
    /\ events' = events \ {d}
    /\ UNCHANGED <<agent, wire, stored, crossed>>

\* Leaving the page aborts the request sent last; the reader of an earlier one
\* goes on with the list the panel had.
Unmount(d) ==
    /\ doc[d].mounted
    /\ IF doc[d].request = None THEN UNCHANGED agentVars ELSE Abort(doc[d].request)
    /\ doc' = [doc EXCEPT ![d] = IF Reading(d) \subseteq {@.request} THEN Closed
                                 ELSE [@ EXCEPT !.mounted = FALSE, !.streaming = FALSE]]
    /\ events' = events \ {d}
    /\ UNCHANGED <<stored, crossed>>

\* A storage event replaces the list, also while an answer streams.
OnStorage(d) ==
    /\ d \in events
    /\ doc' = [doc EXCEPT ![d].messages = stored]
    /\ events' = events \ {d}
    /\ UNCHANGED <<agent, wire, stored, crossed>>

\* send: the question joins the list, which is stored when the answer settles.
SendFrom(d, q, list, s) ==
    /\ doc[d].mounted /\ ~doc[d].streaming
    /\ s = CHOOSE x \in Requests : agent[x].pc = "unused"
    /\ doc' = [doc EXCEPT ![d] =
         [doc[d] EXCEPT !.messages = Append(list, User(q)), !.streaming = TRUE, !.partial = {},
                        !.last = q, !.request = s, !.streams = @ \cup {s}]]
    /\ crossed' = IF Live(d) = {} THEN crossed ELSE crossed \cup {s}
    /\ UNCHANGED <<stored, events>>

Fresh == {s \in Requests : agent[s].pc = "unused"}

Send(d, q) ==
    \E s \in Fresh : SendFrom(d, q, doc[d].messages, s) /\ Accept(s) /\ UNCHANGED wire

\* retry: the failed answer and the question go before it is asked again.
Popped(list, q) ==
    LET kept == IF list # <<>> /\ Last(list).error THEN Front(list) ELSE list
    IN  IF kept # <<>> /\ Last(kept) = User(q) THEN Front(kept) ELSE kept

Retry(d) ==
    /\ doc[d].last # None
    /\ \E s \in Fresh :
         /\ SendFrom(d, doc[d].last, Popped(doc[d].messages, doc[d].last), s)
         /\ Accept(s)
         /\ UNCHANGED wire

\* settle: the answer is appended, the list stored, the other documents told.
Settle(d, answer) ==
    LET list == IF answer = None THEN doc[d].messages ELSE Append(doc[d].messages, answer)
    IN  /\ doc' = [doc EXCEPT ![d].messages = list, ![d].streaming = FALSE]
        /\ stored' = list
        /\ events' = IF list = stored THEN events
                     ELSE events \cup {e \in Docs \ {d} : doc[e].mounted}

PartialAnswer(d, error) ==
    IF doc[d].partial = {} THEN None ELSE Answer(doc[d].partial, error)

\* Mutation of Stop: the stop is shown and not stored.
StopUnsaved(d) ==
    /\ doc[d].streaming
    /\ Abort(doc[d].request)
    /\ doc' = [doc EXCEPT ![d].streaming = FALSE,
         ![d].messages = IF PartialAnswer(d, FALSE) = None THEN @
                         ELSE Append(@, PartialAnswer(d, FALSE))]
    /\ UNCHANGED <<stored, events, crossed>>

\* Mutation of Stop: the request is not aborted.
StopOnly(d) ==
    /\ doc[d].streaming
    /\ Settle(d, PartialAnswer(d, FALSE))
    /\ UNCHANGED <<agent, wire, crossed>>

\* stop: nothing of the aborted request is handled any more.
Stop(d) ==
    /\ doc[d].streaming
    /\ Abort(doc[d].request)
    /\ Settle(d, PartialAnswer(d, FALSE))
    /\ UNCHANGED crossed

\* A response that is not OK, or no response.
Refused(d, s) ==
    /\ s \in Reading(d) /\ agent[s].pc = "setup"
    /\ Abort(s)
    /\ Settle(d, PartialAnswer(d, TRUE))
    /\ UNCHANGED crossed

OnChunk(d, s) ==
    /\ s \in Reading(d) /\ wire[s].chunk
    /\ wire' = [wire EXCEPT ![s].chunk = FALSE]
    /\ doc' = [doc EXCEPT ![d].partial = @ \cup {s}]
    /\ UNCHANGED <<agent, stored, events, crossed>>

\* done carries the whole answer; error keeps what was streamed.
OnFinal(d, s) ==
    /\ s \in Reading(d) /\ ~wire[s].chunk /\ wire[s].final \in {"done", "error"}
    /\ wire' = [wire EXCEPT ![s].final = "read"]
    /\ Settle(d, IF wire[s].final = "done" THEN Answer({s}, FALSE) ELSE PartialAnswer(d, TRUE))
    /\ UNCHANGED <<agent, crossed>>

\* The reader has read everything: only a stream without a final frame leaves
\* the panel as it was.
OnEnd(d, s) ==
    /\ s \in Reading(d) /\ wire[s].end = "closed" /\ ~wire[s].chunk
    /\ wire[s].final \in {None, "read"}
    /\ Abort(s)
    /\ UNCHANGED clientVars

\* The connection fails under the reader, with frames unread perhaps, or after
\* the final one: then it settles what was asked since.
Break(d, s) ==
    /\ s \in Reading(d)
    /\ Abort(s)
    /\ Settle(d, PartialAnswer(d, TRUE))
    /\ crossed' = IF wire[s].final = "read" THEN crossed \cup {doc[d].request} ELSE crossed

Next ==
    \/ \E d \in Docs :
         \/ Mount(d)
         \/ Unmount(d)
         \/ OnStorage(d)
         \/ \E q \in Questions : Send(d, q)
         \/ Retry(d)
         \/ Stop(d)
         \/ \E s \in Requests :
              Refused(d, s) \/ OnChunk(d, s) \/ OnFinal(d, s) \/ OnEnd(d, s) \/ Break(d, s)
    \/ \E s \in Requests : AgentStep(s) /\ UNCHANGED clientVars

Spec == Init /\ [][Next]_vars

\* The services the route calls answer, and a browser handles what it receives.
FairSpec ==
    /\ Spec
    /\ \A s \in Requests : WF_vars(AgentProgress(s) /\ UNCHANGED clientVars)
    /\ \A d \in Docs : WF_vars(\E s \in Requests : OnChunk(d, s) \/ OnFinal(d, s))
-----------------------------------------------------------------------------
\* Documents at rest show the stored history, whatever the order in which they
\* asked, stopped, failed and heard of each other ("History shared across the
\* inline panel, the /chat-popup iframe").
Converged ==
    \A d \in Docs : doc[d].mounted /\ ~doc[d].streaming /\ d \notin events
                        => doc[d].messages = stored

Lists == {stored} \cup {doc[d].messages : d \in Docs}

\* An answer is in a history at most once and holds the text of one request: not
\* of one stopped before it, and not again when a stopped or failed one goes on.
\* Only requests that a connection failed into after its own final frame, and what
\* was asked while those went on, are mixed up or said twice, with each other.
AnswersAreSeparate ==
    \A list \in Lists : \A i, j \in 1 .. Len(list) :
        /\ Cardinality(list[i].parts) <= 1 \/ list[i].parts \subseteq crossed
        /\ i # j => list[i].parts \cap list[j].parts \subseteq crossed

\* Whoever asks is answered, told of a failure, or has left.
EverySendSettles == \A d \in Docs : doc[d].streaming ~> ~doc[d].streaming
=============================================================================
