----------------------------- MODULE ChatThread -----------------------------
(***************************************************************************)
(* One chat thread of agent-core: calls of ChatService.reply with one      *)
(* [user_id, thread_id], the lock that serializes them in the process, the *)
(* support graph each of them runs, and the checkpoint that survives the   *)
(* process.                                                                *)
(*                                                                         *)
(* An action is one superstep of the graph: a node with the conditional    *)
(* edge that follows it, whose writes apply together or, if it raises, not *)
(* at all.  The checkpoint is written in the background and is awaited     *)
(* before the call returns.  Texts are named by the call that produced     *)
(* them; what the models decide is any of what the graph distinguishes.    *)
(***************************************************************************)
EXTENDS Naturals, Sequences, FiniteSets

CONSTANTS
  Requests,     \* request ids
  NoRequest,    \* a call without request_id
  WithOrderId,  \* the requests whose text names an order id
  MaxCalls,     \* bound on the HTTP calls
  StepLimit     \* LangGraph's recursion limit, in supersteps

ASSUME NoRequestAssumption == NoRequest \notin Requests
ASSUME MaxCallsAssumption == MaxCalls \in Nat
ASSUME StepLimitAssumption == StepLimit \in Nat

VARIABLES
  call,     \* what became of each HTTP call
  queue,    \* the calls that wait for _checkpoint_lock, in order of arrival
  run,      \* the invocation that holds the lock, if any
  thread,   \* its state in memory; the checkpoint while nobody holds the lock
  saved     \* the checkpoint in PostgreSQL

vars == <<call, queue, run, thread, saved>>

\* HTTP calls are numbered as they arrive; 0 is no call, and no citations.
Calls == 1..MaxCalls
NoCall == 0

RequestId == Requests \cup {NoRequest}

\* A reply: the call whose model, or fixed question, made the text; the call
\* whose retrieval made its citations; whether the text is empty.
Reply == [by : Calls \cup {NoCall}, cites : Calls \cup {NoCall}, blank : BOOLEAN]
NoReply == [by |-> NoCall, cites |-> NoCall, blank |-> FALSE]

\* "ask" is the fixed question for an order id, "call" an AI message with tool
\* calls, "tool" their results, "reply" any other AI message.
Message == [role : {"human", "ask", "call", "tool", "reply"},
            req : RequestId, by : Calls \cup {NoCall}]

\* SupportState, as far as it outlives an invocation.
Thread == [messages : Seq(Message), pending : BOOLEAN,
           cites : Calls \cup {NoCall}, completed : [Requests -> Reply]]

Nodes == {"normalize", "reuse", "retrieve", "answer", "identify", "order", "tools"}
FreeLock == [call |-> NoCall, node |-> "free", steps |-> 0, response |-> NoReply]
Run == {FreeLock} \cup
  [call : Calls, node : Nodes \cup {"end"}, steps : 0..StepLimit, response : Reply]

Stages == {"new", "waiting", "running", "replied", "failed"}
Call == [stage : Stages, req : RequestId, reply : Reply]

NewCall == [stage |-> "new", req |-> NoRequest, reply |-> NoReply]
NewThread == [messages |-> << >>, pending |-> FALSE, cites |-> NoCall,
              completed |-> [r \in Requests |-> NoReply]]

\* Every variable has its type; the queue holds waiting calls only.
TypeOK ==
  /\ call \in [Calls -> Call]
  /\ queue \in Seq(Calls)
  /\ run \in Run
  /\ thread \in Thread
  /\ saved \in Thread

Init ==
  /\ call = [c \in Calls |-> NewCall]
  /\ queue = << >>
  /\ run = FreeLock
  /\ thread = NewThread
  /\ saved = NewThread

-----------------------------------------------------------------------------
(* The call and the lock.                                                   *)

\* POST /v1/chat or /v1/chat/stream: a first attempt or a retry of any request.
Arrive(c, r) ==
  /\ call[c].stage = "new" /\ \A d \in 1..(c - 1) : call[d].stage # "new"
  /\ call' = [call EXCEPT ![c] = [stage |-> "waiting", req |-> r, reply |-> NoReply]]
  /\ queue' = Append(queue, c)
  /\ UNCHANGED <<run, thread, saved>>

Completed(t, r) == r \in Requests /\ t.completed[r] # NoReply

\* Mutant: a completed request runs the graph again.
RouteAlways(t, r) == "normalize"

\* route_request, on the checkpoint the invocation starts from.
RouteRequest(t, r) == IF Completed(t, r) THEN "reuse" ELSE "normalize"

\* The lock goes to the call that waits longest; its invocation loads the
\* latest checkpoint and drops whatever an unfinished one had planned.
Acquire(c) ==
  /\ run = FreeLock
  /\ queue # << >> /\ c = Head(queue)
  /\ queue' = Tail(queue)
  /\ call' = [call EXCEPT ![c].stage = "running"]
  /\ run' = [call |-> c, node |-> RouteRequest(saved, call[c].req), steps |-> 0,
             response |-> NoReply]
  /\ thread' = saved
  /\ UNCHANGED saved

Req == call[run.call].req

At(node) == run.node = node /\ run.steps < StepLimit

Goto(node) ==
  /\ run' = [run EXCEPT !.node = node, !.steps = @ + 1]
  /\ UNCHANGED <<call, queue, saved>>

Respond(reply) ==
  /\ run' = [run EXCEPT !.node = "end", !.steps = @ + 1, !.response = reply]
  /\ UNCHANGED <<call, queue, saved>>

\* What the nodes that finish a request add to completed_requests.
Complete(t, r, reply) ==
  IF r \in Requests THEN [t EXCEPT !.completed[r] = reply] ELSE t

Say(t, role) ==
  [t EXCEPT !.messages = Append(@, [role |-> role, req |-> Req, by |-> run.call])]

-----------------------------------------------------------------------------
(* The nodes.                                                               *)

Human(r) == [role |-> "human", req |-> r, by |-> NoCall]

\* add_messages: a message with the id of an older one takes its place.
AddHuman(messages, r) ==
  IF r \in Requests /\ \E i \in DOMAIN messages : messages[i] = Human(r)
    THEN messages
    ELSE Append(messages, Human(r))

\* normalize_message with the edge that asks the intent router.
Normalize(intent) ==
  /\ At("normalize")
  /\ thread' = [thread EXCEPT !.messages = AddHuman(@, Req), !.cites = NoCall]
  /\ Goto(CASE intent = "general" -> "retrieve"
            [] intent = "order" /\ (thread.pending \/ Req \in WithOrderId) -> "order"
            [] OTHER -> "identify")

Reuse ==
  /\ At("reuse")
  /\ thread' = [thread EXCEPT !.cites = thread.completed[Req].cites]
  /\ Respond(thread.completed[Req])

\* prepare_rag_context: a prompt is built exactly when there are citations.
Retrieve(found) ==
  /\ At("retrieve")
  /\ thread' = [thread EXCEPT !.pending = FALSE,
                              !.cites = IF found THEN run.call ELSE NoCall]
  /\ Goto("answer")

ReplyOf(cites, blank) == [by |-> run.call, cites |-> cites, blank |-> blank]

\* Mutant: an empty reply is appended before it is noticed.
AnswerKeepingBlank(blank) ==
  /\ At("answer")
  /\ LET reply == ReplyOf(thread.cites, blank)
         spoken == Say(thread, "reply")
     IN  /\ Respond(reply)
         /\ thread' = IF blank THEN spoken ELSE Complete(spoken, Req, reply)

\* generate_response.
Answer(blank) ==
  /\ At("answer")
  /\ LET reply == ReplyOf(thread.cites, blank)
     IN  /\ Respond(reply)
         /\ thread' = IF blank THEN thread ELSE Complete(Say(thread, "reply"), Req, reply)

\* request_order_identifier.
Identify ==
  /\ At("identify")
  /\ LET reply == ReplyOf(NoCall, FALSE)
     IN  /\ Respond(reply)
         /\ thread' = [Complete(Say(thread, "ask"), Req, reply) EXCEPT !.pending = TRUE]

\* Mutant: the edge after the model ends the turn although it called a tool.
CallToolUnrouted ==
  /\ At("order")
  /\ thread' = Say(thread, "call")
  /\ Respond(ReplyOf(NoCall, TRUE))

\* generate_order_response when the model calls a tool,
CallTool ==
  /\ At("order")
  /\ thread' = Say(thread, "call")
  /\ Goto("tools")

LookedUp(t) == \E i \in DOMAIN t.messages : t.messages[i].role = "tool"

\* and when it does not: any text, an empty one too, completes the request.
OrderReply(blank) ==
  /\ At("order")
  /\ LET reply == ReplyOf(NoCall, blank)
     IN  /\ Respond(reply)
         /\ thread' = [Complete(Say(thread, "reply"), Req, reply)
                         EXCEPT !.pending = @ /\ ~LookedUp(thread)]

\* ToolNode with lookup_order, whose errors are results too.
RunTools ==
  /\ At("tools")
  /\ thread' = Say(thread, "tool")
  /\ Goto("order")

-----------------------------------------------------------------------------
(* The end of a call.                                                       *)

CallEnds(c, stage, reply) ==
  /\ call' = [call EXCEPT ![c].stage = stage, ![c].reply = reply]
  /\ run' = FreeLock

\* Mutant: the call returns while the checkpoint is still being written.
ReturnUnsaved ==
  /\ run.node = "end"
  /\ IF run.response.blank
       THEN CallEnds(run.call, "failed", NoReply)
       ELSE CallEnds(run.call, "replied", run.response)
  /\ thread' = saved
  /\ UNCHANGED <<queue, saved>>

\* ainvoke returns once the checkpoint is written; an empty response is then
\* raised as EmptyChatResponseError.
Return ==
  /\ run.node = "end"
  /\ saved' = thread
  /\ IF run.response.blank
       THEN CallEnds(run.call, "failed", NoReply)
       ELSE CallEnds(run.call, "replied", run.response)
  /\ UNCHANGED <<queue, thread>>

\* A background write of the checkpoint completes.
Persist ==
  /\ run # FreeLock /\ saved # thread
  /\ saved' = thread
  /\ UNCHANGED <<call, queue, run, thread>>

\* Mutant: the lock is not released when the graph raises.
FailHoldingLock ==
  /\ run # FreeLock
  /\ saved' \in {saved, thread}
  /\ thread' = saved'
  /\ call' = [call EXCEPT ![run.call].stage = "failed"]
  /\ UNCHANGED <<queue, run>>

\* A node or edge raises, the recursion limit is reached, or the checkpoint
\* cannot be written: what was written stays, the lock is released.
Fail ==
  /\ run # FreeLock
  /\ saved' \in {saved, thread}
  /\ thread' = saved'
  /\ CallEnds(run.call, "failed", NoReply)
  /\ UNCHANGED queue

InFlight(c) == call[c].stage \in {"waiting", "running"}

\* The process dies and starts again.
Crash ==
  /\ \E c \in Calls : InFlight(c)
  /\ call' = [c \in Calls |-> IF InFlight(c) THEN [call[c] EXCEPT !.stage = "failed"]
                                             ELSE call[c]]
  /\ queue' = << >>
  /\ run' = FreeLock
  /\ thread' = saved
  /\ UNCHANGED saved

Node ==
  \/ \E intent \in {"general", "order"} : Normalize(intent)
  \/ Reuse
  \/ \E found \in BOOLEAN : Retrieve(found)
  \/ \E blank \in BOOLEAN : Answer(blank)
  \/ Identify
  \/ CallTool
  \/ \E blank \in BOOLEAN : OrderReply(blank)
  \/ RunTools

\* What the process does by itself.
Work == (\E c \in Calls : Acquire(c)) \/ Node \/ Return \/ Fail

Next ==
  \/ \E c \in Calls, r \in RequestId : Arrive(c, r)
  \/ Work
  \/ Persist
  \/ Crash

Spec == Init /\ [][Next]_vars

\* Models and tools answer or time out, so an invocation always goes on.
FairSpec == Spec /\ WF_vars(Work)
=============================================================================
