----------------------------- MODULE ChatProofs -----------------------------
(***************************************************************************)
(* Proofs about a chat thread: its inductive invariant ChatInv, and that   *)
(* it implements ChatPromise, for any requests, any number of calls and    *)
(* any recursion limit.                                                    *)
(***************************************************************************)
EXTENDS ChatProperties, TLAPS

LEMMA RunningFacts ==
  ASSUME TypeOK, run # FreeLock
  PROVE  /\ run \in [call : Calls, node : Nodes \cup {"end"}, steps : 0..StepLimit,
                     response : Reply]
         /\ run.call \in Calls
         /\ run.call # NoCall
         /\ Req \in RequestId
         /\ thread \in Thread
  BY DEF TypeOK, Run, Req, Call, Calls, NoCall

LEMMA AtFacts ==
  ASSUME TypeOK, NEW n \in Nodes, At(n)
  PROVE  run # FreeLock /\ run.steps + 1 \in 0..StepLimit
<1>1. run # FreeLock
  BY DEF At, FreeLock, Nodes
<1>2. run.steps \in 0..StepLimit
  BY <1>1, RunningFacts
<1>. QED
  BY <1>1, <1>2, StepLimitAssumption DEF At

LEMMA ReplyTypes ==
  ASSUME TypeOK, run # FreeLock, NEW cites \in Calls \cup {NoCall}, NEW blank \in BOOLEAN
  PROVE  /\ ReplyOf(cites, blank) \in Reply
         /\ ReplyOf(cites, blank) # NoReply
         /\ ReplyOf(cites, blank).by = run.call
         /\ ReplyOf(cites, blank).blank = blank
  BY RunningFacts DEF ReplyOf, Reply, NoReply

LEMMA SayType ==
  ASSUME TypeOK, run # FreeLock, NEW t \in Thread,
         NEW role \in {"human", "ask", "call", "tool", "reply"}
  PROVE  /\ Say(t, role) \in Thread
         /\ Say(t, role).messages
              = Append(t.messages, [role |-> role, req |-> Req, by |-> run.call])
         /\ Say(t, role).completed = t.completed
         /\ Say(t, role).pending = t.pending
         /\ Say(t, role).cites = t.cites
<1>. DEFINE m == [role |-> role, req |-> Req, by |-> run.call]
<1>1. m \in Message
  BY RunningFacts DEF Message
<1>2. Append(t.messages, m) \in Seq(Message)
  BY <1>1 DEF Thread
<1>3. Say(t, role) = [t EXCEPT !.messages = Append(t.messages, m)]
  BY DEF Say
<1>. HIDE DEF m
<1>4. /\ Say(t, role) \in Thread
      /\ Say(t, role).messages = Append(t.messages, m)
      /\ Say(t, role).completed = t.completed
      /\ Say(t, role).pending = t.pending
      /\ Say(t, role).cites = t.cites
  BY <1>2, <1>3 DEF Thread
<1>. QED
  BY <1>4 DEF m

LEMMA CompleteType ==
  ASSUME NEW t \in Thread, NEW r \in RequestId, NEW reply \in Reply
  PROVE  /\ Complete(t, r, reply) \in Thread
         /\ Complete(t, r, reply).messages = t.messages
         /\ Complete(t, r, reply).pending = t.pending
         /\ \A q \in Requests : Complete(t, r, reply).completed[q]
                                  = IF q = r THEN reply ELSE t.completed[q]
<1>1. CASE r \in Requests
  <2>1. [t.completed EXCEPT ![r] = reply] \in [Requests -> Reply]
    BY DEF Thread
  <2>2. Complete(t, r, reply) = [t EXCEPT !.completed = [t.completed EXCEPT ![r] = reply]]
    BY <1>1 DEF Complete
  <2>. QED
    BY <1>1, <2>1, <2>2 DEF Thread
<1>2. CASE r \notin Requests
  BY <1>2 DEF Complete
<1>. QED
  BY <1>1, <1>2

LEMMA AddHumanType ==
  ASSUME NEW s \in Seq(Message), NEW r \in RequestId
  PROVE  /\ AddHuman(s, r) \in Seq(Message)
         /\ AddHuman(s, r) = s \/ AddHuman(s, r) = Append(s, Human(r))
<1>1. Human(r) \in Message
  BY DEF Human, Message
<1>2. AddHuman(s, r) = s \/ AddHuman(s, r) = Append(s, Human(r))
  BY DEF AddHuman
<1>. QED
  BY <1>1, <1>2

-----------------------------------------------------------------------------
(* Types.                                                                   *)

LEMMA TypeInit == Init => TypeOK
<1>1. NoReply \in Reply
  BY DEF NoReply, Reply
<1>2. NewThread \in Thread
  BY <1>1 DEF NewThread, Thread
<1>3. NewCall \in Call
  BY <1>1 DEF NewCall, Call, Stages, RequestId
<1>. QED
  BY <1>2, <1>3 DEF Init, TypeOK, Run

LEMMA GotoTypes ==
  ASSUME TypeOK, NEW n \in Nodes, At(n), NEW m \in Nodes, Goto(m)
  PROVE  call' \in [Calls -> Call] /\ queue' \in Seq(Calls) /\ run' \in Run /\ saved' \in Thread
  BY AtFacts, RunningFacts DEF Goto, TypeOK, Run

LEMMA RespondTypes ==
  ASSUME TypeOK, NEW n \in Nodes, At(n), NEW reply \in Reply, Respond(reply)
  PROVE  call' \in [Calls -> Call] /\ queue' \in Seq(Calls) /\ run' \in Run /\ saved' \in Thread
  BY AtFacts, RunningFacts DEF Respond, TypeOK, Run

LEMMA NodeTypes == TypeOK /\ RunInv /\ Node => TypeOK'
<1>. SUFFICES ASSUME TypeOK, RunInv, Node PROVE TypeOK'
  OBVIOUS
<1>. USE DEF Nodes
<1>1. ASSUME NEW intent \in {"general", "order"}, Normalize(intent) PROVE TypeOK'
  <2>1. At("normalize") /\ run # FreeLock
    BY <1>1, AtFacts DEF Normalize
  <2>2. thread' \in Thread
    BY <1>1, <2>1, RunningFacts, AddHumanType DEF Normalize, Thread
  <2>3. PICK m \in Nodes : Goto(m)
    BY <1>1 DEF Normalize
  <2>. QED
    BY <2>1, <2>2, <2>3, GotoTypes DEF TypeOK
<1>2. ASSUME Reuse PROVE TypeOK'
  <2>1. At("reuse") /\ run # FreeLock
    BY <1>2, AtFacts DEF Reuse
  <2>2. Req \in Requests
    BY <2>1 DEF RunInv, Completed, At
  <2>3. thread.completed[Req] \in Reply /\ thread \in Thread
    BY <2>1, <2>2, RunningFacts DEF Thread
  <2>4. thread' \in Thread
    BY <1>2, <2>3 DEF Reuse, Thread, Reply
  <2>. QED
    BY <1>2, <2>1, <2>3, <2>4, RespondTypes DEF Reuse, TypeOK
<1>3. ASSUME NEW found \in BOOLEAN, Retrieve(found) PROVE TypeOK'
  <2>1. At("retrieve") /\ run # FreeLock /\ Goto("answer")
    BY <1>3, AtFacts DEF Retrieve
  <2>2. thread' \in Thread
    BY <1>3, <2>1, RunningFacts DEF Retrieve, Thread
  <2>. QED
    BY <2>1, <2>2, GotoTypes DEF TypeOK
<1>4. ASSUME NEW blank \in BOOLEAN, Answer(blank) PROVE TypeOK'
  <2>1. At("answer") /\ run # FreeLock /\ thread.cites \in Calls \cup {NoCall}
    BY <1>4, AtFacts DEF Answer, TypeOK, Thread
  <2>2. ReplyOf(thread.cites, blank) \in Reply
    BY <2>1, ReplyTypes
  <2>3. Say(thread, "reply") \in Thread
    BY <2>1, RunningFacts, SayType
  <2>4. thread' \in Thread
    BY <1>4, <2>1, <2>2, <2>3, RunningFacts, CompleteType DEF Answer
  <2>. QED
    BY <1>4, <2>1, <2>2, <2>4, RespondTypes DEF Answer, TypeOK
<1>5. ASSUME Identify PROVE TypeOK'
  <2>1. At("identify") /\ run # FreeLock
    BY <1>5, AtFacts DEF Identify
  <2>2. ReplyOf(NoCall, FALSE) \in Reply
    BY <2>1, ReplyTypes
  <2>3. Complete(Say(thread, "ask"), Req, ReplyOf(NoCall, FALSE)) \in Thread
    BY <2>1, <2>2, RunningFacts, SayType, CompleteType
  <2>4. thread' \in Thread
    BY <1>5, <2>3 DEF Identify, Thread
  <2>. QED
    BY <1>5, <2>1, <2>2, <2>4, RespondTypes DEF Identify, TypeOK
<1>6. ASSUME CallTool PROVE TypeOK'
  <2>1. At("order") /\ run # FreeLock /\ Goto("tools")
    BY <1>6, AtFacts DEF CallTool
  <2>2. thread' \in Thread
    BY <1>6, <2>1, RunningFacts, SayType DEF CallTool
  <2>. QED
    BY <2>1, <2>2, GotoTypes DEF TypeOK
<1>7. ASSUME NEW blank \in BOOLEAN, OrderReply(blank) PROVE TypeOK'
  <2>1. At("order") /\ run # FreeLock
    BY <1>7, AtFacts DEF OrderReply
  <2>2. ReplyOf(NoCall, blank) \in Reply
    BY <2>1, ReplyTypes
  <2>. DEFINE t == Complete(Say(thread, "reply"), Req, ReplyOf(NoCall, blank))
  <2>3. t \in Thread
    BY <2>1, <2>2, RunningFacts, SayType, CompleteType
  <2>4. thread' = [t EXCEPT !.pending = @ /\ ~LookedUp(thread)]
    BY <1>7 DEF OrderReply
  <2>. HIDE DEF t
  <2>5. PICK p \in BOOLEAN : thread' = [t EXCEPT !.pending = p]
    BY <2>3, <2>4, Zenon
  <2>6. thread' \in Thread
    BY <2>3, <2>5 DEF Thread
  <2>. QED
    BY <1>7, <2>1, <2>2, <2>6, RespondTypes DEF OrderReply, TypeOK
<1>8. ASSUME RunTools PROVE TypeOK'
  <2>1. At("tools") /\ run # FreeLock /\ Goto("order")
    BY <1>8, AtFacts DEF RunTools
  <2>2. thread' \in Thread
    BY <1>8, <2>1, RunningFacts, SayType DEF RunTools
  <2>. QED
    BY <2>1, <2>2, GotoTypes DEF TypeOK
<1>. QED
  BY <1>1, <1>2, <1>3, <1>4, <1>5, <1>6, <1>7, <1>8 DEF Node

LEMMA CallEndsTypes ==
  ASSUME TypeOK, run # FreeLock, NEW stage \in Stages, NEW reply \in Reply,
         CallEnds(run.call, stage, reply)
  PROVE  call' \in [Calls -> Call] /\ run' \in Run
  BY RunningFacts DEF CallEnds, TypeOK, Call, Run

LEMMA NoReplyType == NoReply \in Reply
  BY DEF NoReply, Reply

LEMMA TypeStep == TypeOK /\ RunInv /\ [Next]_vars => TypeOK'
<1>. SUFFICES ASSUME TypeOK, RunInv, [Next]_vars PROVE TypeOK'
  OBVIOUS
<1>1. ASSUME NEW c \in Calls, NEW r \in RequestId, Arrive(c, r) PROVE TypeOK'
  BY <1>1, NoReplyType DEF Arrive, TypeOK, Call, Stages
<1>2. ASSUME NEW c \in Calls, Acquire(c) PROVE TypeOK'
  <2>1. RouteRequest(saved, call[c].req) \in Nodes
    BY DEF RouteRequest, Nodes
  <2>2. run' \in Run
    BY <1>2, <2>1, NoReplyType, StepLimitAssumption DEF Acquire, Run
  <2>3. call' \in [Calls -> Call]
    BY <1>2 DEF Acquire, TypeOK, Call, Stages
  <2>4. queue' \in Seq(Calls) /\ thread' \in Thread /\ saved' \in Thread
    BY <1>2 DEF Acquire, TypeOK
  <2>. QED
    BY <2>2, <2>3, <2>4 DEF TypeOK
<1>3. ASSUME Return PROVE TypeOK'
  <2>1. run # FreeLock
    BY <1>3 DEF Return, FreeLock
  <2>2. call' \in [Calls -> Call] /\ run' \in Run
    BY <1>3, <2>1, CallEndsTypes, NoReplyType, RunningFacts DEF Return, Stages
  <2>. QED
    BY <1>3, <2>2 DEF Return, TypeOK
<1>4. ASSUME Persist PROVE TypeOK'
  BY <1>4 DEF Persist, TypeOK
<1>5. ASSUME Fail PROVE TypeOK'
  <2>1. call' \in [Calls -> Call] /\ run' \in Run
    BY <1>5, CallEndsTypes, NoReplyType DEF Fail, Stages
  <2>. QED
    BY <1>5, <2>1 DEF Fail, TypeOK
<1>6. ASSUME Crash PROVE TypeOK'
  <2>1. call' \in [Calls -> Call]
    BY <1>6 DEF Crash, TypeOK, Call, Stages
  <2>. QED
    BY <1>6, <2>1 DEF Crash, TypeOK, Run
<1>7. CASE UNCHANGED vars
  BY <1>7 DEF vars, TypeOK
<1>. QED
  BY <1>1, <1>2, <1>3, <1>4, <1>5, <1>6, <1>7, NodeTypes DEF Next, Work

-----------------------------------------------------------------------------
(* What the nodes do to the history, by kind.                               *)

Msg(role) == [role |-> role, req |-> Req, by |-> run.call]

Keeps == thread'.messages = thread.messages /\ thread'.completed = thread.completed

Reuses == /\ Keeps /\ run.node = "reuse" /\ run'.node = "end"
          /\ run'.response = thread.completed[Req]

GoesOn == Keeps /\ run.node = "retrieve" /\ run'.node = "answer"

GivesUp == /\ Keeps /\ run.node = "answer" /\ run'.node = "end"
           /\ run'.response # NoReply /\ run'.response.blank

Asks == /\ run.node = "normalize" /\ run'.node \in {"retrieve", "order", "identify"}
        /\ thread'.messages = AddHuman(thread.messages, Req)
        /\ thread'.completed = thread.completed

Adds(from, role, to) ==
  /\ run.node = from /\ run'.node = to
  /\ thread'.messages = Append(thread.messages, Msg(role))
  /\ thread'.completed = thread.completed

Finishes(role) ==
  /\ run.node \in {"answer", "identify", "order"} /\ run'.node = "end"
  /\ run'.response # NoReply /\ run'.response.by = run.call
  /\ thread'.messages = Append(thread.messages, Msg(role))
  /\ \A q \in Requests : thread'.completed[q]
                           = IF q = Req THEN run'.response ELSE thread.completed[q]

Shape ==
  \/ Reuses
  \/ GoesOn
  \/ GivesUp
  \/ Asks
  \/ Adds("order", "call", "tools")
  \/ Adds("tools", "tool", "order")
  \/ \E role \in {"ask", "reply"} : Finishes(role)

LEMMA NodeFrame ==
  ASSUME TypeOK, Node
  PROVE  /\ run # FreeLock /\ run' # FreeLock
         /\ run.node \in Nodes
         /\ run'.call = run.call
         /\ UNCHANGED <<call, queue, saved>>
         /\ Req' = Req
<1>1. PICK n \in Nodes : At(n)
  BY DEF Node, Normalize, Reuse, Retrieve, Answer, Identify, CallTool, OrderReply,
         RunTools, Nodes
<1>2. run # FreeLock /\ run.node \in Nodes
  BY <1>1, AtFacts DEF At
<1>3. /\ UNCHANGED <<call, queue, saved>>
      /\ \/ \E m \in Nodes : run' = [run EXCEPT !.node = m, !.steps = @ + 1]
         \/ \E reply : run' = [run EXCEPT !.node = "end", !.steps = @ + 1, !.response = reply]
  <2>1. \/ \E m \in Nodes : Goto(m)
        \/ \E reply : Respond(reply)
    <3>1. ASSUME NEW intent \in {"general", "order"}, Normalize(intent)
          PROVE  \E m \in Nodes : Goto(m)
      BY <3>1 DEF Normalize, Nodes
    <3>2. ASSUME NEW blank \in BOOLEAN, Answer(blank) \/ OrderReply(blank)
          PROVE  \E reply : Respond(reply)
      BY <3>2 DEF Answer, OrderReply
    <3>3. ASSUME Reuse \/ Identify PROVE \E reply : Respond(reply)
      BY <3>3 DEF Reuse, Identify
    <3>4. ASSUME CallTool \/ RunTools PROVE \E m \in Nodes : Goto(m)
      BY <3>4 DEF CallTool, RunTools, Nodes
    <3>5. ASSUME NEW found \in BOOLEAN, Retrieve(found) PROVE \E m \in Nodes : Goto(m)
      BY <3>5 DEF Retrieve, Nodes
    <3>. QED
      BY <3>1, <3>2, <3>3, <3>4, <3>5 DEF Node
  <2>. QED
    BY <2>1 DEF Goto, Respond
<1>4. run'.call = run.call
  BY <1>2, <1>3, RunningFacts
<1>5. run' # FreeLock
  BY <1>2, <1>4, RunningFacts DEF FreeLock
<1>. QED
  BY <1>2, <1>3, <1>4, <1>5 DEF Req

LEMMA RespondFacts ==
  ASSUME TypeOK, run # FreeLock, NEW reply, Respond(reply)
  PROVE  run'.node = "end" /\ run'.response = reply
  BY RunningFacts DEF Respond

LEMMA GotoFacts ==
  ASSUME TypeOK, run # FreeLock, NEW m, Goto(m)
  PROVE  run'.node = m
  BY RunningFacts DEF Goto

LEMMA NodeShape == TypeOK /\ RunInv /\ Node => Shape
<1>. SUFFICES ASSUME TypeOK, RunInv, Node PROVE Shape
  OBVIOUS
<1>0. run # FreeLock /\ thread \in Thread /\ Req \in RequestId
  BY NodeFrame, RunningFacts
<1>1. ASSUME NEW intent \in {"general", "order"}, Normalize(intent) PROVE Shape
  <2>1. /\ thread'.messages = AddHuman(thread.messages, Req)
        /\ thread'.completed = thread.completed
    BY <1>0, <1>1 DEF Normalize, Thread
  <2>2. PICK m \in {"retrieve", "order", "identify"} : Goto(m)
    BY <1>1 DEF Normalize
  <2>3. run'.node \in {"retrieve", "order", "identify"}
    BY <1>0, <2>2, GotoFacts
  <2>. QED
    BY <1>1, <2>1, <2>3 DEF Normalize, At, Shape, Asks
<1>2. ASSUME Reuse PROVE Shape
  <2>1. Keeps
    BY <1>0, <1>2 DEF Reuse, Keeps, Thread
  <2>. QED
    BY <1>0, <1>2, <2>1, RespondFacts DEF Reuse, At, Shape, Reuses
<1>3. ASSUME NEW found \in BOOLEAN, Retrieve(found) PROVE Shape
  <2>1. Keeps
    BY <1>0, <1>3 DEF Retrieve, Keeps, Thread
  <2>. QED
    BY <1>0, <1>3, <2>1, GotoFacts DEF Retrieve, At, Shape, GoesOn
<1>4. ASSUME NEW blank \in BOOLEAN, Answer(blank) PROVE Shape
  <2>. DEFINE reply == ReplyOf(thread.cites, blank)
  <2>1. run'.node = "end" /\ run'.response = reply /\ run.node = "answer"
    BY <1>0, <1>4, RespondFacts DEF Answer, At
  <2>2. reply \in Reply /\ reply # NoReply /\ reply.by = run.call /\ reply.blank = blank
    BY <1>0, ReplyTypes DEF Thread
  <2>3. CASE blank
    BY <1>4, <2>1, <2>2, <2>3 DEF Answer, Shape, GivesUp, Keeps
  <2>4. CASE ~blank
    <3>1. thread' = Complete(Say(thread, "reply"), Req, reply)
      BY <1>4, <2>4 DEF Answer
    <3>. HIDE DEF reply
    <3>2. Finishes("reply")
      BY <1>0, <2>1, <2>2, <3>1, SayType, CompleteType DEF Finishes, Msg
    <3>. QED
      BY <3>2 DEF Shape
  <2>. QED
    BY <2>3, <2>4
<1>5. ASSUME Identify PROVE Shape
  <2>. DEFINE reply == ReplyOf(NoCall, FALSE)
              said == Say(thread, "ask")
              t == Complete(said, Req, reply)
  <2>1. run'.node = "end" /\ run'.response = reply /\ run.node = "identify"
    BY <1>0, <1>5, RespondFacts DEF Identify, At
  <2>2. reply \in Reply /\ reply # NoReply /\ reply.by = run.call
    BY <1>0, ReplyTypes
  <2>. HIDE DEF reply
  <2>3. /\ t \in Thread
        /\ t.messages = Append(thread.messages, Msg("ask"))
        /\ \A q \in Requests : t.completed[q]
                                 = IF q = Req THEN reply ELSE thread.completed[q]
    <3>1. /\ said \in Thread
          /\ said.messages = Append(thread.messages, Msg("ask"))
          /\ said.completed = thread.completed
      BY <1>0, SayType DEF Msg
    <3>. HIDE DEF said
    <3>. QED
      BY <1>0, <2>2, <3>1, CompleteType
  <2>4. thread' = [t EXCEPT !.pending = TRUE]
    BY <1>5 DEF Identify, reply
  <2>. HIDE DEF t
  <2>5. thread'.messages = t.messages /\ thread'.completed = t.completed
    BY <2>3, <2>4 DEF Thread
  <2>6. Finishes("ask")
    BY <2>1, <2>2, <2>3, <2>5 DEF Finishes
  <2>. QED
    BY <2>6 DEF Shape
<1>6. ASSUME CallTool PROVE Shape
  <2>1. Adds("order", "call", "tools")
    BY <1>0, <1>6, SayType, GotoFacts DEF CallTool, At, Adds, Msg
  <2>. QED
    BY <2>1 DEF Shape
<1>7. ASSUME NEW blank \in BOOLEAN, OrderReply(blank) PROVE Shape
  <2>. DEFINE reply == ReplyOf(NoCall, blank)
              said == Say(thread, "reply")
              t == Complete(said, Req, reply)
  <2>1. run'.node = "end" /\ run'.response = reply /\ run.node = "order"
    BY <1>0, <1>7, RespondFacts DEF OrderReply, At
  <2>2. reply \in Reply /\ reply # NoReply /\ reply.by = run.call
    BY <1>0, ReplyTypes
  <2>. HIDE DEF reply
  <2>3. /\ t \in Thread
        /\ t.messages = Append(thread.messages, Msg("reply"))
        /\ \A q \in Requests : t.completed[q]
                                 = IF q = Req THEN reply ELSE thread.completed[q]
    <3>1. /\ said \in Thread
          /\ said.messages = Append(thread.messages, Msg("reply"))
          /\ said.completed = thread.completed
      BY <1>0, SayType DEF Msg
    <3>. HIDE DEF said
    <3>. QED
      BY <1>0, <2>2, <3>1, CompleteType
  <2>4. thread' = [t EXCEPT !.pending = @ /\ ~LookedUp(thread)]
    BY <1>7 DEF OrderReply, reply
  <2>. HIDE DEF t
  <2>5. PICK p \in BOOLEAN : thread' = [t EXCEPT !.pending = p]
    BY <2>4, Zenon
  <2>6. thread'.messages = t.messages /\ thread'.completed = t.completed
    BY <2>3, <2>5 DEF Thread
  <2>7. Finishes("reply")
    BY <2>1, <2>2, <2>3, <2>6 DEF Finishes
  <2>. QED
    BY <2>7 DEF Shape
<1>8. ASSUME RunTools PROVE Shape
  <2>1. Adds("tools", "tool", "order")
    BY <1>0, <1>8, SayType, GotoFacts DEF RunTools, At, Adds, Msg
  <2>. QED
    BY <2>1 DEF Shape
<1>. QED
  BY <1>1, <1>2, <1>3, <1>4, <1>5, <1>6, <1>7, <1>8 DEF Node

-----------------------------------------------------------------------------
(* The lock and the calls.                                                  *)

LEMMA LockStep == ChatInv /\ [Next]_vars => LockInv'
<1>. SUFFICES ASSUME ChatInv, [Next]_vars PROVE LockInv'
  OBVIOUS
<1>. USE DEF ChatInv
<1>0. queue \in Seq(Calls) /\ call \in [Calls -> Call]
  BY DEF TypeOK
<1>1. ASSUME NEW c \in Calls, NEW r \in RequestId, Arrive(c, r) PROVE LockInv'
  <2>1. call[c].stage = "new" /\ call'[c].stage = "waiting" /\ run' = run
        /\ queue' = Append(queue, c) /\ \A d \in Calls : d # c => call'[d] = call[d]
    BY <1>0, <1>1 DEF Arrive
  <2>2. \A d \in Calls : call'[d].stage = "running" <=> run' # FreeLock /\ run'.call = d
    BY <2>1 DEF LockInv
  <2>3. \A i \in DOMAIN queue : queue[i] # c /\ queue[i] \in Calls
    BY <1>0, <2>1 DEF LockInv
  <2>4. \A i \in DOMAIN queue' : call'[queue'[i]].stage = "waiting"
    BY <1>0, <2>1, <2>3 DEF LockInv
  <2>5. \A i, j \in DOMAIN queue' : queue'[i] = queue'[j] => i = j
    BY <1>0, <2>1, <2>3 DEF LockInv
  <2>. QED
    BY <2>2, <2>4, <2>5 DEF LockInv
<1>2. ASSUME NEW c \in Calls, Acquire(c) PROVE LockInv'
  <2>1. /\ queue # << >> /\ c = queue[1] /\ queue' = Tail(queue)
        /\ run = FreeLock /\ run'.call = c /\ run' # FreeLock
        /\ call'[c].stage = "running" /\ \A d \in Calls : d # c => call'[d] = call[d]
    BY <1>0, <1>2 DEF Acquire, FreeLock, Calls, NoCall, Call
  <2>2. \A d \in Calls : call'[d].stage = "running" <=> run' # FreeLock /\ run'.call = d
    BY <2>1 DEF LockInv
  <2>3. \A i \in DOMAIN queue' : i + 1 \in DOMAIN queue /\ queue'[i] = queue[i + 1]
    BY <1>0, <2>1
  <2>4. \A i \in DOMAIN queue' : queue'[i] \in Calls /\ queue'[i] # c
    BY <1>0, <2>1, <2>3 DEF LockInv
  <2>. QED
    BY <1>0, <2>1, <2>2, <2>3, <2>4 DEF LockInv
<1>3. ASSUME Node PROVE LockInv'
  BY <1>3, NodeFrame DEF LockInv
<1>4. ASSUME Return \/ Fail PROVE LockInv'
  <2>1. /\ run # FreeLock /\ run.call \in Calls /\ run' = FreeLock /\ queue' = queue
        /\ call'[run.call].stage \in {"failed", "replied"}
        /\ \A d \in Calls : d # run.call => call'[d] = call[d]
    BY <1>0, <1>4, RunningFacts DEF Return, Fail, CallEnds, FreeLock, Call
  <2>2. \A i \in DOMAIN queue : queue[i] # run.call /\ queue[i] \in Calls
    BY <1>0, <2>1 DEF LockInv
  <2>. QED
    BY <2>1, <2>2 DEF LockInv
<1>5. ASSUME Persist PROVE LockInv'
  BY <1>5 DEF Persist, LockInv
<1>6. ASSUME Crash PROVE LockInv'
  <2>1. \A c \in Calls : call'[c].stage # "running"
    BY <1>0, <1>6 DEF Crash, InFlight, Call
  <2>. QED
    BY <1>6, <2>1 DEF Crash, LockInv
<1>7. CASE UNCHANGED vars
  BY <1>7 DEF vars, LockInv
<1>. QED
  BY <1>1, <1>2, <1>3, <1>4, <1>5, <1>6, <1>7 DEF Next, Work

\* A durable answer stays what it is.
LEMMA SavedStep ==
  ASSUME ChatInv, [Next]_vars, NEW r \in Requests, saved.completed[r] # NoReply
  PROVE  saved'.completed[r] = saved.completed[r]
<1>1. saved' \in {saved, thread}
  <2>1. ASSUME Node PROVE saved' = saved
    BY <2>1, NodeFrame DEF ChatInv
  <2>. QED
    BY <2>1 DEF Next, Work, Arrive, Acquire, Return, Fail, Persist, Crash, vars
<1>2. thread.completed[r] = saved.completed[r]
  BY DEF ChatInv, AheadInv
<1>. QED
  BY <1>1, <1>2

LEMMA CallStep == ChatInv /\ [Next]_vars => CallInv'
<1>. SUFFICES ASSUME ChatInv, [Next]_vars, NEW d \in Calls
              PROVE  /\ call'[d].stage = "new" => call'[d] = NewCall
                     /\ call'[d].stage = "replied"
                          => ~call'[d].reply.blank /\ call'[d].reply # NoReply
                     /\ call'[d].stage # "replied" => call'[d].reply = NoReply
                     /\ call'[d].stage = "replied" /\ call'[d].req \in Requests
                          => saved'.completed[call'[d].req] = call'[d].reply
  BY DEF CallInv
<1>. USE DEF ChatInv
<1>0. call \in [Calls -> Call]
  BY DEF TypeOK
<1>a. ASSUME call'[d] = call[d]
      PROVE  /\ call'[d].stage = "new" => call'[d] = NewCall
             /\ call'[d].stage = "replied"
                  => ~call'[d].reply.blank /\ call'[d].reply # NoReply
             /\ call'[d].stage # "replied" => call'[d].reply = NoReply
             /\ call'[d].stage = "replied" /\ call'[d].req \in Requests
                  => saved'.completed[call'[d].req] = call'[d].reply
  BY <1>a, SavedStep DEF CallInv
<1>b. ASSUME call'[d].stage \in {"waiting", "running", "failed"}, call'[d].reply = NoReply
      PROVE  /\ call'[d].stage = "new" => call'[d] = NewCall
             /\ call'[d].stage = "replied"
                  => ~call'[d].reply.blank /\ call'[d].reply # NoReply
             /\ call'[d].stage # "replied" => call'[d].reply = NoReply
             /\ call'[d].stage = "replied" /\ call'[d].req \in Requests
                  => saved'.completed[call'[d].req] = call'[d].reply
  BY <1>b
<1>1. ASSUME NEW c \in Calls, NEW r \in RequestId, Arrive(c, r)
      PROVE  \/ call'[d] = call[d]
             \/ call'[d].stage = "waiting" /\ call'[d].reply = NoReply
  BY <1>0, <1>1 DEF Arrive
<1>2. ASSUME NEW c \in Calls, Acquire(c)
      PROVE  \/ call'[d] = call[d]
             \/ call'[d].stage = "running" /\ call'[d].reply = NoReply
  <2>1. call[c].stage = "waiting"
    BY <1>0, <1>2 DEF Acquire, LockInv, TypeOK
  <2>2. call[c].reply = NoReply
    BY <2>1 DEF CallInv
  <2>. QED
    BY <1>0, <1>2, <2>2 DEF Acquire, Call
<1>3. ASSUME Node PROVE call'[d] = call[d]
  BY <1>3, NodeFrame
<1>4. ASSUME Fail
      PROVE  \/ call'[d] = call[d]
             \/ call'[d].stage = "failed" /\ call'[d].reply = NoReply
  BY <1>0, <1>4, RunningFacts DEF Fail, CallEnds, Call
<1>5. ASSUME Crash
      PROVE  \/ call'[d] = call[d]
             \/ call'[d].stage = "failed" /\ call'[d].reply = NoReply
  <2>1. InFlight(d) => call[d].reply = NoReply
    BY DEF InFlight, CallInv
  <2>. QED
    BY <1>0, <1>5, <2>1 DEF Crash, Call
<1>6. ASSUME Return
      PROVE  \/ call'[d] = call[d]
             \/ call'[d].stage = "failed" /\ call'[d].reply = NoReply
             \/ /\ call'[d].stage = "replied" /\ ~call'[d].reply.blank
                /\ call'[d].reply # NoReply
                /\ call'[d].req \in Requests
                     => saved'.completed[call'[d].req] = call'[d].reply
  <2>1. run # FreeLock /\ run.call \in Calls
    BY <1>6, RunningFacts DEF Return, FreeLock
  <2>2. CASE d # run.call
    BY <1>0, <1>6, <2>2 DEF Return, CallEnds
  <2>3. CASE d = run.call /\ run.response.blank
    BY <1>0, <1>6, <2>3 DEF Return, CallEnds, Call
  <2>4. CASE d = run.call /\ ~run.response.blank
    <3>1. /\ call'[d].stage = "replied" /\ call'[d].reply = run.response
          /\ call'[d].req = Req /\ saved' = thread
      BY <1>0, <1>6, <2>4 DEF Return, CallEnds, Call, Req
    <3>2. run.response # NoReply /\ (Req \in Requests => thread.completed[Req] = run.response)
      BY <1>6, <2>1, <2>4 DEF RunInv, Return
    <3>. QED
      BY <2>4, <3>1, <3>2
  <2>. QED
    BY <2>2, <2>3, <2>4
<1>7. ASSUME Persist \/ UNCHANGED vars PROVE call'[d] = call[d]
  BY <1>7 DEF Persist, vars
<1>8. \/ call'[d] = call[d]
      \/ call'[d].stage \in {"waiting", "running", "failed"} /\ call'[d].reply = NoReply
      \/ /\ call'[d].stage = "replied" /\ ~call'[d].reply.blank
         /\ call'[d].reply # NoReply
         /\ call'[d].req \in Requests
              => saved'.completed[call'[d].req] = call'[d].reply
  BY <1>1, <1>2, <1>3, <1>4, <1>5, <1>6, <1>7 DEF Next, Work
<1>. QED
  BY <1>8, <1>a, <1>b

-----------------------------------------------------------------------------
(* The invocation and its request.                                          *)

\* What the nodes do to the answers.
LEMMA NodeAnswers ==
  ASSUME ChatInv, Node, NEW q \in Requests
  PROVE  \/ thread'.completed[q] = thread.completed[q]
         \/ /\ q = Req /\ run.node \notin {"reuse", "end"} /\ run'.node = "end"
            /\ thread'.completed[q] = run'.response
  BY NodeShape DEF ChatInv, Shape, Reuses, GoesOn, GivesUp, Asks, Adds, Finishes, Keeps

LEMMA AheadStep == ChatInv /\ [Next]_vars => AheadInv'
<1>. SUFFICES ASSUME ChatInv, [Next]_vars PROVE AheadInv'
  OBVIOUS
<1>. USE DEF ChatInv
<1>0. call \in [Calls -> Call]
  BY DEF TypeOK
<1>1. ASSUME NEW c \in Calls, NEW r \in RequestId, Arrive(c, r) PROVE AheadInv'
  <2>1. run # FreeLock => run.call # c /\ run.call \in Calls
    BY <1>0, <1>1, RunningFacts DEF Arrive, LockInv
  <2>2. run # FreeLock => Req' = Req
    BY <1>0, <1>1, <2>1 DEF Arrive, Req
  <2>. QED
    BY <1>1, <2>2 DEF Arrive, AheadInv
<1>2. ASSUME NEW c \in Calls, Acquire(c) PROVE AheadInv'
  BY <1>2 DEF Acquire, AheadInv
<1>3. ASSUME Node PROVE AheadInv'
  <2>1. run # FreeLock /\ run' # FreeLock /\ saved' = saved /\ Req' = Req
    BY <1>3, NodeFrame
  <2>2. ASSUME NEW q \in Requests
        PROVE  \/ thread'.completed[q] = saved'.completed[q]
               \/ q = Req /\ saved'.completed[q] = NoReply
    <3>1. CASE thread'.completed[q] = thread.completed[q]
      BY <2>1, <3>1 DEF AheadInv
    <3>2. CASE q = Req /\ run.node \notin {"reuse", "end"}
      <4>1. thread.completed[q] = NoReply
        BY <2>1, <3>2 DEF RunInv, Completed
      <4>. QED
        BY <2>1, <3>2, <4>1 DEF AheadInv
    <3>. QED
      BY <1>3, <3>1, <3>2, NodeAnswers
  <2>. QED
    BY <2>1, <2>2 DEF AheadInv
<1>4. ASSUME Return \/ Fail \/ Crash PROVE thread' = saved'
  BY <1>4 DEF Return, Fail, Crash
<1>5. ASSUME Persist PROVE thread' = saved'
  BY <1>5 DEF Persist
<1>6. CASE UNCHANGED vars
  BY <1>6 DEF vars, AheadInv, Req
<1>. QED
  BY <1>1, <1>2, <1>3, <1>4, <1>5, <1>6 DEF Next, Work, AheadInv

\* Adding a question makes it present, and keeps the questions that are.
LEMMA AddedQuestion ==
  ASSUME NEW t \in Thread, NEW u \in Thread, NEW r \in Requests,
         u.messages = AddHuman(t.messages, r)
  PROVE  Questions(u, r) # {}
<1>1. CASE \E i \in DOMAIN t.messages : t.messages[i] = Human(r)
  BY <1>1 DEF AddHuman, Questions
<1>2. CASE ~\E i \in DOMAIN t.messages : t.messages[i] = Human(r)
  <2>1. u.messages = Append(t.messages, Human(r)) /\ t.messages \in Seq(Message)
    BY <1>2 DEF AddHuman, Thread
  <2>2. u.messages[Len(t.messages) + 1] = Human(r) /\ Len(t.messages) + 1 \in DOMAIN u.messages
    BY <2>1
  <2>. QED
    BY <2>2 DEF Questions
<1>. QED
  BY <1>1, <1>2

LEMMA KeptQuestions ==
  ASSUME NEW t \in Thread, NEW u \in Thread, NEW r \in Requests, NEW m,
         u.messages = Append(t.messages, m), Questions(t, r) # {}
  PROVE  Questions(u, r) # {}
  BY DEF Questions, Thread

LEMMA RunStep == ChatInv /\ [Next]_vars => RunInv'
<1>. SUFFICES ASSUME ChatInv, [Next]_vars PROVE RunInv'
  OBVIOUS
<1>. USE DEF ChatInv
<1>0. call \in [Calls -> Call] /\ thread \in Thread /\ thread' \in Thread
  BY TypeStep DEF TypeOK
<1>1. ASSUME NEW c \in Calls, NEW r \in RequestId, Arrive(c, r) PROVE RunInv'
  <2>1. run # FreeLock => run.call # c /\ run.call \in Calls
    BY <1>0, <1>1, RunningFacts DEF Arrive, LockInv
  <2>2. run # FreeLock => Req' = Req
    BY <1>0, <1>1, <2>1 DEF Arrive, Req
  <2>. QED
    BY <1>1, <2>2 DEF Arrive, RunInv
<1>2. ASSUME NEW c \in Calls, Acquire(c) PROVE RunInv'
  <2>1. Req' = call[c].req /\ thread' = saved
        /\ run'.node = RouteRequest(saved, call[c].req)
    BY <1>0, <1>2 DEF Acquire, Req, Call
  <2>. QED
    BY <2>1 DEF RunInv, RouteRequest
<1>3. ASSUME Node PROVE RunInv'
  <2>1. run # FreeLock /\ Req' = Req /\ run'.call = run.call /\ Req \in RequestId
    BY <1>3, NodeFrame, RunningFacts
  <2>2. CASE Reuses
    BY <2>1, <2>2 DEF Reuses, Keeps, RunInv, Completed
  <2>3. CASE GoesOn
    BY <2>1, <2>3 DEF GoesOn, Keeps, RunInv, Completed, Questions
  <2>4. CASE GivesUp
    BY <2>1, <2>4 DEF GivesUp, RunInv
  <2>5. CASE Asks
    <3>1. Req \in Requests => Questions(thread', Req) # {}
      BY <1>0, <2>5, AddedQuestion DEF Asks
    <3>. QED
      BY <2>1, <2>5, <3>1 DEF Asks, RunInv, Completed
  <2>6. ASSUME NEW role \in {"call", "tool"}, NEW to \in {"tools", "order"},
               to = "tools" => role = "call",
               Adds("order", role, to) \/ Adds("tools", role, to)
        PROVE  RunInv'
    <3>1. /\ run.node \in {"order", "tools"} /\ run'.node = to
          /\ thread'.messages = Append(thread.messages, Msg(role))
          /\ thread'.completed = thread.completed
      BY <2>6 DEF Adds
    <3>2. Req \in Requests => Questions(thread', Req) # {}
      BY <1>0, <2>1, <3>1, KeptQuestions DEF RunInv
    <3>3. thread'.messages # << >> /\ thread'.messages[Len(thread'.messages)] = Msg(role)
      BY <1>0, <3>1 DEF Thread
    <3>4. ~Completed(thread', Req)
      BY <2>1, <3>1 DEF RunInv, Completed
    <3>. QED
      BY <2>1, <2>6, <3>1, <3>2, <3>3, <3>4 DEF RunInv, Msg
  <2>7. ASSUME NEW role \in {"ask", "reply"}, Finishes(role) PROVE RunInv'
    BY <2>1, <2>7 DEF Finishes, RunInv
  <2>. QED
    BY <1>3, <2>2, <2>3, <2>4, <2>5, <2>6, <2>7, NodeShape DEF Shape
<1>4. ASSUME Return \/ Fail \/ Crash PROVE run' = FreeLock
  BY <1>4 DEF Return, Fail, Crash, CallEnds
<1>5. ASSUME Persist \/ UNCHANGED vars PROVE RunInv'
  BY <1>5 DEF Persist, vars, RunInv, Req
<1>. QED
  BY <1>1, <1>2, <1>3, <1>4, <1>5 DEF Next, Work, RunInv

-----------------------------------------------------------------------------
(* The history.                                                             *)

LEMMA CleanKept ==
  ASSUME NEW t, NEW u, NEW r \in Requests, CleanFor(t, r),
         u.messages = t.messages, u.completed = t.completed
  PROVE  CleanFor(u, r)
  BY DEF CleanFor, Questions, Finals

LEMMA CleanAppended ==
  ASSUME NEW t \in Thread, NEW u \in Thread, NEW r \in Requests, NEW m \in Message,
         CleanFor(t, r), u.messages = Append(t.messages, m),
         m.role \in {"call", "tool"} \/ m.req # r,
         u.completed[r] = t.completed[r]
  PROVE  CleanFor(u, r)
<1>1. t.messages \in Seq(Message)
  BY DEF Thread
<1>2. /\ DOMAIN u.messages = DOMAIN t.messages \cup {Len(t.messages) + 1}
      /\ \A i \in DOMAIN t.messages : u.messages[i] = t.messages[i]
      /\ u.messages[Len(t.messages) + 1] = m
  BY <1>1
<1>3. m # Human(r)
  BY DEF Human
<1>4. Questions(u, r) = Questions(t, r)
  BY <1>2, <1>3 DEF Questions
<1>5. Finals(u, r) = Finals(t, r)
  BY <1>2 DEF Finals
<1>6. \A i \in Finals(t, r) : u.messages[i] = t.messages[i]
  BY <1>2 DEF Finals
<1>. QED
  BY <1>4, <1>5, <1>6 DEF CleanFor

LEMMA CleanAsked ==
  ASSUME NEW t \in Thread, NEW u \in Thread, NEW r \in Requests, NEW q \in RequestId,
         CleanFor(t, r), u.messages = AddHuman(t.messages, q),
         u.completed = t.completed
  PROVE  CleanFor(u, r)
<1>1. t.messages \in Seq(Message) /\ Human(q) \in Message
  BY DEF Thread, Human, Message
<1>2. CASE u.messages = t.messages
  BY <1>2, CleanKept
<1>3. CASE u.messages = Append(t.messages, Human(q)) /\ q # r
  BY <1>1, <1>3, CleanAppended DEF Human
<1>4. CASE u.messages = Append(t.messages, Human(q)) /\ q = r /\ u.messages # t.messages
  <2>1. Questions(t, r) = {}
    BY <1>4 DEF AddHuman, Questions
  <2>2. Finals(t, r) = {}
    BY <2>1 DEF CleanFor
  <2>3. /\ DOMAIN u.messages = DOMAIN t.messages \cup {Len(t.messages) + 1}
        /\ \A i \in DOMAIN t.messages : u.messages[i] = t.messages[i]
        /\ u.messages[Len(t.messages) + 1] = Human(r)
    BY <1>1, <1>4
  <2>4. Questions(u, r) = {Len(t.messages) + 1}
    BY <2>1, <2>3 DEF Questions
  <2>5. Finals(u, r) = {}
    BY <2>2, <2>3 DEF Finals, Human
  <2>. QED
    BY <2>2, <2>4, <2>5 DEF CleanFor
<1>. QED
  BY <1>2, <1>3, <1>4 DEF AddHuman

LEMMA CleanFinished ==
  ASSUME NEW t \in Thread, NEW u \in Thread, NEW r \in Requests, NEW m \in Message,
         CleanFor(t, r), t.completed[r] = NoReply, Questions(t, r) # {},
         u.messages = Append(t.messages, m),
         m.role \in {"ask", "reply"}, m.req = r, m.by = u.completed[r].by,
         u.completed[r] # NoReply
  PROVE  CleanFor(u, r)
<1>1. t.messages \in Seq(Message)
  BY DEF Thread
<1>2. /\ DOMAIN u.messages = DOMAIN t.messages \cup {Len(t.messages) + 1}
      /\ \A i \in DOMAIN t.messages : u.messages[i] = t.messages[i] /\ i < Len(t.messages) + 1
      /\ u.messages[Len(t.messages) + 1] = m
  BY <1>1
<1>3. m # Human(r)
  BY DEF Human
<1>4. Questions(u, r) = Questions(t, r)
  BY <1>2, <1>3 DEF Questions
<1>5. Finals(t, r) = {}
  BY DEF CleanFor
<1>6. Finals(u, r) = {Len(t.messages) + 1}
  BY <1>2, <1>5 DEF Finals
<1>7. \E q \in Questions(u, r) : q < Len(t.messages) + 1
  BY <1>2, <1>4 DEF Questions
<1>. QED
  BY <1>2, <1>4, <1>6, <1>7 DEF CleanFor

LEMMA CleanStep == ChatInv /\ [Next]_vars => CleanHistory'
<1>. SUFFICES ASSUME ChatInv, [Next]_vars, NEW r \in Requests
              PROVE  CleanFor(saved', r) /\ CleanFor(thread', r)
  BY DEF CleanHistory
<1>. USE DEF ChatInv
<1>0. /\ thread \in Thread /\ thread' \in Thread
      /\ CleanFor(saved, r) /\ CleanFor(thread, r)
  BY TypeStep DEF TypeOK, CleanHistory
<1>1. ASSUME Node PROVE CleanFor(saved', r) /\ CleanFor(thread', r)
  <2>1. saved' = saved /\ run # FreeLock /\ Req \in RequestId /\ run.call \in Calls
    BY <1>1, NodeFrame, RunningFacts
  <2>2. CASE Reuses \/ GoesOn \/ GivesUp
    BY <1>0, <2>1, <2>2, CleanKept DEF Reuses, GoesOn, GivesUp, Keeps
  <2>3. CASE Asks
    BY <1>0, <2>1, <2>3, CleanAsked DEF Asks
  <2>4. ASSUME NEW from, NEW to, NEW role \in {"call", "tool"}, Adds(from, role, to)
        PROVE  CleanFor(thread', r)
    <3>1. Msg(role) \in Message /\ Msg(role).role = role
      BY <2>1 DEF Msg, Message
    <3>. QED
      BY <1>0, <2>4, <3>1, CleanAppended DEF Adds
  <2>5. ASSUME NEW role \in {"ask", "reply"}, Finishes(role) PROVE CleanFor(thread', r)
    <3>1. /\ Msg(role) \in Message /\ Msg(role).role = role /\ Msg(role).req = Req
          /\ Msg(role).by = run.call
      BY <2>1 DEF Msg, Message
    <3>2. /\ thread'.messages = Append(thread.messages, Msg(role))
          /\ run'.response # NoReply /\ run'.response.by = run.call
          /\ thread'.completed[r] = IF r = Req THEN run'.response ELSE thread.completed[r]
      BY <2>5 DEF Finishes
    <3>3. CASE r # Req
      BY <1>0, <3>1, <3>2, <3>3, CleanAppended
    <3>4. CASE r = Req
      <4>1. thread.completed[r] = NoReply /\ Questions(thread, r) # {}
        BY <2>1, <2>5, <3>4 DEF Finishes, RunInv, Completed
      <4>. QED
        BY <1>0, <3>1, <3>2, <3>4, <4>1, CleanFinished
    <3>. QED
      BY <3>3, <3>4
  <2>. QED
    BY <1>0, <1>1, <2>1, <2>2, <2>3, <2>4, <2>5, NodeShape DEF Shape
<1>2. CASE ~Node
  <2>1. saved' \in {saved, thread} /\ thread' \in {saved, thread}
    BY <1>2 DEF Next, Work, Arrive, Acquire, Return, Fail, Persist, Crash, vars
  <2>. QED
    BY <1>0, <2>1
<1>. QED
  BY <1>1, <1>2

-----------------------------------------------------------------------------
(* Tool calls and their results.                                            *)

LEMMA LooseAppended ==
  ASSUME NEW t \in Thread, NEW u \in Thread, NEW m \in Message,
         u.messages = Append(t.messages, m), NEW i \in Loose(u)
  PROVE  \/ i \in Loose(t) /\ u.messages[i] = t.messages[i]
         \/ i = Len(u.messages) /\ u.messages[i] = m /\ m.role = "call"
<1>1. t.messages \in Seq(Message) /\ u.messages \in Seq(Message)
  BY DEF Thread
<1>2. /\ Len(u.messages) = Len(t.messages) + 1
      /\ \A j \in DOMAIN t.messages : u.messages[j] = t.messages[j]
      /\ u.messages[Len(t.messages) + 1] = m
      /\ DOMAIN u.messages = 1..(Len(t.messages) + 1)
      /\ DOMAIN t.messages = 1..Len(t.messages)
  BY <1>1
<1>3. /\ i \in DOMAIN u.messages /\ u.messages[i].role = "call"
      /\ i + 1 \in DOMAIN u.messages => u.messages[i + 1] # Role(u.messages[i], "tool")
  BY DEF Loose
<1>4. CASE i = Len(t.messages) + 1
  BY <1>2, <1>3, <1>4
<1>5. CASE i \in DOMAIN t.messages
  <2>1. u.messages[i] = t.messages[i]
    BY <1>2, <1>5
  <2>2. i + 1 \in DOMAIN t.messages => t.messages[i + 1] # Role(t.messages[i], "tool")
    BY <1>2, <1>3, <2>1
  <2>3. i \in Loose(t)
    BY <1>3, <1>5, <2>1, <2>2 DEF Loose
  <2>. QED
    BY <2>1, <2>3
<1>. QED
  BY <1>1, <1>2, <1>3, <1>4, <1>5

LEMMA AnsweredIsNotLoose ==
  ASSUME NEW t \in Thread, NEW u \in Thread, NEW m \in Message,
         u.messages = Append(t.messages, m), NEW i \in Loose(u), i = Len(t.messages)
  PROVE  m # Role(t.messages[i], "tool")
<1>1. t.messages \in Seq(Message)
  BY DEF Thread
<1>2. /\ i \in Nat /\ i + 1 \in DOMAIN u.messages /\ u.messages[i + 1] = m
      /\ i \in DOMAIN u.messages => i \in DOMAIN t.messages /\ u.messages[i] = t.messages[i]
  BY <1>1
<1>. QED
  BY <1>2 DEF Loose

LEMMA ResultsAppended ==
  ASSUME NEW t \in Thread, NEW u \in Thread, NEW m \in Message,
         u.messages = Append(t.messages, m), ResultsFollow(t),
         m.role = "tool" =>
           t.messages # << >> /\ t.messages[Len(t.messages)] = Role(m, "call")
  PROVE  ResultsFollow(u)
<1>1. t.messages \in Seq(Message)
  BY DEF Thread
<1>2. /\ \A j \in DOMAIN t.messages : u.messages[j] = t.messages[j]
      /\ u.messages[Len(t.messages) + 1] = m
      /\ DOMAIN u.messages = 1..(Len(t.messages) + 1)
      /\ DOMAIN t.messages = 1..Len(t.messages)
      /\ Len(t.messages) \in Nat
      /\ t.messages # << >> => Len(t.messages) > 0
  BY <1>1
<1>. SUFFICES ASSUME NEW i \in DOMAIN u.messages, u.messages[i].role = "tool"
              PROVE  i - 1 \in DOMAIN u.messages
                     /\ u.messages[i - 1] = Role(u.messages[i], "call")
  BY DEF ResultsFollow
<1>3. CASE i = Len(t.messages) + 1
  <2>1. t.messages # << >> /\ t.messages[Len(t.messages)] = Role(m, "call")
    BY <1>2, <1>3
  <2>2. Len(t.messages) \in DOMAIN t.messages /\ i - 1 = Len(t.messages)
    BY <1>2, <1>3, <2>1
  <2>. QED
    BY <1>2, <1>3, <2>1, <2>2
<1>4. CASE i \in DOMAIN t.messages
  <2>1. i - 1 \in DOMAIN t.messages /\ t.messages[i - 1] = Role(t.messages[i], "call")
    BY <1>2, <1>4 DEF ResultsFollow
  <2>. QED
    BY <1>2, <1>4, <2>1
<1>. QED
  BY <1>2, <1>3, <1>4

LEMMA SameTools ==
  ASSUME NEW t, NEW u, u.messages = t.messages
  PROVE  Loose(u) = Loose(t) /\ ResultsFollow(u) = ResultsFollow(t)
  BY DEF Loose, ResultsFollow

\* A call that is loose in the memory or in the checkpoint was left by a failed
\* call or by the running one.
LEMMA LooseFacts ==
  ASSUME ChatInv, NEW t \in {saved, thread}, NEW i \in Loose(t)
  PROVE  /\ t.messages[i].by \in Calls
         /\ call[t.messages[i].by].stage = "failed" \/ run.call = t.messages[i].by
  BY DEF ChatInv, ToolCallsEnd, LooseIsFailed

LEMMA ToolNode ==
  ASSUME ChatInv, Node
  PROVE  ToolCallsEnd'
<1>. USE DEF ChatInv
<1>0. /\ thread \in Thread /\ thread' \in Thread /\ saved' = saved /\ call' = call
      /\ run # FreeLock /\ run'.call = run.call /\ Req \in RequestId /\ run.call \in Calls
  <2>1. [Next]_vars
    BY DEF Next, Work
  <2>. QED
    BY <2>1, TypeStep, NodeFrame, RunningFacts DEF TypeOK
<1>1. ResultsFollow(saved') /\ ResultsFollow(thread)
  BY <1>0 DEF ToolCallsEnd
<1>2. \A i \in Loose(saved') :
        LET by == saved'.messages[i].by
        IN  by \in Calls /\ (call'[by].stage = "failed" \/ run'.call = by)
  BY <1>0 DEF ToolCallsEnd, LooseIsFailed
<1>. SUFFICES /\ ResultsFollow(thread')
              /\ \A i \in Loose(thread') :
                   LET by == thread'.messages[i].by
                   IN  /\ by \in Calls /\ (call'[by].stage = "failed" \/ run'.call = by)
                       /\ by = run'.call
                            => i = Len(thread'.messages) /\ run'.node = "tools"
  BY <1>1, <1>2 DEF ToolCallsEnd, LooseIsFailed
<1>3. \A i \in Loose(thread) :
        /\ thread.messages[i].by \in Calls
        /\ call[thread.messages[i].by].stage = "failed" \/ run.call = thread.messages[i].by
        /\ thread.messages[i].by = run.call
             => i = Len(thread.messages) /\ run.node = "tools"
  BY LooseFacts DEF ToolCallsEnd
<1>4. CASE thread'.messages = thread.messages /\ run.node # "tools"
  BY <1>0, <1>1, <1>3, <1>4, SameTools
<1>5. ASSUME NEW m \in Message, thread'.messages = Append(thread.messages, m),
             run.node # "tools", m.role # "tool", m.role = "call" => m = Msg("call"),
             m.role = "call" => run'.node = "tools"
      PROVE  /\ ResultsFollow(thread')
             /\ \A i \in Loose(thread') :
                  LET by == thread'.messages[i].by
                  IN  /\ by \in Calls /\ (call'[by].stage = "failed" \/ run'.call = by)
                      /\ by = run'.call
                           => i = Len(thread'.messages) /\ run'.node = "tools"
  <2>1. ResultsFollow(thread')
    BY <1>0, <1>1, <1>5, ResultsAppended
  <2>2. ASSUME NEW i \in Loose(thread')
        PROVE  \/ i \in Loose(thread) /\ thread'.messages[i] = thread.messages[i]
               \/ /\ i = Len(thread'.messages) /\ thread'.messages[i] = Msg("call")
                  /\ run'.node = "tools"
    <3>1. \/ i \in Loose(thread) /\ thread'.messages[i] = thread.messages[i]
          \/ i = Len(thread'.messages) /\ thread'.messages[i] = m /\ m.role = "call"
      <4>1. thread \in Thread /\ thread' \in Thread
        BY <1>0
      <4>2. thread'.messages = Append(thread.messages, m)
        BY <1>5
      <4>3. m \in Message
        OBVIOUS
      <4>4. i \in Loose(thread')
        OBVIOUS
      <4>. QED
        BY <4>1, <4>2, <4>3, <4>4, LooseAppended
    <3>. QED
      BY <1>5, <3>1
  <2>3. Msg("call").by = run.call
    BY DEF Msg
  <2>. QED
    BY <1>0, <1>3, <1>5, <2>1, <2>2, <2>3
<1>6. CASE Asks
  <2>1. Human(Req) \in Message /\ Human(Req).role = "human"
    BY <1>0 DEF Human, Message
  <2>. QED
    BY <1>4, <1>5, <1>6, <2>1 DEF Asks, AddHuman
<1>7. CASE Adds("order", "call", "tools")
  <2>1. Msg("call") \in Message /\ Msg("call").role = "call"
    BY <1>0 DEF Msg, Message
  <2>. QED
    BY <1>5, <1>7, <2>1 DEF Adds
<1>8. ASSUME NEW role \in {"ask", "reply"}, Finishes(role)
      PROVE  /\ ResultsFollow(thread')
             /\ \A i \in Loose(thread') :
                  LET by == thread'.messages[i].by
                  IN  /\ by \in Calls /\ (call'[by].stage = "failed" \/ run'.call = by)
                      /\ by = run'.call
                           => i = Len(thread'.messages) /\ run'.node = "tools"
  <2>1. Msg(role) \in Message /\ Msg(role).role = role
    BY <1>0 DEF Msg, Message
  <2>. QED
    BY <1>5, <1>8, <2>1 DEF Finishes
<1>9. CASE Adds("tools", "tool", "order")
  <2>1. /\ Msg("tool") \in Message /\ Msg("tool").role = "tool"
        /\ Role(Msg("tool"), "call") = Msg("call") /\ Role(Msg("call"), "tool") = Msg("tool")
    BY <1>0 DEF Msg, Message, Role
  <2>2. /\ thread'.messages = Append(thread.messages, Msg("tool"))
        /\ run.node = "tools" /\ run'.node = "order"
    BY <1>9 DEF Adds
  <2>3. thread.messages # << >> /\ thread.messages[Len(thread.messages)] = Msg("call")
    BY <1>0, <2>2 DEF RunInv, Msg
  <2>4. ResultsFollow(thread')
    BY <1>0, <1>1, <2>1, <2>2, <2>3, ResultsAppended
  <2>5. ASSUME NEW i \in Loose(thread')
        PROVE  /\ i \in Loose(thread) /\ thread'.messages[i] = thread.messages[i]
               /\ i # Len(thread.messages)
    <3>1. i \in Loose(thread) /\ thread'.messages[i] = thread.messages[i]
      BY <1>0, <2>1, <2>2, LooseAppended
    <3>2. i = Len(thread.messages) => Msg("tool") # Role(thread.messages[i], "tool")
      BY <1>0, <2>1, <2>2, AnsweredIsNotLoose
    <3>. QED
      BY <2>1, <2>3, <3>1, <3>2
  <2>. QED
    BY <1>0, <1>3, <2>4, <2>5
<1>10. CASE Reuses \/ GoesOn \/ GivesUp
  BY <1>4, <1>10 DEF Reuses, GoesOn, GivesUp, Keeps
<1>. QED
  BY <1>6, <1>7, <1>8, <1>9, <1>10, NodeShape DEF Shape

LEMMA ToolStep == ChatInv /\ [Next]_vars => ToolCallsEnd'
<1>. SUFFICES ASSUME ChatInv, [Next]_vars, ~Node PROVE ToolCallsEnd'
  BY ToolNode
<1>. USE DEF ChatInv
<1>0. call \in [Calls -> Call] /\ ResultsFollow(saved) /\ ResultsFollow(thread)
  BY DEF TypeOK, ToolCallsEnd
<1>1. saved' \in {saved, thread} /\ thread' \in {saved, thread}
  BY DEF Next, Work, Arrive, Acquire, Return, Fail, Persist, Crash, vars
<1>2. ResultsFollow(saved') /\ ResultsFollow(thread')
  BY <1>0, <1>1
<1>a. ASSUME \A t \in {saved, thread} : \A i \in Loose(t) :
               /\ call'[t.messages[i].by].stage = "failed"
               /\ t.messages[i].by # run'.call
      PROVE  ToolCallsEnd'
  BY <1>a, <1>1, <1>2, LooseFacts DEF ToolCallsEnd, LooseIsFailed
<1>b. ASSUME run' = run, thread' = thread,
             \A t \in {saved, thread} : \A i \in Loose(t) :
               call[t.messages[i].by].stage = "failed"
                 => call'[t.messages[i].by].stage = "failed"
      PROVE  ToolCallsEnd'
  BY <1>b, <1>1, <1>2, LooseFacts DEF ToolCallsEnd, LooseIsFailed
<1>3. ASSUME NEW c \in Calls, NEW r \in RequestId, Arrive(c, r) PROVE ToolCallsEnd'
  <2>1. \A d \in Calls : call[d].stage = "failed" => call'[d].stage = "failed"
    BY <1>0, <1>3 DEF Arrive
  <2>. QED
    BY <1>3, <1>b, <2>1, LooseFacts DEF Arrive
<1>4. ASSUME NEW c \in Calls, Acquire(c) PROVE ToolCallsEnd'
  <2>1. run.call = NoCall /\ run'.call = c /\ call[c].stage = "waiting"
        /\ \A d \in Calls : d # c => call'[d] = call[d]
    BY <1>0, <1>4 DEF Acquire, LockInv, FreeLock, TypeOK
  <2>2. NoCall \notin Calls
    BY DEF NoCall, Calls
  <2>3. ASSUME NEW t \in {saved, thread}, NEW i \in Loose(t)
        PROVE  /\ call'[t.messages[i].by].stage = "failed"
               /\ t.messages[i].by # run'.call
    BY <2>1, <2>2, <2>3, LooseFacts
  <2>. QED
    BY <1>a, <2>3
<1>5. ASSUME Return \/ Fail PROVE ToolCallsEnd'
  <2>1. /\ run # FreeLock /\ run.call \in Calls /\ run' = FreeLock
        /\ \A d \in Calls : d # run.call => call'[d] = call[d]
        /\ Fail => call'[run.call].stage = "failed"
    BY <1>0, <1>5, RunningFacts DEF Return, Fail, CallEnds, FreeLock, Call
  <2>2. run'.call = NoCall /\ NoCall \notin Calls
    BY <2>1 DEF FreeLock, NoCall, Calls
  <2>3. CASE Fail
    <3>1. ASSUME NEW t \in {saved, thread}, NEW i \in Loose(t)
          PROVE  /\ call'[t.messages[i].by].stage = "failed"
                 /\ t.messages[i].by # run'.call
      BY <2>1, <2>2, <2>3, LooseFacts
    <3>. QED
      BY <1>a, <3>1
  <2>4. CASE Return
    <3>1. saved' = thread /\ thread' = thread /\ run.node = "end"
      BY <2>4 DEF Return
    <3>2. \A i \in Loose(thread) : thread.messages[i].by # run.call
      BY <3>1 DEF ToolCallsEnd
    <3>3. ASSUME NEW i \in Loose(thread)
          PROVE  /\ call'[thread.messages[i].by].stage = "failed"
                 /\ thread.messages[i].by \in Calls
                 /\ thread.messages[i].by # run'.call
      BY <2>1, <2>2, <3>2, LooseFacts
    <3>. QED
      BY <1>2, <3>1, <3>3 DEF ToolCallsEnd, LooseIsFailed
  <2>. QED
    BY <1>5, <2>3, <2>4
<1>6. ASSUME Crash PROVE ToolCallsEnd'
  <2>1. run'.call = NoCall /\ NoCall \notin Calls
    BY <1>6 DEF Crash, FreeLock, NoCall, Calls
  <2>2. \A d \in Calls : (call[d].stage = "failed" \/ (run.call = d /\ run # FreeLock))
                           => call'[d].stage = "failed"
    BY <1>0, <1>6 DEF Crash, InFlight, LockInv, Call
  <2>3. run.call \in Calls => run # FreeLock
    BY <2>1 DEF FreeLock
  <2>4. ASSUME NEW t \in {saved, thread}, NEW i \in Loose(t)
        PROVE  /\ call'[t.messages[i].by].stage = "failed"
               /\ t.messages[i].by # run'.call
    BY <2>1, <2>2, <2>3, LooseFacts
  <2>. QED
    BY <1>a, <2>4
<1>7. ASSUME Persist \/ UNCHANGED vars PROVE ToolCallsEnd'
  BY <1>7, <1>b DEF Persist, vars
<1>. QED
  BY <1>3, <1>4, <1>5, <1>6, <1>7 DEF Next, Work

-----------------------------------------------------------------------------
(* The invariant.                                                           *)

LEMMA InitInvariant == Init => ChatInv
<1>. SUFFICES ASSUME Init PROVE ChatInv
  OBVIOUS
<1>. USE DEF Init
<1>1. TypeOK
  BY TypeInit
<1>2. LockInv
  BY DEF LockInv, NewCall
<1>3. CallInv
  BY DEF CallInv, NewCall
<1>4. AheadInv
  BY DEF AheadInv
<1>5. RunInv
  BY DEF RunInv
<1>6. thread.messages = << >> /\ \A r \in Requests : thread.completed[r] = NoReply
  BY DEF NewThread
<1>7. CleanHistory
  BY <1>6 DEF CleanHistory, CleanFor, Questions, Finals
<1>8. ToolCallsEnd
  BY <1>6 DEF ToolCallsEnd, ResultsFollow, LooseIsFailed, Loose
<1>. QED
  BY <1>1, <1>2, <1>3, <1>4, <1>5, <1>7, <1>8 DEF ChatInv

\* The lock, the checkpoint and the history stay consistent with each other, for
\* any requests, calls, failures and restarts of the process.
THEOREM ChatInvariant == Spec => []ChatInv
<1>1. ChatInv /\ [Next]_vars => ChatInv'
  BY TypeStep, LockStep, CallStep, AheadStep, RunStep, CleanStep, ToolStep DEF ChatInv
<1>. QED
  BY <1>1, InitInvariant, PTL DEF Spec

\* Every variable keeps its type; the recursion limit is never overrun.
THEOREM ChatTypes == Spec => []TypeOK
<1>1. ChatInv => TypeOK
  BY DEF ChatInv
<1>. QED
  BY <1>1, ChatInvariant, PTL

\* Retries and interruptions leave one question and at most one final text of a
\* request in the history, and the text exactly when the request is completed.
THEOREM HistoryStaysClean == Spec => []CleanHistory
<1>1. ChatInv => CleanHistory
  BY DEF ChatInv
<1>. QED
  BY <1>1, ChatInvariant, PTL

\* A tool call without its results was left by a call that failed.
THEOREM ToolCallsAreAnswered == Spec => []ToolCallsEnd
<1>1. ChatInv => ToolCallsEnd
  BY DEF ChatInv
<1>. QED
  BY <1>1, ChatInvariant, PTL

-----------------------------------------------------------------------------
(* The refinement.                                                          *)

LEMMA InitMapsToPromise == Init => Promised!PromiseInit
  BY DEF Init, Promised!PromiseInit, Asked, Returned, NewCall, NewThread

LEMMA PromiseAnswers ==
  ASSUME ChatInv, run # FreeLock, saved' = thread
  PROVE  \/ saved'.completed = saved.completed
         \/ /\ Req \in Requests /\ saved.completed[Req] = NoReply
            /\ thread.completed[Req] \in Reply \ {NoReply}
            /\ saved'.completed = [saved.completed EXCEPT ![Req] = thread.completed[Req]]
<1>1. /\ saved.completed \in [Requests -> Reply] /\ thread.completed \in [Requests -> Reply]
  BY DEF ChatInv, TypeOK, Thread
<1>2. \A r \in Requests : thread.completed[r] # saved.completed[r]
                            => r = Req /\ saved.completed[r] = NoReply
  BY DEF ChatInv, AheadInv
<1>3. CASE \A r \in Requests : thread.completed[r] = saved.completed[r]
  BY <1>1, <1>3
<1>4. CASE \E r \in Requests : thread.completed[r] # saved.completed[r]
  <2>1. /\ Req \in Requests /\ saved.completed[Req] = NoReply
        /\ thread.completed[Req] # NoReply
    BY <1>2, <1>4
  <2>2. \A r \in Requests : r # Req => thread.completed[r] = saved.completed[r]
    BY <1>2
  <2>3. thread.completed = [saved.completed EXCEPT ![Req] = thread.completed[Req]]
    BY <1>1, <2>1, <2>2
  <2>. QED
    BY <1>1, <2>1, <2>3
<1>. QED
  BY <1>3, <1>4

LEMMA AnswerMaps ==
  ASSUME ChatInv, run # FreeLock, saved' = thread, Asked' = Asked, Returned' = Returned
  PROVE  Promised!PromiseNext \/ UNCHANGED Promised!promiseVars
<1>1. CASE saved'.completed = saved.completed
  BY <1>1 DEF Promised!promiseVars
<1>2. CASE /\ Req \in Requests /\ saved.completed[Req] = NoReply
           /\ thread.completed[Req] \in Reply \ {NoReply}
           /\ saved'.completed = [saved.completed EXCEPT ![Req] = thread.completed[Req]]
  <2>1. PICK r \in Requests : r = Req
    BY <1>2
  <2>2. PICK reply \in Reply \ {NoReply} : reply = thread.completed[Req]
    BY <1>2
  <2>3. Promised!Decide(r, reply)
    BY <1>2, <2>1, <2>2 DEF Promised!Decide
  <2>. QED
    BY <2>3 DEF Promised!PromiseNext
<1>. QED
  BY <1>1, <1>2, PromiseAnswers

LEMMA SilentStep ==
  ASSUME saved' = saved, Asked' = Asked, Returned' = Returned
  PROVE  UNCHANGED Promised!promiseVars
  BY DEF Promised!promiseVars

LEMMA CallsSeen ==
  ASSUME \A c \in Calls : call'[c].req = call[c].req /\ call'[c].reply = call[c].reply
  PROVE  Asked' = Asked /\ Returned' = Returned
  BY DEF Asked, Returned

LEMMA ReturnMaps ==
  ASSUME ChatInv, Return
  PROVE  Promised!PromiseNext \/ UNCHANGED Promised!promiseVars
<1>. USE DEF ChatInv
<1>0. /\ run # FreeLock /\ run.call \in Calls /\ saved' = thread
      /\ call \in [Calls -> Call] /\ call[run.call].stage = "running"
      /\ run.response \in Reply
  <2>1. run # FreeLock
    BY DEF Return, FreeLock
  <2>. QED
    BY <2>1, RunningFacts DEF Return, TypeOK, LockInv
<1>1. call[run.call].reply = NoReply
  BY <1>0 DEF CallInv
<1>2. CASE run.response.blank
  <2>1. \A c \in Calls : call'[c].req = call[c].req /\ call'[c].reply = call[c].reply
    BY <1>0, <1>1, <1>2 DEF Return, CallEnds, Call
  <2>. QED
    BY <1>0, <2>1, CallsSeen, AnswerMaps
<1>3. CASE ~run.response.blank
  <2>. DEFINE reply == run.response
  <2>1. run.response # NoReply /\ (Req \in Requests => thread.completed[Req] = run.response)
    BY <1>0, <1>3 DEF RunInv, Return
  <2>2. PICK c \in Calls : c = run.call
    BY <1>0
  <2>3. PICK given \in Reply \ {NoReply} : given = run.response
    BY <1>0, <2>1
  <2>4. call' = [call EXCEPT ![c].stage = "replied", ![c].reply = given]
    BY <1>3, <2>2, <2>3 DEF Return, CallEnds
  <2>5. Asked' = Asked
    BY <1>0, <2>4 DEF Asked, Call
  <2>6. Returned' = [Returned EXCEPT ![c] = given]
    BY <1>0, <2>4 DEF Returned, Call
  <2>7. Returned[c] = NoReply /\ Asked[c] = Req /\ given \notin {r \in Reply : r.blank}
    BY <1>1, <1>3, <2>2, <2>3 DEF Returned, Asked, Req
  <2>8. CASE saved'.completed = saved.completed
    <3>1. Asked[c] \in Requests => saved.completed[Asked[c]] = given
      BY <1>0, <2>1, <2>2, <2>3, <2>7, <2>8
    <3>2. Promised!Give(c, given)
      BY <2>5, <2>6, <2>7, <2>8, <3>1 DEF Promised!Give
    <3>. QED
      BY <3>2 DEF Promised!PromiseNext
  <2>9. CASE /\ Req \in Requests /\ saved.completed[Req] = NoReply
             /\ saved'.completed = [saved.completed EXCEPT ![Req] = thread.completed[Req]]
    <3>1. Promised!DecideAndGive(c, given)
      BY <2>1, <2>3, <2>5, <2>6, <2>7, <2>9 DEF Promised!DecideAndGive
    <3>. QED
      BY <3>1 DEF Promised!PromiseNext
  <2>. QED
    BY <1>0, <2>8, <2>9, PromiseAnswers
<1>. QED
  BY <1>2, <1>3

LEMMA StepMapsToPromise ==
  ChatInv /\ [Next]_vars => Promised!PromiseNext \/ UNCHANGED Promised!promiseVars
<1>. SUFFICES ASSUME ChatInv, [Next]_vars
              PROVE  Promised!PromiseNext \/ UNCHANGED Promised!promiseVars
  OBVIOUS
<1>. USE DEF ChatInv
<1>0. call \in [Calls -> Call]
  BY DEF TypeOK
<1>1. ASSUME NEW c \in Calls, NEW r \in RequestId, Arrive(c, r)
      PROVE  Promised!PromiseNext \/ UNCHANGED Promised!promiseVars
  <2>1. call[c] = NewCall /\ saved' = saved
    BY <1>1 DEF Arrive, CallInv
  <2>2. call' = [call EXCEPT ![c] = [stage |-> "waiting", req |-> r, reply |-> NoReply]]
    BY <1>1 DEF Arrive
  <2>3. Returned' = Returned
    BY <1>0, <2>1, <2>2 DEF Returned, NewCall
  <2>4. Asked' = [Asked EXCEPT ![c] = r] /\ Asked[c] = NoRequest /\ Returned[c] = NoReply
    <3>1. call[c].req = NoRequest /\ call[c].reply = NoReply
      BY <2>1 DEF NewCall
    <3>2. \A d \in Calls : call'[d].req = IF d = c THEN r ELSE call[d].req
      BY <1>0, <2>2
    <3>3. Asked' = [d \in Calls |-> IF d = c THEN r ELSE call[d].req]
      BY <3>2 DEF Asked
    <3>. QED
      BY <3>1, <3>3 DEF Asked, Returned
  <2>5. CASE r \in Requests
    <3>1. Promised!Ask(c, r)
      BY <2>1, <2>3, <2>4 DEF Promised!Ask
    <3>. QED
      BY <2>5, <3>1 DEF Promised!PromiseNext
  <2>6. CASE r = NoRequest
    <3>1. Asked' = Asked
      BY <2>4, <2>6 DEF Asked
    <3>. QED
      BY <2>1, <2>3, <3>1, SilentStep
  <2>. QED
    BY <2>5, <2>6 DEF RequestId
<1>2. ASSUME NEW c \in Calls, Acquire(c) PROVE UNCHANGED Promised!promiseVars
  <2>1. \A d \in Calls : call'[d].req = call[d].req /\ call'[d].reply = call[d].reply
    BY <1>0, <1>2 DEF Acquire, Call
  <2>. QED
    BY <1>2, <2>1, CallsSeen, SilentStep DEF Acquire
<1>3. ASSUME Node PROVE UNCHANGED Promised!promiseVars
  BY <1>3, NodeFrame, CallsSeen, SilentStep
<1>4. ASSUME Persist PROVE Promised!PromiseNext \/ UNCHANGED Promised!promiseVars
  BY <1>4, CallsSeen, AnswerMaps DEF Persist
<1>5. ASSUME Fail PROVE Promised!PromiseNext \/ UNCHANGED Promised!promiseVars
  <2>1. run # FreeLock /\ run.call \in Calls /\ call[run.call].stage = "running"
    BY <1>5, RunningFacts DEF Fail, LockInv
  <2>2. call[run.call].reply = NoReply
    BY <2>1 DEF CallInv
  <2>3. \A d \in Calls : call'[d].req = call[d].req /\ call'[d].reply = call[d].reply
    BY <1>0, <1>5, <2>1, <2>2 DEF Fail, CallEnds, Call
  <2>4. saved' = saved \/ saved' = thread
    BY <1>5 DEF Fail
  <2>. QED
    BY <2>1, <2>3, <2>4, CallsSeen, SilentStep, AnswerMaps
<1>6. ASSUME Crash PROVE UNCHANGED Promised!promiseVars
  <2>1. \A d \in Calls : call'[d].req = call[d].req /\ call'[d].reply = call[d].reply
    BY <1>0, <1>6 DEF Crash, Call
  <2>. QED
    BY <1>6, <2>1, CallsSeen, SilentStep DEF Crash
<1>7. CASE UNCHANGED vars
  BY <1>7, CallsSeen, SilentStep DEF vars
<1>. QED
  BY <1>1, <1>2, <1>3, <1>4, <1>5, <1>6, <1>7, ReturnMaps DEF Next, Work

\* A request id is answered once and for all, and whoever is answered gets that
\* answer, however calls overlap, fail or are lost with the process.
THEOREM ChatKeepsPromise == Spec => KeepsPromise
BY InitMapsToPromise, StepMapsToPromise, ChatInvariant, PTL
   DEF Spec, KeepsPromise, Promised!Promise

-----------------------------------------------------------------------------
(* Retries, and what the checkpoint never loses.                            *)

\* Calls of one request that return, return the same.
RetriesAgree ==
  \A c, d \in Calls :
    /\ call[c].stage = "replied" /\ call[d].stage = "replied"
    /\ call[c].req = call[d].req /\ call[c].req \in Requests
    => call[c].reply = call[d].reply

\* A retry that returns, before or after a restart of the process, in whatever
\* order the lock serves it, gives the text and the citations of the first.
THEOREM RetriesGetTheSame == Spec => []RetriesAgree
<1>1. ChatInv => RetriesAgree
  <2>. SUFFICES ASSUME ChatInv, NEW c \in Calls, NEW d \in Calls,
                       call[c].stage = "replied", call[d].stage = "replied",
                       call[c].req = call[d].req, call[c].req \in Requests
                PROVE  call[c].reply = call[d].reply
    BY DEF RetriesAgree
  <2>1. \A e \in Calls : call[e].stage = "replied" /\ call[e].req \in Requests
          => saved.completed[call[e].req] = call[e].reply
    BY DEF ChatInv, CallInv
  <2>. QED
    BY <2>1
<1>. QED
  BY <1>1, ChatInvariant, PTL

\* Once a request has a durable answer, no call of it adds to the history: no
\* model is asked and no tool is run for it again.
AnsweredIsQuiet ==
  run # FreeLock /\ Completed(saved, Req) => thread'.messages \in {thread.messages, saved.messages}

LEMMA AnsweredStep == ChatInv /\ [Next]_vars => AnsweredIsQuiet
<1>. SUFFICES ASSUME ChatInv, [Next]_vars, run # FreeLock, Completed(saved, Req)
              PROVE  thread'.messages \in {thread.messages, saved.messages}
  BY DEF AnsweredIsQuiet
<1>1. Completed(thread, Req)
  BY DEF ChatInv, AheadInv, Completed
<1>2. run.node \in {"reuse", "end"}
  BY <1>1 DEF ChatInv, RunInv
<1>3. CASE Node
  BY <1>2, <1>3, NodeShape, NodeFrame
     DEF ChatInv, Shape, Reuses, GoesOn, GivesUp, Asks, Adds, Finishes, Keeps, Nodes
<1>4. CASE ~Node
  BY <1>4 DEF Next, Work, Arrive, Acquire, Return, Fail, Persist, Crash, vars
<1>. QED
  BY <1>3, <1>4

\* A call of an answered request runs reuse_completed_request and nothing else:
\* the history is not added to, at most what was not saved is dropped.
THEOREM AnsweredStaysQuiet == Spec => [][AnsweredIsQuiet]_vars
<1>1. ChatInv /\ [Next]_vars => [AnsweredIsQuiet]_vars
  BY AnsweredStep
<1>. QED
  BY <1>1, ChatInvariant, PTL DEF Spec

\* The one history begins with the other.
Continues(s, t) == Len(s) <= Len(t) /\ \A i \in 1..Len(s) : t[i] = s[i]

\* The history in memory continues the one in the checkpoint.
HistoryAhead == Continues(saved.messages, thread.messages)

LEMMA ContinuesFacts ==
  ASSUME NEW s \in Seq(Message), NEW t \in Seq(Message), Continues(s, t)
  PROVE  Continues(t, t) /\ \A m \in Message : Continues(s, Append(t, m))
  BY DEF Continues

\* What a node adds comes at the end.
LEMMA NodeAppends ==
  ASSUME ChatInv, Node
  PROVE  \/ thread'.messages = thread.messages
         \/ \E m \in Message : thread'.messages = Append(thread.messages, m)
<1>1. thread.messages \in Seq(Message) /\ Req \in RequestId /\ run.call \in Calls
  BY NodeFrame, RunningFacts DEF ChatInv, TypeOK, Thread
<1>2. \A role \in {"call", "tool", "ask", "reply"} : Msg(role) \in Message
  BY <1>1 DEF Msg, Message
<1>3. CASE Asks
  BY <1>1, <1>3, AddHumanType DEF Asks, AddHuman, Human, Message
<1>4. CASE Reuses \/ GoesOn \/ GivesUp
  BY <1>4 DEF Reuses, GoesOn, GivesUp, Keeps
<1>5. ASSUME NEW from, NEW to, NEW role \in {"call", "tool"}, Adds(from, role, to)
      PROVE  \E m \in Message : thread'.messages = Append(thread.messages, m)
  BY <1>2, <1>5 DEF Adds
<1>6. ASSUME NEW role \in {"ask", "reply"}, Finishes(role)
      PROVE  \E m \in Message : thread'.messages = Append(thread.messages, m)
  BY <1>2, <1>6 DEF Finishes
<1>. QED
  BY <1>3, <1>4, <1>5, <1>6, NodeShape DEF ChatInv, Shape

LEMMA HistoryStep ==
  ASSUME ChatInv, HistoryAhead, [Next]_vars
  PROVE  HistoryAhead' /\ Continues(saved.messages, saved'.messages)
<1>1. saved.messages \in Seq(Message) /\ thread.messages \in Seq(Message)
  BY DEF ChatInv, TypeOK, Thread
<1>2. Continues(saved.messages, saved.messages)
  BY <1>1 DEF Continues
<1>3. CASE Node
  BY <1>1, <1>2, <1>3, NodeFrame, NodeAppends, ContinuesFacts DEF ChatInv, HistoryAhead
<1>4. CASE ~Node
  <2>1. \/ saved' = saved /\ thread' = thread
        \/ saved' = saved /\ thread' = saved
        \/ saved' = thread /\ thread' = thread
    BY <1>4 DEF Next, Work, Arrive, Acquire, Return, Fail, Persist, Crash, vars
  <2>. QED
    BY <1>1, <1>2, <2>1, ContinuesFacts DEF HistoryAhead
<1>. QED
  BY <1>3, <1>4

\* No retry, failure, overlap or restart takes a message out of a thread's
\* durable history or changes the order: it only grows at its end.
THEOREM HistoryOnlyGrows == Spec => [][Continues(saved.messages, saved'.messages)]_vars
<1>1. Init => HistoryAhead
  BY DEF Init, HistoryAhead, Continues, NewThread
<1>2. ChatInv /\ HistoryAhead /\ [Next]_vars
        => HistoryAhead' /\ [Continues(saved.messages, saved'.messages)]_vars
  BY HistoryStep
<1>. QED
  BY <1>1, <1>2, ChatInvariant, PTL DEF Spec
=============================================================================
