--------------------------- MODULE ChatProperties ---------------------------
(***************************************************************************)
(* What a chat thread must guarantee while calls overlap, are retried,     *)
(* fail half-way or die with the process, and how it implements            *)
(* ChatPromise.                                                            *)
(***************************************************************************)
EXTENDS ChatThread

\* The texts that end a turn.
Finals(t, r) ==
  {i \in DOMAIN t.messages : /\ t.messages[i].req = r
                             /\ t.messages[i].role \in {"ask", "reply"}}

Questions(t, r) == {i \in DOMAIN t.messages : t.messages[i] = Human(r)}

CleanFor(t, r) ==
  /\ \A i, j \in Questions(t, r) : i = j
  /\ \A i, j \in Finals(t, r) : i = j
  /\ \A i \in Finals(t, r) : \E q \in Questions(t, r) : q < i
  /\ t.completed[r] # NoReply <=> Finals(t, r) # {}
  /\ \A i \in Finals(t, r) : t.messages[i].by = t.completed[r].by

\* However often a request is tried, cut off and tried again, the history holds
\* its question once and, exactly when it is completed, one final text after it:
\* the one completed_requests repeats.
CleanHistory == \A r \in Requests : CleanFor(saved, r) /\ CleanFor(thread, r)

Role(m, role) == [m EXCEPT !.role = role]

\* The tool calls that no result follows.
Loose(t) ==
  {i \in DOMAIN t.messages :
     /\ t.messages[i].role = "call"
     /\ i + 1 \in DOMAIN t.messages => t.messages[i + 1] # Role(t.messages[i], "tool")}

ResultsFollow(t) ==
  \A i \in DOMAIN t.messages : t.messages[i].role = "tool"
    => i - 1 \in DOMAIN t.messages
       /\ t.messages[i - 1] = Role(t.messages[i], "call")

LooseIsFailed(t) ==
  \A i \in Loose(t) : LET by == t.messages[i].by
                      IN  by \in Calls /\ (call[by].stage = "failed" \/ run.call = by)

\* Results of tools directly follow their call, and a call without results was
\* left by a call of the service that failed or has not ended; the model is
\* never asked again, nor a request finished, in a turn whose tools did not run.
ToolCallsEnd ==
  /\ \A t \in {saved, thread} : ResultsFollow(t) /\ LooseIsFailed(t)
  /\ \A i \in Loose(thread) : thread.messages[i].by = run.call
       => i = Len(thread.messages) /\ run.node = "tools"

\* Nobody is left waiting for the lock or for an answer: every call ends, with a
\* reply or an error, as long as what the process waits for ends.
CallsEnd == \A c \in Calls : InFlight(c) ~> ~InFlight(c)

-----------------------------------------------------------------------------
(* The refinement.  What is promised is what the checkpoint holds.          *)

Asked == [c \in Calls |-> call[c].req]
Returned == [c \in Calls |-> call[c].reply]

Promised == INSTANCE ChatPromise WITH
  Replies <- Reply \ {NoReply}, Blank <- {reply \in Reply : reply.blank},
  answer <- saved.completed, asked <- Asked, returned <- Returned

\* A request id is answered once, across retries, overlapping calls and
\* restarts; every call that returns gets that answer with its citations.
KeepsPromise == Promised!Promise

-----------------------------------------------------------------------------
(* The inductive invariant.                                                 *)

\* The lock has one holder, the waiting calls are those in the queue.
LockInv ==
  /\ \A c \in Calls : call[c].stage = "running" <=> run # FreeLock /\ run.call = c
  /\ \A i \in DOMAIN queue : call[queue[i]].stage = "waiting"
  /\ \A i, j \in DOMAIN queue : queue[i] = queue[j] => i = j

\* A call has a request once it has arrived, a reply once it has replied, and
\* the reply is the durable answer to its request.
CallInv ==
  \A c \in Calls :
    /\ call[c].stage = "new" => call[c] = NewCall
    /\ call[c].stage = "replied" => ~call[c].reply.blank /\ call[c].reply # NoReply
    /\ call[c].stage # "replied" => call[c].reply = NoReply
    /\ call[c].stage = "replied" /\ call[c].req \in Requests
         => saved.completed[call[c].req] = call[c].reply

\* The state in memory runs ahead of the checkpoint by one request at most.
AheadInv ==
  /\ run = FreeLock => thread = saved
  /\ \A r \in Requests :
       \/ thread.completed[r] = saved.completed[r]
       \/ run # FreeLock /\ r = Req /\ saved.completed[r] = NoReply

\* Where the invocation stands tells whether its request is completed.
RunInv ==
  run # FreeLock =>
    /\ run.node = "reuse" => Completed(thread, Req)
    /\ run.node \notin {"reuse", "end"} => ~Completed(thread, Req)
    /\ run.node = "end" =>
         /\ run.response # NoReply
         /\ Req \in Requests /\ ~run.response.blank => thread.completed[Req] = run.response
    /\ run.node \notin {"normalize", "reuse", "end"} /\ Req \in Requests
         => Questions(thread, Req) # {}
    /\ run.node = "tools" =>
         /\ thread.messages # << >>
         /\ thread.messages[Len(thread.messages)]
              = [role |-> "call", req |-> Req, by |-> run.call]

ChatInv ==
  /\ TypeOK
  /\ LockInv
  /\ CallInv
  /\ AheadInv
  /\ RunInv
  /\ CleanHistory
  /\ ToolCallsEnd

-----------------------------------------------------------------------------
(* A claim of docs/learning/v0.4-backend.md.                                *)

\* Only a final text goes into completed_requests; an empty one is not cached.
CachedRepliesHaveText == \A r \in Requests : ~saved.completed[r].blank
=============================================================================
