----------------------------- MODULE ChatPromise -----------------------------
(***************************************************************************)
(* What a chat thread promises its callers, without nodes, locks, crashes  *)
(* or histories: a request id is answered once and for all, whoever asks   *)
(* gets that answer or an error, and no answer without words is given.     *)
(***************************************************************************)
CONSTANTS Requests, NoRequest, Calls, Replies, NoReply, Blank

VARIABLES
  answer,    \* of each request id, or NoReply
  asked,     \* the request id of each call under way, or NoRequest
  returned   \* what each call was given, or NoReply

promiseVars == <<answer, asked, returned>>

PromiseInit ==
  /\ answer = [r \in Requests |-> NoReply]
  /\ asked = [c \in Calls |-> NoRequest]
  /\ returned = [c \in Calls |-> NoReply]

Ask(c, r) ==
  /\ asked[c] = NoRequest /\ returned[c] = NoReply
  /\ asked' = [asked EXCEPT ![c] = r]
  /\ UNCHANGED <<answer, returned>>

Decide(r, reply) ==
  /\ answer[r] = NoReply
  /\ answer' = [answer EXCEPT ![r] = reply]
  /\ UNCHANGED <<asked, returned>>

Give(c, reply) ==
  /\ returned[c] = NoReply
  /\ reply \notin Blank
  /\ asked[c] \in Requests => answer[asked[c]] = reply
  /\ returned' = [returned EXCEPT ![c] = reply]
  /\ UNCHANGED <<answer, asked>>

\* The last moment at which an answer can become known is the return itself.
DecideAndGive(c, reply) ==
  /\ asked[c] \in Requests /\ answer[asked[c]] = NoReply
  /\ returned[c] = NoReply
  /\ reply \notin Blank
  /\ answer' = [answer EXCEPT ![asked[c]] = reply]
  /\ returned' = [returned EXCEPT ![c] = reply]
  /\ UNCHANGED asked

PromiseNext ==
  \/ \E c \in Calls, r \in Requests : Ask(c, r)
  \/ \E r \in Requests, reply \in Replies : Decide(r, reply)
  \/ \E c \in Calls, reply \in Replies : Give(c, reply) \/ DecideAndGive(c, reply)

Promise == PromiseInit /\ [][PromiseNext]_promiseVars
=============================================================================
