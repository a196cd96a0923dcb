---------------------------- MODULE SessionPages ----------------------------
(***************************************************************************)
(* The pages of one browser: the cookies they share, and in each page the  *)
(* shared refresh, the shared logout, and requests that are retried once.  *)
(*                                                                         *)
(* Cookies are set, and the page hears of it, in one step.  Closing a page *)
(* with calls under way is losing their answers.                           *)
(***************************************************************************)
EXTENDS RefreshTokens

CONSTANTS
  Requests,  \* calls of authenticatedFetch
  PageOf,    \* the page of each
  InUse,     \* the pages in which the user logs in and out
  MaxLost    \* bound on the answers that are lost

ASSUME PageAssumption ==
  /\ PageOf \in [Requests -> Pages]
  /\ InUse \subseteq Pages
  /\ MaxLost \in Nat

VARIABLES
  jar,       \* the cookies: always both, or none
  view,      \* what the app shell of each page shows
  request,
  lost       \* (history) how many answers were lost, and the pairs sent with them

vars == <<row, call, jar, view, request, lost>>

\* changed says that the generation is not the one the request began with.
Request == [pc : {"idle", "sent", "waiting", "retried", "clearing"},
            pair : Pairs \cup {NoPair}, changed : BOOLEAN]

NoRequest == [pc |-> "idle", pair |-> NoPair, changed |-> FALSE]

\* Every variable has its type.
TypeOK ==
  /\ row \in [Pairs -> Row]
  /\ call \in [Calls -> Call]
  /\ jar \in Pairs \cup {NoPair}
  /\ view \in [Pages -> {"restoring", "login", "open"}]
  /\ request \in [Requests -> Request]
  /\ lost \in [count : 0..MaxLost, pairs : SUBSET Pairs]

Init ==
  /\ row = [pair \in Pairs |-> NoRow]
  /\ call = [c \in Calls |-> NoCall]
  /\ jar = NoPair
  /\ view = [p \in Pages |-> "restoring"]
  /\ request = [r \in Requests |-> NoRequest]
  /\ lost = [count |-> 0, pairs |-> {}]

-----------------------------------------------------------------------------
(* What a page asks of the web server.                                      *)

Start(c, pair) ==
  /\ call[c] = NoCall
  /\ call' = [call EXCEPT ![c] = Asked(pair)]

\* getCurrentUser, when the app shell mounts and after a login.
AskIdentity(p) ==
  /\ view[p] = "restoring" /\ Start(<<p, "me">>, jar)
  /\ UNCHANGED <<row, jar, view, request, lost>>

SubmitLogin(p) ==
  /\ p \in InUse /\ view[p] = "login" /\ Start(<<p, "login">>, NoPair)
  /\ UNCHANGED <<row, jar, view, request, lost>>

ClickLogout(p) ==
  /\ p \in InUse /\ view[p] = "open" /\ Start(<<p, "exit">>, jar)
  /\ UNCHANGED <<row, jar, view, request, lost>>

\* The page is loaded anew.
Reload(p) ==
  /\ \A c \in Calls : c[1] = p => call[c] = NoCall
  /\ \A r \in Requests : PageOf[r] = p => request[r] = NoRequest
  /\ view[p] # "restoring"
  /\ view' = [view EXCEPT ![p] = "restoring"]
  /\ UNCHANGED <<row, call, jar, request, lost>>

-----------------------------------------------------------------------------
(* authenticatedFetch.                                                      *)

Move(r, pc) == request' = [request EXCEPT ![r].pc = pc, ![r].pair = NoPair]

Send(r) ==
  /\ view[PageOf[r]] = "open" /\ request[r] = NoRequest
  /\ request' = [request EXCEPT ![r] = [NoRequest EXCEPT !.pc = "sent", !.pair = jar]]
  /\ UNCHANGED <<row, call, jar, view, lost>>

\* Any answer but 401, or none.
Answered(r) ==
  /\ request[r].pc \in {"sent", "retried"}
  /\ request' = [request EXCEPT ![r] = NoRequest]
  /\ UNCHANGED <<row, call, jar, view, lost>>

\* The 401, which may be late.
Rejected(r, pc) == request[r].pc = pc /\ ~Accepted(request[r].pair)

\* The generation has changed since the request began.
RetryAtOnce(r) ==
  /\ Rejected(r, "sent") /\ request[r].changed
  /\ request' = [request EXCEPT ![r] = [NoRequest EXCEPT !.pc = "retried", !.pair = jar]]
  /\ UNCHANGED <<row, call, jar, view, lost>>

\* Mutant: the generations are not compared.
Unchanged(r) == TRUE

\* The request has seen no refresh since it began.
SameGeneration(r) == ~request[r].changed

\* The shared call of a kind: started, or joined if it is under way.
Join(c) == IF call[c] = NoCall THEN Start(c, jar) ELSE UNCHANGED call

WaitForRefresh(r) ==
  /\ Rejected(r, "sent") /\ SameGeneration(r)
  /\ Move(r, "waiting")
  /\ Join(<<PageOf[r], "refresh">>)
  /\ UNCHANGED <<row, jar, view, lost>>

\* The second 401 is the last.
RejectedAgain(r) ==
  /\ Rejected(r, "retried")
  /\ Move(r, "clearing")
  /\ Join(<<PageOf[r], "clear">>)
  /\ UNCHANGED <<row, jar, view, lost>>

-----------------------------------------------------------------------------
(* What a page does with an answer, or without one.                         *)

Waiting(r, p, pc) == PageOf[r] = p /\ request[r].pc = pc

\* Mutant: the generation is not counted up.
AfterRefreshUncounted(p, ok, cookies) ==
  [r \in Requests |->
    IF Waiting(r, p, "waiting")
      THEN IF ok THEN [request[r] EXCEPT !.pc = "retried", !.pair = cookies] ELSE NoRequest
      ELSE request[r]]

\* Mutant: only one of the waiting requests is told.
FirstAfter(p, ok, cookies) ==
  LET first == CHOOSE r \in Requests : Waiting(r, p, "waiting") IN
  IF \E r \in Requests : Waiting(r, p, "waiting")
    THEN [request EXCEPT ![first] =
            IF ok THEN [@ EXCEPT !.pc = "retried", !.pair = cookies] ELSE NoRequest]
    ELSE request

\* Every request that waits is retried, or gives up; the others know the new
\* generation when they come to compare.
AfterRefresh(p, ok, cookies) ==
  [r \in Requests |->
    CASE Waiting(r, p, "waiting") /\ ok ->
           [request[r] EXCEPT !.pc = "retried", !.pair = cookies]
      [] Waiting(r, p, "waiting") /\ ~ok -> NoRequest
      [] PageOf[r] = p /\ request[r].pc = "sent" /\ ok ->
           [request[r] EXCEPT !.changed = TRUE]
      [] OTHER -> request[r]]

AfterClear(p) ==
  [r \in Requests |-> IF Waiting(r, p, "clearing") THEN NoRequest ELSE request[r]]

\* The answer of c has come, or the page knows that none will.
Hear(c, ok, cookies) ==
  LET p == c[1] IN
  /\ call' = [call EXCEPT ![c] = NoCall]
  /\ jar' = cookies
  /\ CASE Kind(c) = "login" ->
            /\ view' = IF ok THEN [view EXCEPT ![p] = "restoring"] ELSE view
            /\ UNCHANGED request
       [] Kind(c) = "me" ->
            /\ view' = [view EXCEPT ![p] = IF ok THEN "open" ELSE "login"]
            /\ UNCHANGED request
       [] Kind(c) = "refresh" ->
            /\ view' = IF ok THEN view ELSE [view EXCEPT ![p] = "login"]
            /\ request' = AfterRefresh(p, ok, cookies)
       [] Kind(c) = "clear" ->
            /\ view' = [view EXCEPT ![p] = "login"]
            /\ request' = AfterClear(p)
       [] Kind(c) = "exit" ->
            /\ view' = IF ok THEN [view EXCEPT ![p] = "login"] ELSE view
            /\ UNCHANGED request
  /\ UNCHANGED row

CookiesOf(c) ==
  CASE call[c].cookies = "keep"  -> jar
    [] call[c].cookies = "write" -> call[c].gift
    [] call[c].cookies = "clear" -> NoPair

Arrive(c) ==
  /\ call[c].stage = "answered"
  /\ Hear(c, call[c].ok, CookiesOf(c))
  /\ UNCHANGED lost

\* The connection is lost, or /api/auth/me raises after the exchange and answers
\* without the cookies.  A call that does not reach the server is refused, then lost.
Lose(c) ==
  /\ \/ call[c].stage = "checking"
     \/ call[c].stage = "answered" /\ call[c].cookies # "keep"
  /\ lost.count < MaxLost
  /\ Hear(c, FALSE, jar)
  /\ lost' = [count |-> lost.count + 1,
               pairs |-> lost.pairs \cup ({call[c].pair} \ {NoPair})]

-----------------------------------------------------------------------------
Server(c) == Serve(c) /\ UNCHANGED <<jar, view, request, lost>>

RequestStep(r) ==
  \/ Send(r) \/ Answered(r) \/ RetryAtOnce(r) \/ WaitForRefresh(r) \/ RejectedAgain(r)

UserStep(p) == AskIdentity(p) \/ SubmitLogin(p) \/ ClickLogout(p) \/ Reload(p)

Next ==
  \/ \E p \in Pages : UserStep(p)
  \/ \E r \in Requests : RequestStep(r)
  \/ \E c \in Calls : Server(c) \/ Arrive(c) \/ Lose(c)
  \/ \E pair \in Pairs : Expire(pair) /\ UNCHANGED <<jar, view, request, lost>>

Spec == Init /\ [][Next]_vars

\* The calls a request waits for end, in an answer or an error, and so do requests.
Progress ==
  /\ \A c \in Calls : Kind(c) \in {"refresh", "clear"} => WF_vars(Server(c) \/ Arrive(c))
  /\ \A r \in Requests :
       WF_vars(Answered(r) \/ RetryAtOnce(r) \/ WaitForRefresh(r) \/ RejectedAgain(r))

FairSpec == Spec /\ Progress
=============================================================================
