---------------------------- MODULE RefreshTokens ----------------------------
(***************************************************************************)
(* The refresh tokens of one user, and the calls to /api/auth/* that spend *)
(* them: each is a call of a page to the web server, which calls the       *)
(* service, whose transactions lock the row of the token.                  *)
(*                                                                         *)
(* A pair is an access token with the refresh token issued beside it.      *)
(***************************************************************************)
EXTENDS Naturals

CONSTANTS
  MaxPairs,      \* bound on the pairs issued
  Pages,         \* open tabs of one browser
  NoPair, NoPage

ASSUME TokenAssumption ==
  /\ MaxPairs \in Nat
  /\ NoPair \notin Nat
  /\ NoPage \notin Pages

Pairs == 1..MaxPairs

\* clear is clearBrowserSession, exit the button.
Kinds == {"login", "me", "refresh", "clear", "exit"}
Calls == Pages \X Kinds

VARIABLES
  row,   \* refresh_tokens, and whether the access token beside is accepted
  call   \* for each page, what it has asked of each route and not yet heard

\* login is the first pair of the session, by (history) the page whose shared
\* refresh asked for the pair.
Row == [state : {"none", "live", "revoked"}, login : Pairs \cup {NoPair},
        stale : BOOLEAN, by : Pages \cup {NoPage}]

NoRow == [state |-> "none", login |-> NoPair, stale |-> FALSE, by |-> NoPage]

\* pair was in the cookies sent, gift and cookies are for those of the answer.
Call == [stage : {"idle", "sent", "locked", "checking", "answered"},
         pair : Pairs \cup {NoPair}, gift : Pairs \cup {NoPair},
         cookies : {"keep", "write", "clear"}, ok : BOOLEAN]

NoCall == [stage |-> "idle", pair |-> NoPair, gift |-> NoPair, cookies |-> "keep",
           ok |-> FALSE]

Asked(pair) == [NoCall EXCEPT !.stage = "sent", !.pair = pair]

Issued == {pair \in Pairs : row[pair].state # "none"}

\* Pairs are numbered as they are issued.
Fresh == {pair \in Pairs \ Issued : \A other \in Pairs : other < pair => other \in Issued}

Accepted(pair) == pair # NoPair /\ ~row[pair].stale

\* Mutant: SELECT without FOR UPDATE.
NeverLocked(pair) == FALSE

\* FOR UPDATE.
Locked(pair) == \E c \in Calls : call[c].stage = "locked" /\ call[c].pair = pair

Kind(c) == c[2]

Reach(c, stage) == call' = [call EXCEPT ![c].stage = stage]

Reply(c, cookies, gift, ok) ==
  call' = [call EXCEPT ![c].stage = "answered", ![c].cookies = cookies,
                       ![c].gift = gift, ![c].ok = ok]

NewRow(login, page) ==
  [state |-> "live", login |-> login, stale |-> FALSE, by |-> page]

\* The answer may be lost between the service and the web server.
Login(c) ==
  /\ Kind(c) = "login" /\ call[c].stage = "sent"
  /\ \/ /\ \E pair \in Fresh :
             /\ row' = [row EXCEPT ![pair] = NewRow(pair, NoPage)]
             /\ Reply(c, "write", pair, TRUE) \/ Reply(c, "keep", NoPair, FALSE)
     \/ Reply(c, "keep", NoPair, FALSE) /\ UNCHANGED row

\* GET /api/auth/me whose access token is accepted, or that has no session, or that
\* the service cannot answer.
Identify(c) ==
  /\ Kind(c) = "me" /\ call[c].stage = "sent"
  /\ \/ Accepted(call[c].pair) /\ Reply(c, "keep", NoPair, TRUE)
     \/ Reply(c, "keep", NoPair, FALSE)
  /\ UNCHANGED row

MustRefresh(c) ==
  /\ call[c].stage = "sent"
  /\ \/ Kind(c) = "refresh"
     \/ Kind(c) = "me" /\ call[c].pair # NoPair /\ ~Accepted(call[c].pair)

\* refreshSession is null: no session, or the service does not know the token, finds
\* it revoked or expired, or cannot answer.
RefreshRefused(c) ==
  /\ MustRefresh(c)
  /\ Reply(c, "clear", NoPair, FALSE)
  /\ UNCHANGED row

\* SELECT ... FOR UPDATE finds a token that is not revoked, nor expired.
LockToken(c) ==
  /\ MustRefresh(c)
  /\ call[c].pair # NoPair
  /\ ~Locked(call[c].pair) /\ row[call[c].pair].state = "live"
  /\ Reach(c, "locked")
  /\ UNCHANGED row

\* UPDATE and INSERT commit.  The answer may be lost before the web server has it.
Rotate(c) ==
  /\ call[c].stage = "locked"
  /\ \E pair \in Fresh :
       /\ row' = [row EXCEPT
            ![call[c].pair].state = "revoked",
            ![pair] = NewRow(row[call[c].pair].login,
                             IF Kind(c) = "refresh" THEN c[1] ELSE NoPage)]
       /\ \/ Kind(c) = "refresh" /\ Reply(c, "write", pair, TRUE)
          \/ /\ Kind(c) = "me"
             /\ call' = [call EXCEPT ![c].stage = "checking", ![c].gift = pair]
          \/ Reply(c, "clear", NoPair, FALSE)

\* The transaction is rolled back.
Rollback(c) ==
  /\ call[c].stage = "locked"
  /\ Reply(c, "clear", NoPair, FALSE)
  /\ UNCHANGED row

\* Mutant: /api/auth/me uses the new pair and does not write the cookies.
IdentifyUnwritten(c) ==
  /\ call[c].stage = "checking"
  /\ Reply(c, "keep", NoPair, TRUE)
  /\ UNCHANGED row

\* /api/auth/me asks again, with the new access token.
IdentifyAgain(c) ==
  /\ call[c].stage = "checking"
  /\ IF Accepted(call[c].gift)
       THEN \E ok \in BOOLEAN : Reply(c, "write", call[c].gift, ok)
       ELSE Reply(c, "clear", NoPair, FALSE)
  /\ UNCHANGED row

\* POST /api/auth/logout revokes the token if it can, and clears the cookies.
Logout(c) ==
  /\ Kind(c) \in {"clear", "exit"} /\ call[c].stage = "sent"
  /\ Reply(c, "clear", NoPair, TRUE)
  /\ \/ /\ call[c].pair # NoPair /\ ~Locked(call[c].pair)
        /\ row[call[c].pair].state = "live"
        /\ row' = [row EXCEPT ![call[c].pair].state = "revoked"]
     \/ UNCHANGED row

Serve(c) ==
  \/ Login(c) \/ Identify(c) \/ RefreshRefused(c) \/ LockToken(c)
  \/ Rotate(c) \/ Rollback(c) \/ IdentifyAgain(c) \/ Logout(c)

\* The access token of a pair expires.
Expire(pair) ==
  /\ row[pair].state # "none" /\ ~row[pair].stale
  /\ row' = [row EXCEPT ![pair].stale = TRUE]
  /\ UNCHANGED call
=============================================================================
