-------------------------- MODULE SessionProperties --------------------------
(***************************************************************************)
(* What the session must guarantee while pages, requests and logouts race, *)
(* and how its tokens implement RotationPromise.                           *)
(***************************************************************************)
EXTENDS SessionPages

\* The answer that replaces a pair in the cookies is on its way.
OnItsWay(pair) ==
  \E c \in Calls :
    /\ call[c].pair = pair
    /\ \/ call[c].stage = "checking"
       \/ call[c].stage = "answered" /\ call[c].cookies # "keep"

\* Whatever pages refresh, log in and log out at once: the cookies hold a token
\* that is spent only until an answer under way replaces it, or because such an
\* answer was lost.
CookiesCatchUp ==
  jar # NoPair /\ row[jar].state # "live" => OnItsWay(jar) \/ jar \in lost.pairs

\* A late 401 does not start a second refresh: a page never spends a pair that
\* its shared refresh has brought while the access token is still accepted.
NoEagerRefresh ==
  \A p \in Pages :
    LET c == call[<<p, "refresh">>] IN
    c.stage \in {"sent", "locked"} /\ c.pair # NoPair /\ row[c.pair].by = p
      => row[c.pair].stale

\* No request waits for ever, for a refresh, a logout or a lock.
RequestsEnd == \A r \in Requests : request[r].pc # "idle" ~> request[r].pc = "idle"

-----------------------------------------------------------------------------
(* The inductive invariant.                                                 *)

\* A pair belongs to a login that has happened; a login has one live token.
RowInv ==
  /\ \A pair \in Issued : row[pair].login \in Issued
  /\ \A one, other \in Pairs :
       /\ row[one].state = "live" /\ row[other].state = "live"
       /\ row[one].login = row[other].login
       => one = other

\* One transaction holds a row, and nobody revokes it meanwhile.
LockInv ==
  \A c \in Calls : call[c].stage = "locked" =>
    /\ call[c].pair \in Pairs /\ row[call[c].pair].state = "live"
    /\ Kind(c) \in {"me", "refresh"}
    /\ \A other \in Calls :
         call[other].stage = "locked" /\ call[other].pair = call[c].pair => other = c

\* Nobody holds a pair that was not issued.
HeldInv ==
  /\ jar # NoPair => jar \in Issued
  /\ \A c \in Calls : call[c].pair # NoPair => call[c].pair \in Issued

\* A pair on its way to the cookies is known to nobody else.
GiftInv ==
  \A c \in Calls :
    /\ call[c].stage \in {"idle", "sent", "locked"} => call[c].gift = NoPair
    /\ call[c].cookies = "write" \/ call[c].stage = "checking" => call[c].gift # NoPair
    /\ call[c].gift # NoPair =>
         /\ row[call[c].gift].state = "live" /\ jar # call[c].gift
         /\ row[call[c].gift].by = IF Kind(c) = "refresh" THEN c[1] ELSE NoPage
         /\ \A other \in Calls : /\ call[other].pair # call[c].gift
                                 /\ call[other].gift = call[c].gift => other = c
    /\ Kind(c) = "refresh" /\ call[c].cookies = "write" => call[c].ok
    /\ call[c].stage = "checking" => Kind(c) = "me"

\* A request that has seen no refresh went with the pair its page's last refresh
\* brought, if that pair is still in the cookies.
GenerationInv ==
  \A r \in Requests :
    /\ request[r].pc = "sent" /\ ~request[r].changed
    /\ jar # NoPair /\ row[jar].by = PageOf[r]
    => request[r].pair = jar

SessionInv ==
  /\ TypeOK
  /\ RowInv
  /\ LockInv
  /\ HeldInv
  /\ GiftInv
  /\ GenerationInv
  /\ CookiesCatchUp
  /\ NoEagerRefresh

-----------------------------------------------------------------------------
(* The refinement: expiry, cookies and pages disappear.                     *)

LiveOf(login) == {pair \in Pairs : row[pair].state = "live" /\ row[pair].login = login}

CurrentOf(login) == IF LiveOf(login) = {} THEN NoPair ELSE CHOOSE pair \in LiveOf(login) : TRUE

Rotation == INSTANCE RotationPromise WITH
  current <- [login \in Pairs |-> CurrentOf(login)],
  spent <- {pair \in Pairs : row[pair].state = "revoked"}

\* However many calls send one refresh token at once, it is exchanged once, and
\* what was exchanged or revoked stays so.
KeepsPromise == Rotation!Promise
=============================================================================
