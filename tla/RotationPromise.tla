--------------------------- MODULE RotationPromise ---------------------------
(***************************************************************************)
(* What the refresh tokens promise: a login has one token at a time, each  *)
(* is spent once, and what was spent, or ended, never comes back.          *)
(***************************************************************************)
CONSTANTS Pairs, NoPair

VARIABLES
  current,   \* by the login that started the session: its token, if it has one
  spent      \* the tokens that were exchanged or revoked

Known == spent \cup {current[login] : login \in Pairs}

\* A login is named after its first token.
Begin(login) ==
  /\ current[login] = NoPair /\ login \notin Known
  /\ current' = [current EXCEPT ![login] = login]
  /\ spent' = spent

Exchange(login, pair) ==
  /\ current[login] # NoPair /\ pair \notin Known
  /\ current' = [current EXCEPT ![login] = pair]
  /\ spent' = spent \cup {current[login]}

Revoke(login) ==
  /\ current[login] # NoPair
  /\ current' = [current EXCEPT ![login] = NoPair]
  /\ spent' = spent \cup {current[login]}

promiseVars == <<current, spent>>

PromiseInit == current = [login \in Pairs |-> NoPair] /\ spent = {}

PromiseNext ==
  \E login \in Pairs :
    \/ Begin(login) \/ Revoke(login)
    \/ \E pair \in Pairs : Exchange(login, pair)

Promise == PromiseInit /\ [][PromiseNext]_promiseVars
=============================================================================
