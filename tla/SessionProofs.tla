---------------------------- MODULE SessionProofs ----------------------------
(***************************************************************************)
(* Proofs about the session: its inductive invariant SessionInv, and that  *)
(* the refresh tokens implement RotationPromise, for any pages, requests   *)
(* and pairs.                                                              *)
(***************************************************************************)
EXTENDS SessionProperties, TLAPS

LEMMA PairIsNumber == NoPair \notin Pairs /\ Pairs \subseteq Nat
  BY TokenAssumption DEF Pairs

-----------------------------------------------------------------------------
(* Steps of the web server and the service: the rows and one call change.   *)

\* No row is forgotten, and no revoked token comes back.
RowsGrow(new) ==
  /\ new \in [Pairs -> Row]
  /\ \A pair \in Issued :
       /\ new[pair].state # "none" /\ new[pair].login = row[pair].login
       /\ new[pair].by = row[pair].by
       /\ row[pair].stale => new[pair].stale
       /\ row[pair].state = "revoked" => new[pair].state = "revoked"

\* What is under way for c becomes x.
Follows(c, x, new) ==
  /\ x \in Call /\ x.pair = call[c].pair
  /\ x.stage \in {"sent", "locked"} => call[c].stage \in {"sent", "locked"}
  /\ x.stage = "locked" =>
       /\ x.pair \in Pairs /\ new[x.pair].state = "live" /\ Kind(c) \in {"me", "refresh"}
       /\ \A other \in Calls \ {c} : ~(call[other].stage = "locked" /\ call[other].pair = x.pair)
  /\ \/ call[c].stage = "checking"
     \/ call[c].stage = "answered" /\ call[c].cookies # "keep"
     => x.stage = "answered" /\ x.cookies # "keep"

\* Only the token of c may be revoked, and then its answer changes the cookies.
Revokes(c, x, new) ==
  \A pair \in Issued : row[pair].state = "live" /\ new[pair].state # "live" =>
    /\ pair = call[c].pair /\ x.stage # "locked"
    /\ \/ x.stage = "checking"
       \/ x.stage = "answered" /\ x.cookies # "keep"
    /\ \A other \in Calls \ {c} : ~(call[other].stage = "locked" /\ call[other].pair = pair)

\* The pair in the answer is the one that was there, or new.
Gives(c, x, new) ==
  /\ x.stage \in {"idle", "sent", "locked"} => x.gift = NoPair
  /\ x.cookies = "write" \/ x.stage = "checking" => x.gift # NoPair
  /\ Kind(c) = "refresh" /\ x.cookies = "write" => x.ok
  /\ x.stage = "checking" => Kind(c) = "me"
  /\ x.gift # NoPair /\ x.gift # call[c].gift =>
       /\ x.gift \in Pairs \ Issued /\ new[x.gift].state = "live"
       /\ new[x.gift].by = IF Kind(c) = "refresh" THEN c[1] ELSE NoPage

\* A pair on its way is not one that a call has sent.
LEMMA GiftUnsent ==
  ASSUME SessionInv, NEW c \in Calls, call[c].gift # NoPair
  PROVE  /\ call[c].gift \in Issued
         /\ row[call[c].gift].state = "live"
         /\ \A other \in Calls : call[other].pair # call[c].gift
<1>1. call[c].gift \in Pairs /\ row[call[c].gift].state = "live"
  BY DEF SessionInv, GiftInv, TypeOK, Call
<1>. QED
  BY <1>1 DEF SessionInv, GiftInv, Issued

LEMMA ServedKeepsInv ==
  ASSUME SessionInv, NEW c \in Calls, NEW x,
         RowsGrow(row'), RowInv',
         Follows(c, x, row'), Revokes(c, x, row'), Gives(c, x, row'),
         call' = [call EXCEPT ![c] = x],
         UNCHANGED <<jar, view, request, lost>>
  PROVE  SessionInv'
<1>. USE PairIsNumber
<1>1. TypeOK
  BY DEF SessionInv
<1>2. /\ call' \in [Calls -> Call] /\ call'[c] = x
      /\ \A other \in Calls \ {c} : call'[other] = call[other]
  BY <1>1 DEF TypeOK, Follows
<1>3. TypeOK'
  BY <1>1, <1>2 DEF TypeOK, RowsGrow
<1>4. /\ Issued \subseteq Pairs /\ Issued \subseteq Issued'
      /\ \A pair \in Pairs : row[pair].state \in {"none", "live", "revoked"}
      /\ \A pair \in Pairs : row'[pair].state \in {"none", "live", "revoked"}
  BY <1>1 DEF Issued, RowsGrow, TypeOK, Row
<1>5. LockInv'
  <2>1. ASSUME NEW o \in Calls, call'[o].stage = "locked"
        PROVE  /\ call'[o].pair \in Pairs /\ row'[call'[o].pair].state = "live"
               /\ Kind(o) \in {"me", "refresh"}
               /\ \A other \in Calls :
                    call'[other].stage = "locked" /\ call'[other].pair = call'[o].pair
                      => other = o
    <3>1. CASE o = c
      BY <1>2, <2>1, <3>1 DEF Follows
    <3>2. CASE o # c
      <4>1. call'[o] = call[o] /\ call[o].stage = "locked"
        BY <1>2, <2>1, <3>2
      <4>2. call[o].pair \in Issued /\ row[call[o].pair].state = "live"
             /\ Kind(o) \in {"me", "refresh"}
        BY <4>1 DEF SessionInv, LockInv, Issued
      <4>3. row'[call[o].pair].state = "live"
        BY <3>2, <4>1, <4>2 DEF Revokes
      <4>4. ASSUME NEW other \in Calls, call'[other].stage = "locked",
                   call'[other].pair = call[o].pair
            PROVE  other = o
        <5>1. CASE other = c
          BY <1>2, <3>2, <4>1, <4>4, <5>1 DEF Follows
        <5>2. CASE other # c
          BY <1>2, <4>1, <4>4, <5>2 DEF SessionInv, LockInv
        <5>. QED
          BY <5>1, <5>2
      <4>. QED
        BY <1>4, <4>1, <4>2, <4>3, <4>4
    <3>. QED
      BY <3>1, <3>2
  <2>. QED
    BY <2>1 DEF LockInv
<1>6. HeldInv'
  <2>1. \A o \in Calls : call'[o].pair = call[o].pair
    BY <1>2 DEF Follows
  <2>. QED
    BY <1>4, <2>1 DEF SessionInv, HeldInv
<1>7. GiftInv'
  <2>1. ASSUME NEW o \in Calls, call'[o].gift # NoPair
        PROVE  /\ row'[call'[o].gift].state = "live" /\ jar # call'[o].gift
               /\ row'[call'[o].gift].by = IF Kind(o) = "refresh" THEN o[1] ELSE NoPage
               /\ \A other \in Calls : /\ call'[other].pair # call'[o].gift
                                       /\ call'[other].gift = call'[o].gift => other = o
    <3>. DEFINE g == call'[o].gift
    <3>1. CASE g = call[o].gift
      <4>1. /\ g \in Issued /\ row[g].state = "live"
            /\ \A other \in Calls : call[other].pair # g
        BY <2>1, <3>1, GiftUnsent
      <4>2. /\ jar # g /\ row[g].by = IF Kind(o) = "refresh" THEN o[1] ELSE NoPage
            /\ \A other \in Calls : call[other].gift = g => other = o
        BY <2>1, <3>1 DEF SessionInv, GiftInv
      <4>3. row'[g].state = "live" /\ row'[g].by = row[g].by
        BY <4>1 DEF Revokes, RowsGrow
      <4>4. \A other \in Calls : call'[other].pair # g
        BY <1>2, <4>1 DEF Follows
      <4>5. ASSUME NEW other \in Calls, call'[other].gift = g PROVE other = o
        <5>1. CASE other = c
          <6>1. x.gift = g
            BY <1>2, <4>5, <5>1
          <6>2. g # NoPair
            BY <2>1
          <6>3. x.gift = call[c].gift
            BY <4>1, <6>1, <6>2 DEF Gives
          <6>. QED
            BY <4>2, <5>1, <6>1, <6>3
        <5>2. CASE other # c
          BY <1>2, <4>2, <4>5, <5>2
        <5>. QED
          BY <5>1, <5>2
      <4>. QED
        BY <4>2, <4>3, <4>4, <4>5
    <3>2. CASE g # call[o].gift
      <4>1. o = c /\ g = x.gift
        BY <1>2, <3>2
      <4>2. /\ g \in Pairs \ Issued /\ row'[g].state = "live"
            /\ row'[g].by = IF Kind(c) = "refresh" THEN c[1] ELSE NoPage
        BY <2>1, <3>2, <4>1 DEF Gives
      <4>3. jar # g /\ \A other \in Calls : call[other].pair # g
        BY <4>2 DEF SessionInv, HeldInv
      <4>4. \A other \in Calls : call'[other].pair # g
        BY <1>2, <4>3 DEF Follows
      <4>5. \A other \in Calls : call[other].gift # g
        BY <4>2, GiftUnsent
      <4>6. \A other \in Calls : call'[other].gift = g => other = o
        BY <1>2, <4>1, <4>5
      <4>. QED
        BY <4>1, <4>2, <4>3, <4>4, <4>6
    <3>. QED
      BY <3>1, <3>2
  <2>2. \A o \in Calls :
          /\ call'[o].stage \in {"idle", "sent", "locked"} => call'[o].gift = NoPair
          /\ call'[o].cookies = "write" \/ call'[o].stage = "checking" => call'[o].gift # NoPair
          /\ Kind(o) = "refresh" /\ call'[o].cookies = "write" => call'[o].ok
          /\ call'[o].stage = "checking" => Kind(o) = "me"
    BY <1>2 DEF SessionInv, GiftInv, Gives
  <2>. QED
    BY <2>1, <2>2 DEF GiftInv
<1>8. GenerationInv'
  <2>1. jar # NoPair => row'[jar].by = row[jar].by
    BY DEF SessionInv, HeldInv, RowsGrow
  <2>. QED
    BY <2>1 DEF SessionInv, GenerationInv
<1>9. CookiesCatchUp'
  <2>. SUFFICES ASSUME jar # NoPair, row'[jar].state # "live", jar \notin lost.pairs
                PROVE  OnItsWay(jar)'
    BY DEF CookiesCatchUp
  <2>1. jar \in Issued
    BY DEF SessionInv, HeldInv
  <2>2. CASE row[jar].state = "live"
    <3>1. /\ jar = call[c].pair /\ call'[c].pair = jar
          /\ \/ call'[c].stage = "checking"
             \/ call'[c].stage = "answered" /\ call'[c].cookies # "keep"
      BY <1>2, <2>1, <2>2 DEF Revokes, Follows
    <3>. QED
      BY <3>1 DEF OnItsWay
  <2>3. CASE row[jar].state # "live"
    <3>1. PICK o \in Calls :
            /\ call[o].pair = jar
            /\ \/ call[o].stage = "checking"
               \/ call[o].stage = "answered" /\ call[o].cookies # "keep"
      BY <2>3 DEF SessionInv, CookiesCatchUp, OnItsWay
    <3>2. /\ call'[o].pair = jar
          /\ \/ call'[o].stage = "checking"
             \/ call'[o].stage = "answered" /\ call'[o].cookies # "keep"
      <4>1. CASE o = c
        BY <1>2, <3>1, <4>1 DEF Follows
      <4>2. CASE o # c
        BY <1>2, <3>1, <4>2
      <4>. QED
        BY <4>1, <4>2
    <3>. QED
      BY <3>2 DEF OnItsWay
  <2>. QED
    BY <2>2, <2>3
<1>10. NoEagerRefresh'
  <2>. SUFFICES ASSUME NEW p \in Pages, call'[<<p, "refresh">>].stage \in {"sent", "locked"},
                       call'[<<p, "refresh">>].pair # NoPair,
                       row'[call'[<<p, "refresh">>].pair].by = p
                PROVE  row'[call'[<<p, "refresh">>].pair].stale
    BY DEF NoEagerRefresh
  <2>. DEFINE o == <<p, "refresh">>
  <2>1. o \in Calls
    BY DEF Calls, Kinds
  <2>2. call[o].stage \in {"sent", "locked"} /\ call'[o].pair = call[o].pair
    <3>1. CASE o = c
      BY <1>2, <2>1, <3>1 DEF Follows
    <3>2. CASE o # c
      BY <1>2, <2>1, <3>2
    <3>. QED
      BY <3>1, <3>2
  <2>3. call[o].pair \in Issued
    BY <2>1, <2>2 DEF SessionInv, HeldInv
  <2>4. row'[call[o].pair].by = row[call[o].pair].by
    BY <2>3 DEF RowsGrow
  <2>5. row[call[o].pair].stale
    BY <2>1, <2>2, <2>4 DEF SessionInv, NoEagerRefresh
  <2>. QED
    BY <2>2, <2>3, <2>5 DEF RowsGrow
<1>. QED
  BY <1>3, <1>5, <1>6, <1>7, <1>8, <1>9, <1>10 DEF SessionInv

-----------------------------------------------------------------------------
(* The steps of a call at the server.                                       *)

LEMMA SameRows ==
  ASSUME SessionInv, row' = row
  PROVE  RowsGrow(row') /\ RowInv'
  BY DEF SessionInv, TypeOK, RowsGrow, RowInv, Issued

LEMMA CallType ==
  ASSUME SessionInv, NEW c \in Calls
  PROVE  call \in [Calls -> Call] /\ call[c] \in Call
  BY DEF SessionInv, TypeOK

\* An answer without a pair, and without a change of the rows.
LEMMA PlainReplyKeepsInv ==
  ASSUME SessionInv, NEW c \in Calls, NEW cookies \in {"keep", "clear"}, NEW ok \in BOOLEAN,
         call[c].stage \in {"sent", "locked", "checking"},
         call[c].stage = "checking" => cookies = "clear",
         Reply(c, cookies, NoPair, ok), UNCHANGED <<row, jar, view, request, lost>>
  PROVE  SessionInv'
<1>. DEFINE x == [call[c] EXCEPT !.stage = "answered", !.cookies = cookies,
                                 !.gift = NoPair, !.ok = ok]
<1>0. /\ x \in Call /\ x.stage = "answered" /\ x.pair = call[c].pair
      /\ x.cookies = cookies /\ x.gift = NoPair
  BY CallType DEF Call
<1>1. call' = [call EXCEPT ![c] = x]
  BY CallType DEF Reply
<1>. HIDE DEF x
<1>2. RowsGrow(row') /\ RowInv'
  BY SameRows
<1>3. Follows(c, x, row')
  BY <1>0 DEF Follows
<1>4. Revokes(c, x, row')
  BY DEF Revokes
<1>5. Gives(c, x, row')
  BY <1>0 DEF Gives
<1>. QED
  BY <1>1, <1>2, <1>3, <1>4, <1>5, ServedKeepsInv

\* A new pair: the rows it leaves, and those of its login.
LEMMA NewPair ==
  ASSUME SessionInv, NEW pair \in Fresh, NEW login \in Issued \cup {pair},
         NEW page \in Pages \cup {NoPage},
         \A other \in Issued : row[other].state = "live" => row[other].login # login,
         row' = [row EXCEPT ![pair] = NewRow(login, page)]
  PROVE  RowsGrow(row') /\ RowInv' /\ \A other \in Issued : row'[other] = row[other]
<1>1. /\ pair \in Pairs \ Issued /\ Issued \subseteq Pairs
      /\ row \in [Pairs -> Row] /\ login \in Pairs
  BY DEF Fresh, Issued, SessionInv, TypeOK
<1>2. NewRow(login, page) \in Row /\ NewRow(login, page).state = "live"
      /\ NewRow(login, page).login = login
  BY <1>1 DEF NewRow, Row
<1>3. /\ row'[pair] = NewRow(login, page)
      /\ \A other \in Pairs \ {pair} : row'[other] = row[other]
      /\ row' \in [Pairs -> Row]
  BY <1>1, <1>2
<1>4. RowsGrow(row')
  BY <1>1, <1>3 DEF RowsGrow, Issued
<1>5. Issued' = Issued \cup {pair}
  BY <1>1, <1>2, <1>3 DEF Issued
<1>6. \A one \in Issued' : row'[one].login \in Issued'
  BY <1>1, <1>2, <1>3, <1>5 DEF SessionInv, RowInv
<1>7. ASSUME NEW one \in Pairs, NEW other \in Pairs,
             row'[one].state = "live", row'[other].state = "live",
             row'[one].login = row'[other].login
      PROVE  one = other
  <2>1. CASE one = pair /\ other # pair
    BY <1>1, <1>2, <1>3, <1>7, <2>1 DEF Issued
  <2>2. CASE one # pair /\ other = pair
    BY <1>1, <1>2, <1>3, <1>7, <2>2 DEF Issued
  <2>3. CASE one # pair /\ other # pair
    BY <1>3, <1>7, <2>3 DEF SessionInv, RowInv
  <2>. QED
    BY <2>1, <2>2, <2>3
<1>. QED
  BY <1>1, <1>3, <1>4, <1>6, <1>7 DEF RowInv

LEMMA LoginKeepsInv ==
  ASSUME SessionInv, NEW c \in Calls, Login(c), UNCHANGED <<jar, view, request, lost>>
  PROVE  SessionInv'
<1>1. CASE Reply(c, "keep", NoPair, FALSE) /\ UNCHANGED row
  BY <1>1, PlainReplyKeepsInv DEF Login
<1>2. CASE \E pair \in Fresh :
             /\ row' = [row EXCEPT ![pair] = NewRow(pair, NoPage)]
             /\ Reply(c, "write", pair, TRUE) \/ Reply(c, "keep", NoPair, FALSE)
  <2>1. PICK pair \in Fresh :
             /\ row' = [row EXCEPT ![pair] = NewRow(pair, NoPage)]
             /\ Reply(c, "write", pair, TRUE) \/ Reply(c, "keep", NoPair, FALSE)
    BY <1>2
  <2>2. pair \in Pairs \ Issued /\ row \in [Pairs -> Row]
    BY DEF Fresh, SessionInv, TypeOK
  <2>3. \A other \in Issued : row[other].state = "live" => row[other].login # pair
    BY <2>2 DEF SessionInv, RowInv
  <2>4. /\ RowsGrow(row') /\ RowInv'
        /\ \A other \in Issued : row'[other] = row[other]
    BY <2>1, <2>3, NewPair
  <2>5. row'[pair].state = "live" /\ row'[pair].by = NoPage
    BY <2>1, <2>2 DEF NewRow
  <2>6. PICK x \in Call :
          /\ call' = [call EXCEPT ![c] = x]
          /\ x.stage = "answered" /\ x.pair = call[c].pair
          /\ \/ x.cookies = "write" /\ x.gift = pair
             \/ x.cookies = "keep" /\ x.gift = NoPair
          /\ x.cookies = "write" => x.ok
    <3>1. CASE Reply(c, "write", pair, TRUE)
      <4>. DEFINE x == [call[c] EXCEPT !.stage = "answered", !.cookies = "write",
                                      !.gift = pair, !.ok = TRUE]
      <4>1. /\ x \in Call /\ x.stage = "answered" /\ x.pair = call[c].pair
            /\ x.cookies = "write" /\ x.gift = pair /\ x.ok
        BY <2>2, <3>1, CallType DEF Call
      <4>2. call' = [call EXCEPT ![c] = x]
        BY <2>2, <3>1, CallType DEF Reply
      <4>. HIDE DEF x
      <4>. QED
        BY <4>1, <4>2
    <3>2. CASE Reply(c, "keep", NoPair, FALSE)
      <4>. DEFINE x == [call[c] EXCEPT !.stage = "answered", !.cookies = "keep",
                                      !.gift = NoPair, !.ok = FALSE]
      <4>1. /\ x \in Call /\ x.stage = "answered" /\ x.pair = call[c].pair
            /\ x.cookies = "keep" /\ x.gift = NoPair
        BY <3>2, CallType DEF Call
      <4>2. call' = [call EXCEPT ![c] = x]
        BY <3>2, CallType DEF Reply
      <4>. HIDE DEF x
      <4>. QED
        BY <4>1, <4>2
    <3>. QED
      BY <2>1, <3>1, <3>2
  <2>7. Kind(c) = "login" /\ call[c].stage = "sent"
    BY DEF Login
  <2>8. Follows(c, x, row') /\ Revokes(c, x, row')
    BY <2>4, <2>6, <2>7 DEF Follows, Revokes
  <2>9. Gives(c, x, row')
    BY <2>2, <2>5, <2>6, <2>7, PairIsNumber DEF Gives
  <2>. QED
    BY <2>4, <2>6, <2>8, <2>9, ServedKeepsInv
<1>. QED
  BY <1>1, <1>2 DEF Login

LEMMA LockKeepsInv ==
  ASSUME SessionInv, NEW c \in Calls, LockToken(c), UNCHANGED <<jar, view, request, lost>>
  PROVE  SessionInv'
<1>. DEFINE x == [call[c] EXCEPT !.stage = "locked"]
<1>1. /\ call[c] \in Call /\ x \in Call /\ call[c].stage = "sent" /\ call[c].cookies \in {"keep", "write", "clear"}
      /\ call' = [call EXCEPT ![c] = x]
  BY DEF SessionInv, TypeOK, Call, LockToken, MustRefresh, Reach
<1>2. x.stage = "locked" /\ x.pair = call[c].pair /\ x.gift = call[c].gift
      /\ x.cookies = call[c].cookies /\ x.ok = call[c].ok
  BY <1>1 DEF Call
<1>. HIDE DEF x
<1>3. RowsGrow(row') /\ RowInv'
  BY SameRows DEF LockToken
<1>4. /\ call[c].pair \in Pairs /\ row'[call[c].pair].state = "live"
      /\ Kind(c) \in {"me", "refresh"}
      /\ \A other \in Calls : ~(call[other].stage = "locked" /\ call[other].pair = call[c].pair)
  BY <1>1 DEF LockToken, MustRefresh, Locked, Call
<1>5. Follows(c, x, row')
  BY <1>1, <1>2, <1>4 DEF Follows
<1>6. Revokes(c, x, row')
  BY DEF Revokes, LockToken
<1>7. Gives(c, x, row')
  BY <1>1, <1>2 DEF Gives, SessionInv, GiftInv
<1>. QED
  BY <1>1, <1>3, <1>5, <1>6, <1>7, ServedKeepsInv

Exchanged(c, pair, page) ==
  row' = [row EXCEPT ![call[c].pair].state = "revoked",
                     ![pair] = NewRow(row[call[c].pair].login, page)]

\* The exchange, whatever the answer.
LEMMA RotateRows ==
  ASSUME SessionInv, NEW c \in Calls, call[c].stage = "locked", NEW pair \in Fresh,
         NEW page \in Pages \cup {NoPage}, Exchanged(c, pair, page)
  PROVE  /\ RowsGrow(row') /\ RowInv' /\ pair \in Pairs \ Issued
         /\ row'[pair] = NewRow(row[call[c].pair].login, page)
         /\ \A other \in Issued \ {call[c].pair} : row'[other] = row[other]
         /\ \A other \in Calls \ {c} :
              ~(call[other].stage = "locked" /\ call[other].pair = call[c].pair)
<1>. DEFINE old == call[c].pair
            login == row[old].login
<1>1. /\ old \in Pairs /\ row[old].state = "live" /\ old \in Issued
      /\ \A other \in Calls \ {c} : ~(call[other].stage = "locked" /\ call[other].pair = old)
  BY DEF SessionInv, LockInv, Issued
<1>2. /\ pair \in Pairs \ Issued /\ Issued \subseteq Pairs
      /\ row \in [Pairs -> Row] /\ login \in Issued /\ pair # old
  BY <1>1 DEF Fresh, Issued, SessionInv, TypeOK, RowInv
<1>3. /\ NewRow(login, page) \in Row /\ NewRow(login, page).state = "live"
      /\ NewRow(login, page).login = login
  BY <1>2 DEF NewRow, Row
<1>4. [row[old] EXCEPT !.state = "revoked"] \in Row
  BY <1>1, <1>2 DEF Row
<1>5. /\ row'[pair] = NewRow(login, page)
      /\ row'[old] = [row[old] EXCEPT !.state = "revoked"]
      /\ \A other \in Pairs \ {pair, old} : row'[other] = row[other]
      /\ row' \in [Pairs -> Row]
  <2>1. row' = [row EXCEPT ![old].state = "revoked", ![pair] = NewRow(login, page)]
    BY DEF Exchanged
  <2>. QED
    BY <1>1, <1>2, <1>3, <1>4, <2>1
<1>6. /\ row'[old].state = "revoked" /\ row'[old].login = login
      /\ row'[old].by = row[old].by /\ row'[old].stale = row[old].stale
  BY <1>1, <1>2, <1>5 DEF Row
<1>. HIDE DEF old, login
<1>7. RowsGrow(row')
  <2>1. row[old].login = login
    BY DEF login
  <2>2. ASSUME NEW p \in Issued
        PROVE  /\ row'[p].state # "none" /\ row'[p].login = row[p].login
               /\ row'[p].by = row[p].by
               /\ row[p].stale => row'[p].stale
               /\ row[p].state = "revoked" => row'[p].state = "revoked"
    <3>1. CASE p = old
      BY <1>6, <2>1, <3>1
    <3>2. CASE p # old
      <4>1. row'[p] = row[p]
        BY <1>2, <1>5, <3>2
      <4>. QED
        BY <4>1 DEF Issued
    <3>. QED
      BY <3>1, <3>2
  <2>. QED
    BY <1>5, <2>2 DEF RowsGrow
<1>8. Issued' = Issued \cup {pair}
  <2>1. row'[pair].state = "live" /\ row'[old].state = "revoked" /\ row[old].state = "live"
    BY <1>1, <1>3, <1>5, <1>6
  <2>2. \A p \in Pairs : row'[p].state # "none" <=> row[p].state # "none" \/ p = pair
    BY <1>5, <2>1
  <2>. QED
    BY <1>2, <2>2 DEF Issued
<1>9. \A one \in Issued' : row'[one].login \in Issued'
  BY <1>2, <1>3, <1>5, <1>6, <1>8 DEF SessionInv, RowInv
<1>10. ASSUME NEW other \in Pairs, other # pair, row'[other].state = "live"
       PROVE  /\ other # old /\ row'[other] = row[other]
              /\ row'[other].login # login
  <2>1. other # old /\ row'[other] = row[other]
    BY <1>5, <1>6, <1>10
  <2>. QED
    BY <1>1, <1>10, <2>1 DEF SessionInv, RowInv, login
<1>11. ASSUME NEW one \in Pairs, NEW other \in Pairs,
              row'[one].state = "live", row'[other].state = "live",
              row'[one].login = row'[other].login
       PROVE  one = other
  <2>1. CASE one = pair /\ other # pair
    BY <1>3, <1>5, <1>10, <1>11, <2>1
  <2>2. CASE one # pair /\ other = pair
    BY <1>3, <1>5, <1>10, <1>11, <2>2
  <2>3. CASE one # pair /\ other # pair
    BY <1>10, <1>11, <2>3 DEF SessionInv, RowInv
  <2>. QED
    BY <2>1, <2>2, <2>3
<1>. QED
  BY <1>1, <1>2, <1>5, <1>7, <1>9, <1>11 DEF RowInv, old, login

LEMMA RotateKeepsInv ==
  ASSUME SessionInv, NEW c \in Calls, Rotate(c), UNCHANGED <<jar, view, request, lost>>
  PROVE  SessionInv'
<1>. DEFINE page == IF Kind(c) = "refresh" THEN c[1] ELSE NoPage
<1>1. call[c].stage = "locked" /\ call[c] \in Call /\ call[c].gift = NoPair
  BY DEF Rotate, SessionInv, TypeOK, GiftInv
<1>2. page \in Pages \cup {NoPage}
  BY DEF Calls
<1>3. PICK pair \in Fresh :
        /\ Exchanged(c, pair, page)
        /\ \/ Kind(c) = "refresh" /\ Reply(c, "write", pair, TRUE)
           \/ /\ Kind(c) = "me"
              /\ call' = [call EXCEPT ![c].stage = "checking", ![c].gift = pair]
           \/ Reply(c, "clear", NoPair, FALSE)
  BY Zenon DEF Rotate, Exchanged, page
<1>. HIDE DEF page
<1>4. /\ RowsGrow(row') /\ RowInv' /\ pair \in Pairs \ Issued
      /\ row'[pair] = NewRow(row[call[c].pair].login, page)
      /\ \A other \in Issued \ {call[c].pair} : row'[other] = row[other]
      /\ \A other \in Calls \ {c} :
           ~(call[other].stage = "locked" /\ call[other].pair = call[c].pair)
  BY <1>1, <1>2, <1>3, RotateRows
<1>5. row'[pair].state = "live" /\ row'[pair].by = page
  BY <1>4 DEF NewRow
<1>6. PICK x \in Call :
        /\ call' = [call EXCEPT ![c] = x] /\ x.pair = call[c].pair
        /\ \/ /\ x.stage = "answered" /\ x.cookies = "write" /\ x.gift = pair /\ x.ok
           \/ /\ x.stage = "checking" /\ x.gift = pair /\ Kind(c) = "me"
           \/ /\ x.stage = "answered" /\ x.cookies = "clear" /\ x.gift = NoPair
  <2>1. CASE Reply(c, "write", pair, TRUE)
    <3>. DEFINE x == [call[c] EXCEPT !.stage = "answered", !.cookies = "write",
                                    !.gift = pair, !.ok = TRUE]
    <3>1. /\ x \in Call /\ x.stage = "answered" /\ x.pair = call[c].pair
          /\ x.cookies = "write" /\ x.gift = pair /\ x.ok
      BY <1>4, <2>1, CallType DEF Call
    <3>2. call' = [call EXCEPT ![c] = x]
      BY <1>4, <2>1, CallType DEF Reply
    <3>. HIDE DEF x
    <3>. QED
      BY <3>1, <3>2
  <2>2. CASE /\ Kind(c) = "me"
             /\ call' = [call EXCEPT ![c].stage = "checking", ![c].gift = pair]
    <3>. DEFINE x == [call[c] EXCEPT !.stage = "checking", !.gift = pair]
    <3>1. x \in Call /\ x.stage = "checking" /\ x.gift = pair /\ x.pair = call[c].pair
      BY <1>1, <1>4 DEF Call
    <3>2. call' = [call EXCEPT ![c] = x]
      BY <2>2 DEF SessionInv, TypeOK
    <3>. HIDE DEF x
    <3>. QED
      BY <2>2, <3>1, <3>2
  <2>3. CASE Reply(c, "clear", NoPair, FALSE)
    <3>. DEFINE x == [call[c] EXCEPT !.stage = "answered", !.cookies = "clear",
                                    !.gift = NoPair, !.ok = FALSE]
    <3>1. /\ x \in Call /\ x.stage = "answered" /\ x.pair = call[c].pair
          /\ x.cookies = "clear" /\ x.gift = NoPair
      BY <2>3, CallType DEF Call
    <3>2. call' = [call EXCEPT ![c] = x]
      BY <2>3, CallType DEF Reply
    <3>. HIDE DEF x
    <3>. QED
      BY <3>1, <3>2
  <2>. QED
    BY <1>3, <2>1, <2>2, <2>3
<1>7. Follows(c, x, row')
  BY <1>1, <1>6 DEF Follows
<1>8. Revokes(c, x, row')
  BY <1>4, <1>6 DEF Revokes
<1>9. Gives(c, x, row')
  BY <1>4, <1>5, <1>6, PairIsNumber DEF Gives, page
<1>. QED
  BY <1>4, <1>6, <1>7, <1>8, <1>9, ServedKeepsInv

LEMMA IdentifyAgainKeepsInv ==
  ASSUME SessionInv, NEW c \in Calls, IdentifyAgain(c),
         UNCHANGED <<jar, view, request, lost>>
  PROVE  SessionInv'
<1>1. call[c].stage = "checking" /\ row' = row
  BY DEF IdentifyAgain
<1>2. CASE Reply(c, "clear", NoPair, FALSE)
  BY <1>1, <1>2, PlainReplyKeepsInv
<1>3. CASE \E ok \in BOOLEAN : Reply(c, "write", call[c].gift, ok)
  <2>1. call[c].gift \in Pairs
    BY <1>1 DEF SessionInv, TypeOK, GiftInv, Call
  <2>2. PICK x \in Call :
          /\ call' = [call EXCEPT ![c] = x]
          /\ x.stage = "answered" /\ x.pair = call[c].pair
          /\ x.cookies = "write" /\ x.gift = call[c].gift
    <3>1. PICK ok \in BOOLEAN : Reply(c, "write", call[c].gift, ok)
      BY <1>3
    <3>. DEFINE x == [call[c] EXCEPT !.stage = "answered", !.cookies = "write",
                                    !.gift = call[c].gift, !.ok = ok]
    <3>2. /\ x \in Call /\ x.stage = "answered" /\ x.pair = call[c].pair
          /\ x.cookies = "write" /\ x.gift = call[c].gift
      BY <2>1, <3>1, CallType DEF Call
    <3>3. call' = [call EXCEPT ![c] = x]
      BY <2>1, <3>1, CallType DEF Reply
    <3>. HIDE DEF x
    <3>. QED
      BY <3>2, <3>3
  <2>3. RowsGrow(row') /\ RowInv'
    BY <1>1, SameRows
  <2>4. Follows(c, x, row') /\ Revokes(c, x, row')
    BY <1>1, <2>2 DEF Follows, Revokes
  <2>5. Kind(c) # "refresh"
    BY <1>1 DEF SessionInv, GiftInv
  <2>6. Gives(c, x, row')
    BY <2>1, <2>2, <2>5, PairIsNumber DEF Gives
  <2>. QED
    BY <2>2, <2>3, <2>4, <2>6, ServedKeepsInv
<1>. QED
  BY <1>2, <1>3 DEF IdentifyAgain

LEMMA LogoutKeepsInv ==
  ASSUME SessionInv, NEW c \in Calls, Logout(c), UNCHANGED <<jar, view, request, lost>>
  PROVE  SessionInv'
<1>1. CASE UNCHANGED row
  BY <1>1, PlainReplyKeepsInv DEF Logout
<1>2. CASE /\ call[c].pair # NoPair /\ ~Locked(call[c].pair)
           /\ row[call[c].pair].state = "live"
           /\ row' = [row EXCEPT ![call[c].pair].state = "revoked"]
  <2>. DEFINE old == call[c].pair
  <2>1. /\ old \in Pairs /\ old \in Issued /\ row \in [Pairs -> Row]
        /\ \A other \in Calls : ~(call[other].stage = "locked" /\ call[other].pair = old)
    BY <1>2 DEF SessionInv, TypeOK, HeldInv, Issued, Locked, Call
  <2>2. [row[old] EXCEPT !.state = "revoked"] \in Row
    BY <2>1 DEF Row
  <2>3. /\ row'[old] = [row[old] EXCEPT !.state = "revoked"]
        /\ \A other \in Pairs \ {old} : row'[other] = row[other]
        /\ row' \in [Pairs -> Row]
    BY <1>2, <2>1, <2>2
  <2>4. /\ row'[old].state = "revoked" /\ row'[old].login = row[old].login
        /\ row'[old].by = row[old].by /\ row'[old].stale = row[old].stale
    BY <2>1, <2>3 DEF Row
  <2>. HIDE DEF old
  <2>5. RowsGrow(row')
    BY <2>1, <2>3, <2>4 DEF RowsGrow, Issued
  <2>6. Issued' = Issued
    BY <2>1, <2>3, <2>4 DEF Issued
  <2>a. \A pair \in Pairs :
          /\ row'[pair].login = row[pair].login
          /\ row'[pair].state = "live" => row[pair].state = "live"
    BY <2>3, <2>4
  <2>7. RowInv'
    <3>1. \A pair \in Issued' : row'[pair].login \in Issued'
      BY <2>a, <2>6 DEF SessionInv, RowInv, Issued
    <3>2. \A one, other \in Pairs :
            row'[one].state = "live" /\ row'[other].state = "live"
              /\ row'[one].login = row'[other].login => one = other
      BY <2>a DEF SessionInv, RowInv
    <3>. QED
      BY <3>1, <3>2 DEF RowInv
  <2>8. PICK x \in Call :
          /\ call' = [call EXCEPT ![c] = x]
          /\ x.stage = "answered" /\ x.pair = call[c].pair
          /\ x.cookies = "clear" /\ x.gift = NoPair
    <3>1. Reply(c, "clear", NoPair, TRUE)
      BY DEF Logout
    <3>. DEFINE x == [call[c] EXCEPT !.stage = "answered", !.cookies = "clear",
                                    !.gift = NoPair, !.ok = TRUE]
    <3>2. /\ x \in Call /\ x.stage = "answered" /\ x.pair = call[c].pair
          /\ x.cookies = "clear" /\ x.gift = NoPair /\ x.ok
      BY <3>1, CallType DEF Call
    <3>3. call' = [call EXCEPT ![c] = x]
      BY <3>1, CallType DEF Reply
    <3>. HIDE DEF x
    <3>. QED
      BY <3>2, <3>3
  <2>9. call[c].stage = "sent"
    BY DEF Logout
  <2>10. Follows(c, x, row') /\ Gives(c, x, row')
    BY <2>8, <2>9 DEF Follows, Gives
  <2>11. Revokes(c, x, row')
    BY <2>1, <2>3, <2>8 DEF Revokes, old, Issued
  <2>. QED
    BY <2>5, <2>7, <2>8, <2>10, <2>11, ServedKeepsInv
<1>. QED
  BY <1>1, <1>2 DEF Logout

LEMMA ServerKeepsInv ==
  ASSUME SessionInv, NEW c \in Calls, Server(c)
  PROVE  SessionInv'
<1>0. Serve(c) /\ UNCHANGED <<jar, view, request, lost>>
  BY DEF Server
<1>1. CASE Login(c)
  BY <1>0, <1>1, LoginKeepsInv
<1>2. CASE Identify(c)
  <2>1. CASE Reply(c, "keep", NoPair, TRUE)
    BY <1>0, <1>2, <2>1, PlainReplyKeepsInv DEF Identify
  <2>2. CASE Reply(c, "keep", NoPair, FALSE)
    BY <1>0, <1>2, <2>2, PlainReplyKeepsInv DEF Identify
  <2>. QED
    BY <1>2, <2>1, <2>2 DEF Identify
<1>3. CASE RefreshRefused(c)
  BY <1>0, <1>3, PlainReplyKeepsInv DEF RefreshRefused, MustRefresh
<1>4. CASE LockToken(c)
  BY <1>0, <1>4, LockKeepsInv
<1>5. CASE Rotate(c)
  BY <1>0, <1>5, RotateKeepsInv
<1>6. CASE Rollback(c)
  BY <1>0, <1>6, PlainReplyKeepsInv DEF Rollback
<1>7. CASE IdentifyAgain(c)
  BY <1>0, <1>7, IdentifyAgainKeepsInv
<1>8. CASE Logout(c)
  BY <1>0, <1>8, LogoutKeepsInv
<1>. QED
  BY <1>0, <1>1, <1>2, <1>3, <1>4, <1>5, <1>6, <1>7, <1>8 DEF Serve

-----------------------------------------------------------------------------
(* The steps of a page.                                                     *)

\* A step that starts no call, and hears of none.
LEMMA QuietKeepsInv ==
  ASSUME SessionInv, UNCHANGED <<row, call, jar, lost>>,
         view' \in [Pages -> {"restoring", "login", "open"}],
         request' \in [Requests -> Request], GenerationInv'
  PROVE  SessionInv'
<1>1. TypeOK'
  BY DEF SessionInv, TypeOK
<1>2. Issued' = Issued
  BY DEF Issued
<1>3. RowInv' /\ LockInv' /\ HeldInv' /\ GiftInv'
  BY <1>2 DEF SessionInv, RowInv, LockInv, HeldInv, GiftInv
<1>4. CookiesCatchUp' /\ NoEagerRefresh'
  BY DEF SessionInv, CookiesCatchUp, OnItsWay, NoEagerRefresh
<1>. QED
  BY <1>1, <1>3, <1>4 DEF SessionInv

\* A call is started with the cookies, or without.
LEMMA StartKeepsInv ==
  ASSUME SessionInv, NEW c \in Calls, NEW pair \in {jar, NoPair}, Start(c, pair),
         Kind(c) = "refresh" /\ pair # NoPair /\ row[pair].by = c[1] => row[pair].stale,
         UNCHANGED <<row, jar, view, lost>>,
         request' \in [Requests -> Request], GenerationInv'
  PROVE  SessionInv'
<1>. DEFINE x == Asked(pair)
<1>1. /\ x \in Call /\ x.stage = "sent" /\ x.pair = pair /\ x.gift = NoPair
      /\ x.cookies = "keep"
  BY DEF SessionInv, TypeOK, Asked, NoCall, Call
<1>2. /\ call \in [Calls -> Call] /\ call[c].stage = "idle"
      /\ call' = [call EXCEPT ![c] = x]
  BY DEF SessionInv, TypeOK, Start, NoCall
<1>. HIDE DEF x
<1>3. /\ call' \in [Calls -> Call] /\ call'[c] = x
      /\ \A other \in Calls \ {c} : call'[other] = call[other]
  BY <1>1, <1>2
<1>4. TypeOK'
  BY <1>3 DEF SessionInv, TypeOK
<1>5. Issued' = Issued /\ RowInv'
  BY DEF Issued, RowInv, SessionInv
<1>6. LockInv'
  BY <1>1, <1>3 DEF SessionInv, LockInv
<1>7. HeldInv'
  BY <1>1, <1>3, <1>5 DEF SessionInv, HeldInv
<1>8. GiftInv'
  <2>1. ASSUME NEW o \in Calls, call'[o].gift # NoPair
        PROVE  /\ row[call'[o].gift].state = "live" /\ jar # call'[o].gift
               /\ row[call'[o].gift].by = IF Kind(o) = "refresh" THEN o[1] ELSE NoPage
               /\ \A other \in Calls : /\ call'[other].pair # call'[o].gift
                                       /\ call'[other].gift = call'[o].gift => other = o
    <3>1. o # c /\ call'[o] = call[o]
      BY <1>1, <1>3, <2>1
    <3>2. /\ row[call[o].gift].state = "live" /\ jar # call[o].gift
          /\ row[call[o].gift].by = IF Kind(o) = "refresh" THEN o[1] ELSE NoPage
          /\ \A other \in Calls : /\ call[other].pair # call[o].gift
                                  /\ call[other].gift = call[o].gift => other = o
      BY <2>1, <3>1 DEF SessionInv, GiftInv
    <3>3. x.pair # call[o].gift /\ x.gift # call[o].gift
      BY <1>1, <2>1, <3>1, <3>2
    <3>. QED
      BY <1>3, <3>1, <3>2, <3>3
  <2>2. \A o \in Calls :
          /\ call'[o].stage \in {"idle", "sent", "locked"} => call'[o].gift = NoPair
          /\ call'[o].cookies = "write" \/ call'[o].stage = "checking" => call'[o].gift # NoPair
          /\ Kind(o) = "refresh" /\ call'[o].cookies = "write" => call'[o].ok
          /\ call'[o].stage = "checking" => Kind(o) = "me"
    BY <1>1, <1>3 DEF SessionInv, GiftInv
  <2>. QED
    BY <2>1, <2>2 DEF GiftInv
<1>9. CookiesCatchUp'
  <2>1. OnItsWay(jar) => OnItsWay(jar)'
    BY <1>2, <1>3 DEF OnItsWay
  <2>. QED
    BY <2>1 DEF SessionInv, CookiesCatchUp
<1>10. NoEagerRefresh'
  <2>1. ASSUME NEW p \in Pages,
               call'[<<p, "refresh">>].stage \in {"sent", "locked"},
               call'[<<p, "refresh">>].pair # NoPair,
               row[call'[<<p, "refresh">>].pair].by = p
        PROVE  row[call'[<<p, "refresh">>].pair].stale
    <3>. DEFINE o == <<p, "refresh">>
    <3>1. o \in Calls /\ Kind(o) = "refresh" /\ o[1] = p
      BY DEF Calls, Kinds, Kind
    <3>2. CASE o = c
      BY <1>1, <1>3, <2>1, <3>1, <3>2
    <3>3. CASE o # c
      <4>1. call'[o] = call[o]
        BY <1>3, <3>1, <3>3
      <4>. QED
        BY <2>1, <4>1 DEF SessionInv, NoEagerRefresh
    <3>. QED
      BY <3>2, <3>3
  <2>. QED
    BY <2>1 DEF NoEagerRefresh
<1>. QED
  BY <1>4, <1>5, <1>6, <1>7, <1>8, <1>9, <1>10 DEF SessionInv

\* The requests that are not told of a refresh, and those that begin.
LEMMA GenerationKept ==
  ASSUME SessionInv, UNCHANGED <<row, jar>>,
         \A r \in Requests : request'[r].pc = "sent" /\ ~request'[r].changed =>
           request'[r] = request[r] \/ request'[r].pair = jar
  PROVE  GenerationInv'
  BY DEF SessionInv, GenerationInv

LEMMA UserKeepsInv ==
  ASSUME SessionInv, NEW p \in Pages, UserStep(p)
  PROVE  SessionInv'
<1>1. TypeOK /\ (UNCHANGED <<row, jar, request>> => GenerationInv')
  BY GenerationKept DEF SessionInv
<1>2. <<p, "me">> \in Calls /\ <<p, "login">> \in Calls /\ <<p, "exit">> \in Calls
  BY DEF Calls, Kinds
<1>3. CASE AskIdentity(p)
  BY <1>1, <1>2, <1>3, StartKeepsInv DEF AskIdentity, TypeOK, Kind
<1>4. CASE SubmitLogin(p)
  BY <1>1, <1>2, <1>4, StartKeepsInv DEF SubmitLogin, TypeOK, Kind
<1>5. CASE ClickLogout(p)
  BY <1>1, <1>2, <1>5, StartKeepsInv DEF ClickLogout, TypeOK, Kind
<1>6. CASE Reload(p)
  BY <1>1, <1>6, QuietKeepsInv DEF Reload, TypeOK
<1>. QED
  BY <1>3, <1>4, <1>5, <1>6 DEF UserStep

LEMMA RequestKeepsInv ==
  ASSUME SessionInv, NEW r \in Requests, RequestStep(r)
  PROVE  SessionInv'
<1>1. /\ request \in [Requests -> Request] /\ jar \in Pairs \cup {NoPair}
      /\ view \in [Pages -> {"restoring", "login", "open"}]
      /\ request[r] \in Request /\ PageOf[r] \in Pages
  BY PageAssumption DEF SessionInv, TypeOK
<1>2. <<PageOf[r], "refresh">> \in Calls /\ <<PageOf[r], "clear">> \in Calls
  BY <1>1 DEF Calls, Kinds
<1>3. ASSUME NEW x \in Request, request' = [request EXCEPT ![r] = x],
             x.pc = "sent" => x.pair = jar, UNCHANGED <<row, jar>>
      PROVE  request' \in [Requests -> Request] /\ GenerationInv'
  <2>1. /\ request' \in [Requests -> Request] /\ request'[r] = x
        /\ \A other \in Requests \ {r} : request'[other] = request[other]
    BY <1>1, <1>3
  <2>2. \A o \in Requests : request'[o].pc = "sent" /\ ~request'[o].changed =>
           request'[o] = request[o] \/ request'[o].pair = jar
    BY <1>3, <2>1
  <2>. QED
    BY <1>3, <2>1, <2>2, GenerationKept
<1>4. CASE Send(r)
  <2>. DEFINE x == [NoRequest EXCEPT !.pc = "sent", !.pair = jar]
  <2>1. x \in Request /\ x.pair = jar
    BY <1>1 DEF NoRequest, Request
  <2>2. request' = [request EXCEPT ![r] = x] /\ UNCHANGED <<row, call, jar, view, lost>>
    BY <1>4 DEF Send
  <2>. HIDE DEF x
  <2>. QED
    BY <1>1, <1>3, <2>1, <2>2, QuietKeepsInv
<1>5. CASE Answered(r)
  <2>1. NoRequest \in Request /\ NoRequest.pc # "sent"
    BY DEF NoRequest, Request
  <2>. QED
    BY <1>1, <1>3, <1>5, <2>1, QuietKeepsInv DEF Answered
<1>6. CASE RetryAtOnce(r)
  <2>. DEFINE x == [NoRequest EXCEPT !.pc = "retried", !.pair = jar]
  <2>1. x \in Request /\ x.pair = jar
    BY <1>1 DEF NoRequest, Request
  <2>2. request' = [request EXCEPT ![r] = x] /\ UNCHANGED <<row, call, jar, view, lost>>
    BY <1>6 DEF RetryAtOnce
  <2>. HIDE DEF x
  <2>. QED
    BY <1>1, <1>3, <2>1, <2>2, QuietKeepsInv
<1>7. ASSUME NEW pc \in {"waiting", "clearing"}, Move(r, pc), UNCHANGED <<row, jar>>
      PROVE  request' \in [Requests -> Request] /\ GenerationInv'
  <2>. DEFINE x == [request[r] EXCEPT !.pc = pc, !.pair = NoPair]
  <2>1. x \in Request /\ x.pc # "sent"
    BY <1>1, <1>7 DEF Request
  <2>2. request' = [request EXCEPT ![r] = x]
    BY <1>1, <1>7 DEF Move
  <2>. HIDE DEF x
  <2>. QED
    BY <1>3, <1>7, <2>1, <2>2
<1>8. CASE WaitForRefresh(r)
  <2>. DEFINE c == <<PageOf[r], "refresh">>
  <2>1. UNCHANGED <<row, jar, view, lost>> /\ request' \in [Requests -> Request]
        /\ GenerationInv'
    BY <1>7, <1>8 DEF WaitForRefresh
  <2>2. CASE UNCHANGED call
    BY <1>1, <2>1, <2>2, QuietKeepsInv
  <2>3. CASE Start(c, jar)
    <3>1. jar # NoPair /\ row[jar].by = PageOf[r] => row[jar].stale
      BY <1>8 DEF WaitForRefresh, Rejected, Accepted, SameGeneration, SessionInv, GenerationInv
    <3>2. c[1] = PageOf[r]
      OBVIOUS
    <3>. QED
      BY <1>2, <2>1, <2>3, <3>1, <3>2, StartKeepsInv
  <2>. QED
    BY <1>8, <2>2, <2>3 DEF WaitForRefresh, Join
<1>9. CASE RejectedAgain(r)
  <2>. DEFINE c == <<PageOf[r], "clear">>
  <2>1. UNCHANGED <<row, jar, view, lost>> /\ request' \in [Requests -> Request]
        /\ GenerationInv'
    BY <1>7, <1>9 DEF RejectedAgain
  <2>2. CASE UNCHANGED call
    BY <1>1, <2>1, <2>2, QuietKeepsInv
  <2>3. CASE Start(c, jar)
    BY <1>2, <2>1, <2>3, StartKeepsInv DEF Kind
  <2>. QED
    BY <1>9, <2>2, <2>3 DEF RejectedAgain, Join
<1>. QED
  BY <1>4, <1>5, <1>6, <1>8, <1>9 DEF RequestStep

\* What AfterRefresh and AfterClear leave of a request.
LEMMA ToldRequests ==
  ASSUME SessionInv, NEW p \in Pages, NEW ok \in BOOLEAN, NEW cookies \in Pairs \cup {NoPair}
  PROVE  /\ AfterRefresh(p, ok, cookies) \in [Requests -> Request]
         /\ AfterClear(p) \in [Requests -> Request]
         /\ \A r \in Requests :
              /\ AfterRefresh(p, ok, cookies)[r].pc = "sent"
                   /\ ~AfterRefresh(p, ok, cookies)[r].changed
                 => /\ AfterRefresh(p, ok, cookies)[r] = request[r]
                    /\ ok => PageOf[r] # p
              /\ AfterClear(p)[r].pc = "sent" => AfterClear(p)[r] = request[r]
<1>1. \A r \in Requests : request[r] \in Request
  BY DEF SessionInv, TypeOK
<1>2. NoRequest \in Request /\ NoRequest.pc = "idle"
  BY DEF NoRequest, Request
<1>3. ASSUME NEW r \in Requests
      PROVE  /\ AfterRefresh(p, ok, cookies)[r] \in Request
             /\ AfterRefresh(p, ok, cookies)[r].pc = "sent"
                  /\ ~AfterRefresh(p, ok, cookies)[r].changed
                => /\ AfterRefresh(p, ok, cookies)[r] = request[r]
                   /\ ok => PageOf[r] # p
  <2>. DEFINE x == AfterRefresh(p, ok, cookies)[r]
  <2>1. CASE Waiting(r, p, "waiting") /\ ok
    <3>1. x = [request[r] EXCEPT !.pc = "retried", !.pair = cookies]
      BY <2>1 DEF AfterRefresh, Waiting
    <3>2. x \in Request /\ x.pc = "retried"
      BY <1>1, <3>1 DEF Request
    <3>. QED
      BY <3>2
  <2>2. CASE Waiting(r, p, "waiting") /\ ~ok
    <3>1. x = NoRequest
      BY <2>2 DEF AfterRefresh
    <3>. QED
      BY <1>2, <3>1
  <2>3. CASE ~Waiting(r, p, "waiting") /\ PageOf[r] = p /\ request[r].pc = "sent" /\ ok
    <3>1. x = [request[r] EXCEPT !.changed = TRUE]
      BY <2>3 DEF AfterRefresh
    <3>2. x \in Request /\ x.changed
      BY <1>1, <3>1 DEF Request
    <3>. QED
      BY <3>2
  <2>4. CASE ~Waiting(r, p, "waiting") /\ ~(PageOf[r] = p /\ request[r].pc = "sent" /\ ok)
    <3>1. x = request[r]
      BY <2>4 DEF AfterRefresh
    <3>. QED
      BY <1>1, <2>4, <3>1
  <2>. QED
    BY <2>1, <2>2, <2>3, <2>4
<1>4. ASSUME NEW r \in Requests
      PROVE  /\ AfterClear(p)[r] \in Request
             /\ AfterClear(p)[r].pc = "sent" => AfterClear(p)[r] = request[r]
  BY <1>1, <1>2 DEF AfterClear
<1>5. /\ AfterRefresh(p, ok, cookies) = [r \in Requests |-> AfterRefresh(p, ok, cookies)[r]]
      /\ AfterClear(p) = [r \in Requests |-> AfterClear(p)[r]]
  BY DEF AfterRefresh, AfterClear
<1>. QED
  BY <1>3, <1>4, <1>5

\* The answer of c is heard, and the cookies become those it brings, or stay.
LEMMA HeardKeepsInv ==
  ASSUME SessionInv, NEW c \in Calls, NEW ok \in BOOLEAN, NEW cookies,
         Hear(c, ok, cookies),
         cookies \in {jar, NoPair} \/ (cookies = call[c].gift /\ cookies # NoPair),
         Kind(c) = "refresh" /\ cookies # jar /\ cookies # NoPair => ok,
         lost' \in [count : 0..MaxLost, pairs : SUBSET Pairs],
         CookiesCatchUp'
  PROVE  SessionInv'
<1>1. /\ call \in [Calls -> Call] /\ jar \in Pairs \cup {NoPair} /\ call[c] \in Call
      /\ NoCall \in Call /\ NoCall.pair = NoPair /\ NoCall.gift = NoPair
      /\ NoCall.stage = "idle" /\ NoCall.cookies = "keep"
      /\ view \in [Pages -> {"restoring", "login", "open"}]
      /\ request \in [Requests -> Request] /\ c[1] \in Pages
  BY DEF SessionInv, TypeOK, NoCall, Call, Calls
<1>2. cookies \in Pairs \cup {NoPair}
  BY <1>1 DEF Call
<1>3. jar' = cookies /\ row' = row /\ call' = [call EXCEPT ![c] = NoCall]
  BY DEF Hear
<1>4. /\ call' \in [Calls -> Call] /\ call'[c] = NoCall
      /\ \A other \in Calls \ {c} : call'[other] = call[other]
  BY <1>1, <1>3
<1>5. /\ view' \in [Pages -> {"restoring", "login", "open"}]
      /\ \/ request' = request
         \/ Kind(c) = "refresh" /\ request' = AfterRefresh(c[1], ok, cookies)
         \/ Kind(c) # "refresh" /\ request' = AfterClear(c[1])
      /\ Kind(c) = "refresh" => request' = AfterRefresh(c[1], ok, cookies)
  <2>1. Kind(c) \in Kinds
    BY DEF Calls, Kind
  <2>2. CASE Kind(c) = "login"
    BY <1>1, <2>2 DEF Hear
  <2>3. CASE Kind(c) = "me"
    BY <1>1, <2>3 DEF Hear
  <2>4. CASE Kind(c) = "refresh"
    BY <1>1, <2>4 DEF Hear
  <2>5. CASE Kind(c) = "clear"
    BY <1>1, <2>5 DEF Hear
  <2>6. CASE Kind(c) = "exit"
    BY <1>1, <2>6 DEF Hear
  <2>. QED
    BY <2>1, <2>2, <2>3, <2>4, <2>5, <2>6 DEF Kinds
<1>6. /\ request' \in [Requests -> Request]
      /\ \A r \in Requests : request'[r].pc = "sent" /\ ~request'[r].changed =>
           /\ request'[r] = request[r]
           /\ Kind(c) = "refresh" /\ ok => PageOf[r] # c[1]
  <2>. DEFINE p == c[1]
              refreshed == AfterRefresh(p, ok, cookies)
              cleared == AfterClear(p)
  <2>1. /\ refreshed \in [Requests -> Request] /\ cleared \in [Requests -> Request]
        /\ \A r \in Requests :
             /\ refreshed[r].pc = "sent" /\ ~refreshed[r].changed
                => refreshed[r] = request[r] /\ (ok => PageOf[r] # p)
             /\ cleared[r].pc = "sent" => cleared[r] = request[r]
    <3>1. p \in Pages
      BY <1>1
    <3>. HIDE DEF p
    <3>. QED
      BY <1>2, <3>1, ToldRequests
  <2>2. \/ Kind(c) # "refresh" /\ request' = request
        \/ Kind(c) = "refresh" /\ request' = refreshed
        \/ Kind(c) # "refresh" /\ request' = cleared
    BY <1>5
  <2>. HIDE DEF refreshed, cleared
  <2>. QED
    BY <1>1, <2>1, <2>2
<1>7. TypeOK'
  BY <1>2, <1>3, <1>4, <1>5, <1>6 DEF SessionInv, TypeOK
<1>8. Issued' = Issued /\ RowInv'
  BY <1>3 DEF SessionInv, RowInv, Issued
<1>9. LockInv'
  BY <1>1, <1>3, <1>4 DEF SessionInv, LockInv
<1>10. HeldInv'
  <2>1. cookies # NoPair => cookies \in Issued
    BY GiftUnsent DEF SessionInv, HeldInv
  <2>. QED
    BY <1>1, <1>3, <1>4, <1>8, <2>1 DEF SessionInv, HeldInv
<1>11. GiftInv'
  <2>1. ASSUME NEW o \in Calls, call'[o].gift # NoPair
        PROVE  /\ row[call'[o].gift].state = "live" /\ cookies # call'[o].gift
               /\ row[call'[o].gift].by = IF Kind(o) = "refresh" THEN o[1] ELSE NoPage
               /\ \A other \in Calls : /\ call'[other].pair # call'[o].gift
                                       /\ call'[other].gift = call'[o].gift => other = o
    <3>1. o # c /\ call'[o] = call[o]
      BY <1>1, <1>4, <2>1
    <3>2. /\ row[call[o].gift].state = "live" /\ jar # call[o].gift
          /\ row[call[o].gift].by = IF Kind(o) = "refresh" THEN o[1] ELSE NoPage
          /\ \A other \in Calls : /\ call[other].pair # call[o].gift
                                  /\ call[other].gift = call[o].gift => other = o
      BY <2>1, <3>1 DEF SessionInv, GiftInv
    <3>3. cookies # call[o].gift
      BY <2>1, <3>1, <3>2
    <3>. QED
      BY <1>1, <1>4, <2>1, <3>1, <3>2, <3>3
  <2>2. \A o \in Calls :
          /\ call'[o].stage \in {"idle", "sent", "locked"} => call'[o].gift = NoPair
          /\ call'[o].cookies = "write" \/ call'[o].stage = "checking" => call'[o].gift # NoPair
          /\ Kind(o) = "refresh" /\ call'[o].cookies = "write" => call'[o].ok
          /\ call'[o].stage = "checking" => Kind(o) = "me"
    BY <1>1, <1>4 DEF SessionInv, GiftInv
  <2>. QED
    BY <1>3, <2>1, <2>2 DEF GiftInv
<1>12. GenerationInv'
  <2>. SUFFICES ASSUME NEW r \in Requests, request'[r].pc = "sent", ~request'[r].changed,
                       cookies # NoPair, row[cookies].by = PageOf[r]
                PROVE  request'[r].pair = cookies
    BY <1>3 DEF GenerationInv
  <2>1. request'[r] = request[r] /\ (Kind(c) = "refresh" /\ ok => PageOf[r] # c[1])
    BY <1>6
  <2>2. CASE cookies = jar
    BY <2>1, <2>2 DEF SessionInv, GenerationInv
  <2>3. CASE cookies # jar
    <3>1. row[cookies].by = IF Kind(c) = "refresh" THEN c[1] ELSE NoPage
      BY <2>3 DEF SessionInv, GiftInv
    <3>2. PageOf[r] # NoPage
      BY TokenAssumption, PageAssumption
    <3>. QED
      BY <2>1, <2>3, <3>1, <3>2
  <2>. QED
    BY <2>2, <2>3
<1>13. NoEagerRefresh'
  <2>1. ASSUME NEW p \in Pages,
               call'[<<p, "refresh">>].stage \in {"sent", "locked"},
               call'[<<p, "refresh">>].pair # NoPair,
               row[call'[<<p, "refresh">>].pair].by = p
        PROVE  row[call'[<<p, "refresh">>].pair].stale
    <3>. DEFINE o == <<p, "refresh">>
    <3>1. o \in Calls
      BY DEF Calls, Kinds
    <3>2. o # c
      BY <1>1, <1>4, <2>1, <3>1
    <3>3. call'[o] = call[o]
      BY <1>4, <3>1, <3>2
    <3>. QED
      BY <2>1, <3>3 DEF SessionInv, NoEagerRefresh
  <2>. QED
    BY <1>3, <2>1 DEF NoEagerRefresh
<1>. QED
  BY <1>7, <1>8, <1>9, <1>10, <1>11, <1>12, <1>13 DEF SessionInv

LEMMA ArriveKeepsInv ==
  ASSUME SessionInv, NEW c \in Calls, Arrive(c)
  PROVE  SessionInv'
<1>1. /\ call[c] \in Call /\ call[c].ok \in BOOLEAN /\ call[c].stage = "answered"
      /\ lost' = lost /\ lost \in [count : 0..MaxLost, pairs : SUBSET Pairs]
      /\ Hear(c, call[c].ok, CookiesOf(c))
  BY DEF SessionInv, TypeOK, Arrive, Call
<1>2. \/ /\ call[c].cookies = "keep"
         /\ CookiesOf(c) = jar
      \/ /\ call[c].cookies = "write"
         /\ CookiesOf(c) = call[c].gift
         /\ call[c].gift # NoPair
      \/ /\ call[c].cookies = "clear"
         /\ CookiesOf(c) = NoPair
  <2>1. call[c].cookies \in {"keep", "write", "clear"}
    BY <1>1 DEF Call
  <2>2. call[c].cookies = "write" => call[c].gift # NoPair
    BY DEF SessionInv, GiftInv
  <2>. QED
    BY <2>1, <2>2 DEF CookiesOf
<1>3. jar' = CookiesOf(c) /\ row' = row /\ call' = [call EXCEPT ![c] = NoCall]
  BY <1>1 DEF Hear
<1>4. CookiesCatchUp'
  <2>1. CASE call[c].cookies = "keep" /\ CookiesOf(c) = jar
    <3>1. \A other \in Calls \ {c} : call'[other] = call[other]
      BY <1>3 DEF SessionInv, TypeOK
    <3>2. OnItsWay(jar) => OnItsWay(jar)'
      BY <1>1, <1>3, <2>1, <3>1 DEF OnItsWay
    <3>. QED
      BY <1>1, <1>3, <2>1, <3>2 DEF SessionInv, CookiesCatchUp
  <2>2. CASE CookiesOf(c) = call[c].gift /\ call[c].gift # NoPair
    BY <1>3, <2>2, GiftUnsent DEF CookiesCatchUp
  <2>3. CASE CookiesOf(c) = NoPair
    BY <1>3, <2>3 DEF CookiesCatchUp
  <2>. QED
    BY <1>2, <2>1, <2>2, <2>3
<1>5. Kind(c) = "refresh" /\ CookiesOf(c) # jar /\ CookiesOf(c) # NoPair => call[c].ok
  BY <1>2 DEF SessionInv, GiftInv
<1>. DEFINE cookies == CookiesOf(c)
            ok == call[c].ok
<1>6. cookies \in {jar, NoPair} \/ (cookies = call[c].gift /\ cookies # NoPair)
  BY <1>2
<1>. HIDE DEF cookies
<1>. QED
  BY <1>1, <1>4, <1>5, <1>6, HeardKeepsInv DEF cookies

LEMMA LoseKeepsInv ==
  ASSUME SessionInv, NEW c \in Calls, Lose(c)
  PROVE  SessionInv'
<1>1. /\ call[c] \in Call /\ jar' = jar /\ row' = row
      /\ call' = [call EXCEPT ![c] = NoCall]
      /\ Hear(c, FALSE, jar)
  BY DEF Lose, Hear, SessionInv, TypeOK
<1>2. /\ lost' \in [count : 0..MaxLost, pairs : SUBSET Pairs]
      /\ lost.pairs \subseteq lost'.pairs
      /\ call[c].pair # NoPair => call[c].pair \in lost'.pairs
  BY <1>1, PageAssumption DEF Lose, SessionInv, TypeOK, Call
<1>3. CookiesCatchUp'
  <2>. SUFFICES ASSUME jar # NoPair, row[jar].state # "live", jar \notin lost'.pairs
                PROVE  OnItsWay(jar)'
    BY <1>1 DEF CookiesCatchUp
  <2>1. OnItsWay(jar) /\ jar # call[c].pair
    BY <1>2 DEF SessionInv, CookiesCatchUp
  <2>2. \A other \in Calls \ {c} : call'[other] = call[other]
    BY <1>1 DEF SessionInv, TypeOK
  <2>. QED
    BY <1>1, <2>1, <2>2 DEF OnItsWay
<1>4. jar \in {jar, NoPair} /\ (Kind(c) = "refresh" /\ jar # jar /\ jar # NoPair => FALSE)
  OBVIOUS
<1>. QED
  BY <1>1, <1>2, <1>3, <1>4, HeardKeepsInv

LEMMA ExpireKeepsInv ==
  ASSUME SessionInv, NEW pair \in Pairs, Expire(pair), UNCHANGED <<jar, view, request, lost>>
  PROVE  SessionInv'
<1>1. row \in [Pairs -> Row] /\ row[pair] \in Row
  BY DEF SessionInv, TypeOK
<1>2. /\ row'[pair] = [row[pair] EXCEPT !.stale = TRUE]
      /\ \A other \in Pairs \ {pair} : row'[other] = row[other]
      /\ row' \in [Pairs -> Row] /\ call' = call
  BY <1>1 DEF Expire, Row
<1>3. \A p \in Pairs : /\ row'[p].state = row[p].state /\ row'[p].login = row[p].login
                       /\ row'[p].by = row[p].by
                       /\ row[p].stale => row'[p].stale
  BY <1>1, <1>2 DEF Row
<1>4. TypeOK' /\ \A c \in Calls : call[c] \in Call
  BY <1>2 DEF SessionInv, TypeOK
<1>5. jar \in Pairs \cup {NoPair}
  BY DEF SessionInv, TypeOK
<1>6. Issued' = Issued /\ Issued \subseteq Pairs
  BY <1>3 DEF Issued
<1>7. RowInv'
  <2>1. \A p \in Issued' : row'[p].login \in Issued'
    BY <1>3, <1>6 DEF SessionInv, RowInv
  <2>2. \A one, other \in Pairs :
          row'[one].state = "live" /\ row'[other].state = "live"
            /\ row'[one].login = row'[other].login => one = other
    BY <1>3 DEF SessionInv, RowInv
  <2>. QED
    BY <2>1, <2>2 DEF RowInv
<1>8. LockInv' /\ HeldInv'
  BY <1>2, <1>3, <1>6 DEF SessionInv, LockInv, HeldInv
<1>9. GiftInv'
  <2>1. \A c \in Calls : call[c].gift # NoPair =>
          /\ row'[call[c].gift].state = row[call[c].gift].state
          /\ row'[call[c].gift].by = row[call[c].gift].by
    BY <1>3, <1>4 DEF Call
  <2>. QED
    BY <1>2, <2>1 DEF SessionInv, GiftInv
<1>10. GenerationInv' /\ CookiesCatchUp'
  BY <1>2, <1>3, <1>5 DEF SessionInv, GenerationInv, CookiesCatchUp, OnItsWay
<1>11. NoEagerRefresh'
  <2>1. \A p \in Pages : LET c == call[<<p, "refresh">>] IN c.pair \in Pairs \cup {NoPair}
    BY <1>4 DEF Calls, Kinds, Call
  <2>. QED
    BY <1>2, <1>3, <2>1 DEF SessionInv, NoEagerRefresh
<1>. QED
  BY <1>4, <1>7, <1>8, <1>9, <1>10, <1>11 DEF SessionInv

-----------------------------------------------------------------------------
(* The theorems.                                                            *)

LEMMA InitInv ==
  ASSUME Init
  PROVE  SessionInv
<1>. USE PairIsNumber
<1>1. TypeOK
  <2>1. NoRow \in Row /\ NoCall \in Call /\ NoRequest \in Request
    BY DEF NoRow, Row, NoCall, Call, NoRequest, Request
  <2>2. lost \in [count : 0..MaxLost, pairs : SUBSET Pairs]
    BY PageAssumption DEF Init
  <2>. QED
    BY <2>1, <2>2 DEF Init, TypeOK
<1>2. Issued = {} /\ \A pair \in Pairs : row[pair].state = "none"
  BY DEF Init, Issued, NoRow
<1>3. \A c \in Calls : /\ call[c].stage = "idle" /\ call[c].pair = NoPair
                       /\ call[c].gift = NoPair /\ call[c].cookies = "keep"
  BY DEF Init, NoCall
<1>4. RowInv /\ LockInv /\ HeldInv /\ GiftInv
  BY <1>2, <1>3 DEF Init, RowInv, LockInv, HeldInv, GiftInv
<1>5. GenerationInv /\ CookiesCatchUp
  BY DEF Init, GenerationInv, CookiesCatchUp
<1>6. NoEagerRefresh
  <2>1. \A p \in Pages : call[<<p, "refresh">>].stage = "idle"
    BY <1>3 DEF Calls, Kinds
  <2>. QED
    BY <2>1 DEF NoEagerRefresh
<1>. QED
  BY <1>1, <1>4, <1>5, <1>6 DEF SessionInv

LEMMA NextKeepsInv ==
  ASSUME SessionInv, [Next]_vars
  PROVE  SessionInv'
<1>1. CASE \E p \in Pages : UserStep(p)
  BY <1>1, UserKeepsInv
<1>2. CASE \E r \in Requests : RequestStep(r)
  BY <1>2, RequestKeepsInv
<1>3. CASE \E c \in Calls : Server(c)
  BY <1>3, ServerKeepsInv
<1>4. CASE \E c \in Calls : Arrive(c)
  BY <1>4, ArriveKeepsInv
<1>5. CASE \E c \in Calls : Lose(c)
  BY <1>5, LoseKeepsInv
<1>6. CASE \E pair \in Pairs : Expire(pair) /\ UNCHANGED <<jar, view, request, lost>>
  BY <1>6, ExpireKeepsInv
<1>7. CASE UNCHANGED vars
  <2>1. GenerationInv'
    BY <1>7 DEF vars, SessionInv, GenerationInv
  <2>. QED
    BY <1>7, <2>1, QuietKeepsInv DEF vars, SessionInv, TypeOK
<1>. QED
  BY <1>1, <1>2, <1>3, <1>4, <1>5, <1>6, <1>7 DEF Next

\* However the calls of all pages interleave, and whichever answers are lost, every
\* part of SessionInv holds.
THEOREM SessionInvariant == Spec => []SessionInv
<1>1. Init => SessionInv
  BY InitInv
<1>2. SessionInv /\ [Next]_vars => SessionInv'
  BY NextKeepsInv
<1>. QED
  BY <1>1, <1>2, PTL DEF Spec

\* Cookies that hold a spent token are about to be replaced, or an answer that would
\* have replaced them was lost: whatever pages race to refresh.
THEOREM CookiesAlwaysCatchUp == Spec => []CookiesCatchUp
<1>1. SessionInv => CookiesCatchUp
  BY DEF SessionInv
<1>. QED
  BY <1>1, SessionInvariant, PTL

\* A late 401 never makes a page refresh the pair that its refresh has just brought.
THEOREM NeverEager == Spec => []NoEagerRefresh
<1>1. SessionInv => NoEagerRefresh
  BY DEF SessionInv
<1>. QED
  BY <1>1, SessionInvariant, PTL

-----------------------------------------------------------------------------
(* The refinement.  A step of the rows is a step of the promise.            *)

\* What current is: the one live token of the login.
IsCurrent(login, pair) ==
  IF pair = NoPair
    THEN \A p \in Pairs : ~(row[p].state = "live" /\ row[p].login = login)
    ELSE pair \in Pairs /\ row[pair].state = "live" /\ row[pair].login = login

LEMMA CurrentIs ==
  SessionInv => \A login \in Pairs : IsCurrent(login, CurrentOf(login))
<1>. SUFFICES ASSUME SessionInv, NEW login \in Pairs
              PROVE  IsCurrent(login, CurrentOf(login))
  OBVIOUS
<1>1. CASE LiveOf(login) = {}
  BY <1>1 DEF CurrentOf, IsCurrent, LiveOf
<1>2. CASE LiveOf(login) # {}
  <2>1. CurrentOf(login) \in LiveOf(login)
    BY <1>2 DEF CurrentOf
  <2>. QED
    BY <2>1, PairIsNumber DEF LiveOf, IsCurrent
<1>. QED
  BY <1>1, <1>2

LEMMA CurrentIsUnique ==
  SessionInv => \A login \in Pairs : \A pair \in Pairs \cup {NoPair} :
    IsCurrent(login, pair) => CurrentOf(login) = pair
<1>. SUFFICES ASSUME SessionInv, NEW login \in Pairs, NEW pair \in Pairs \cup {NoPair},
                     IsCurrent(login, pair)
              PROVE  CurrentOf(login) = pair
  OBVIOUS
<1>1. IsCurrent(login, CurrentOf(login))
  BY CurrentIs
<1>2. RowInv
  BY DEF SessionInv
<1>. HIDE DEF CurrentOf
<1>. QED
  BY <1>1, <1>2, PairIsNumber DEF IsCurrent, RowInv

LEMMA CurrentNext ==
  SessionInv' =>
    \A login \in Pairs : \A pair \in Pairs \cup {NoPair} :
      IsCurrent(login, pair)' => CurrentOf(login)' = pair
<1>. DEFINE F == SessionInv => \A login \in Pairs : \A pair \in Pairs \cup {NoPair} :
                   IsCurrent(login, pair) => CurrentOf(login) = pair
<1>1. F
  BY CurrentIsUnique
<1>2. F'
  BY <1>1, CurrentIsUnique, PTL
<1>. QED
  BY <1>2

Live(pair, login) == row[pair].state = "live" /\ row[pair].login = login

\* Only the token of one login changes, and becomes new.
LEMMA MapsTo ==
  ASSUME SessionInv, SessionInv', NEW login \in Pairs, NEW new \in Pairs \cup {NoPair},
         IsCurrent(login, new)',
         \A l \in Pairs \ {login} : \A p \in Pairs : Live(p, l)' <=> Live(p, l)
  PROVE  [l \in Pairs |-> CurrentOf(l)]' =
           [[l \in Pairs |-> CurrentOf(l)] EXCEPT ![login] = new]
<1>1. CurrentOf(login)' = new
  BY CurrentNext
<1>2. ASSUME NEW l \in Pairs \ {login}
      PROVE  CurrentOf(l)' = CurrentOf(l)
  <2>. PICK o : o = CurrentOf(l)
    OBVIOUS
  <2>1. IsCurrent(l, o) /\ o \in Pairs \cup {NoPair}
    BY CurrentIs DEF IsCurrent
  <2>2. IsCurrent(l, o)'
    BY <1>2, <2>1 DEF IsCurrent, Live
  <2>3. CurrentOf(l)' = o
    BY <2>1, <2>2, CurrentNext
  <2>. QED
    BY <2>3
<1>. HIDE DEF CurrentOf
<1>. QED
  BY <1>1, <1>2

LEMMA SameLoginsMap ==
  ASSUME SessionInv, SessionInv',
         \A p \in Pairs : row'[p].state = row[p].state /\ row'[p].login = row[p].login
  PROVE  UNCHANGED Rotation!promiseVars
<1>1. ASSUME NEW l \in Pairs PROVE CurrentOf(l)' = CurrentOf(l)
  <2>1. LiveOf(l)' = LiveOf(l)
    BY DEF LiveOf
  <2>. QED
    BY <2>1 DEF CurrentOf
<1>. HIDE DEF CurrentOf
<1>. QED
  BY <1>1 DEF Rotation!promiseVars

\* A pair that was not issued is not known.
LEMMA UnissuedUnknown ==
  ASSUME SessionInv, NEW pair \in Pairs \ Issued
  PROVE  pair \notin Rotation!Known
<1>1. row[pair].state = "none"
  BY DEF Issued
<1>2. \A l \in Pairs : CurrentOf(l) # pair
  BY <1>1, CurrentIs, PairIsNumber DEF IsCurrent
<1>. HIDE DEF CurrentOf
<1>. QED
  BY <1>1, <1>2 DEF Rotation!Known

LEMMA BeginMaps ==
  ASSUME SessionInv, SessionInv', NEW pair \in Fresh,
         row' = [row EXCEPT ![pair] = NewRow(pair, NoPage)]
  PROVE  Rotation!Begin(pair)
<1>1. pair \in Pairs \ Issued /\ row \in [Pairs -> Row] /\ Issued \subseteq Pairs
  BY DEF Fresh, SessionInv, TypeOK, Issued
<1>2. /\ row'[pair].state = "live" /\ row'[pair].login = pair
      /\ \A p \in Pairs \ {pair} : row'[p] = row[p]
      /\ row[pair].state = "none"
  BY <1>1 DEF NewRow, Issued
<1>3. \A p \in Pairs : ~Live(p, pair)
  BY <1>1 DEF SessionInv, RowInv, Live, Issued
<1>4. IsCurrent(pair, NoPair)
  BY <1>3 DEF IsCurrent, Live
<1>5. CurrentOf(pair) = NoPair
  BY <1>1, <1>4, CurrentIsUnique
<1>6. IsCurrent(pair, pair)'
  BY <1>1, <1>2, PairIsNumber DEF IsCurrent
<1>7. \A l \in Pairs \ {pair} : \A p \in Pairs : Live(p, l)' <=> Live(p, l)
  BY <1>2 DEF Live
<1>8. [l \in Pairs |-> CurrentOf(l)]' =
        [[l \in Pairs |-> CurrentOf(l)] EXCEPT ![pair] = pair]
  BY <1>1, <1>6, <1>7, MapsTo
<1>9. {p \in Pairs : row'[p].state = "revoked"} = {p \in Pairs : row[p].state = "revoked"}
  BY <1>2
<1>10. pair \notin Rotation!Known
  BY <1>1, UnissuedUnknown
<1>. HIDE DEF CurrentOf
<1>. QED
  BY <1>1, <1>5, <1>8, <1>9, <1>10 DEF Rotation!Begin

\* The token of a login that has one.
LEMMA LockedIsCurrent ==
  ASSUME SessionInv, NEW old \in Pairs, row[old].state = "live"
  PROVE  row[old].login \in Pairs /\ CurrentOf(row[old].login) = old
<1>1. row[old].login \in Pairs
  BY DEF SessionInv, RowInv, Issued
<1>2. IsCurrent(row[old].login, old)
  BY PairIsNumber DEF IsCurrent
<1>. QED
  BY <1>1, <1>2, CurrentIsUnique

LEMMA ExchangeMaps ==
  ASSUME SessionInv, SessionInv', NEW c \in Calls, call[c].stage = "locked",
         NEW pair \in Fresh, NEW page \in Pages \cup {NoPage}, Exchanged(c, pair, page)
  PROVE  Rotation!Exchange(row[call[c].pair].login, pair)
<1>. PICK old : old = call[c].pair
  OBVIOUS
<1>. PICK login : login = row[old].login
  OBVIOUS
<1>1. /\ old \in Pairs /\ row[old].state = "live" /\ row \in [Pairs -> Row]
      /\ pair \in Pairs \ Issued /\ pair # old /\ row[pair].state = "none"
  BY DEF SessionInv, LockInv, TypeOK, Fresh, Issued
<1>2. login \in Pairs /\ CurrentOf(login) = old
  BY <1>1, LockedIsCurrent
<1>3. row' = [row EXCEPT ![old].state = "revoked", ![pair] = NewRow(login, page)]
  BY DEF Exchanged
<1>4. /\ row'[pair].state = "live" /\ row'[pair].login = login
      /\ row'[old] = [row[old] EXCEPT !.state = "revoked"]
      /\ \A p \in Pairs \ {pair, old} : row'[p] = row[p]
  BY <1>1, <1>3 DEF NewRow
<1>5. row'[old].state = "revoked"
  BY <1>1, <1>4 DEF Row
<1>6. IsCurrent(login, pair)'
  BY <1>1, <1>4, PairIsNumber DEF IsCurrent
<1>7. ASSUME NEW l \in Pairs \ {login}, NEW p \in Pairs
      PROVE  Live(p, l)' <=> Live(p, l)
  <2>1. CASE p = pair
    BY <1>1, <1>4, <2>1 DEF Live
  <2>2. CASE p = old
    BY <1>5, <2>2 DEF Live
  <2>3. CASE p \notin {pair, old}
    BY <1>4, <2>3 DEF Live
  <2>. QED
    BY <2>1, <2>2, <2>3
<1>8. [l \in Pairs |-> CurrentOf(l)]' =
        [[l \in Pairs |-> CurrentOf(l)] EXCEPT ![login] = pair]
  BY <1>1, <1>2, <1>6, <1>7, MapsTo
<1>9. {p \in Pairs : row'[p].state = "revoked"} =
        {p \in Pairs : row[p].state = "revoked"} \cup {old}
  <2>1. \A p \in Pairs : row'[p].state = "revoked" <=> row[p].state = "revoked" \/ p = old
    BY <1>1, <1>4, <1>5
  <2>. QED
    BY <1>1, <2>1
<1>10. pair \notin Rotation!Known
  BY <1>1, UnissuedUnknown
<1>. HIDE DEF CurrentOf
<1>. QED
  BY <1>1, <1>2, <1>8, <1>9, <1>10, PairIsNumber DEF Rotation!Exchange

Revoked(old) == row[old].state = "live" /\ row' = [row EXCEPT ![old].state = "revoked"]

LEMMA RevokeMaps ==
  ASSUME SessionInv, SessionInv', NEW old \in Pairs, Revoked(old),
         NEW login, login = row[old].login
  PROVE  Rotation!Revoke(login)
<1>0. row[old].state = "live" /\ row' = [row EXCEPT ![old].state = "revoked"]
  BY DEF Revoked
<1>1. login \in Pairs /\ CurrentOf(login) = old
  BY <1>0, LockedIsCurrent
<1>2. /\ row'[old] = [row[old] EXCEPT !.state = "revoked"]
      /\ \A p \in Pairs \ {old} : row'[p] = row[p]
      /\ row[old] \in Row
  BY <1>0 DEF SessionInv, TypeOK
<1>3. row'[old].state = "revoked"
  BY <1>2 DEF Row
<1>4. IsCurrent(login, NoPair)'
  <2>1. ASSUME NEW p \in Pairs PROVE ~(row'[p].state = "live" /\ row'[p].login = login)
    BY <1>0, <1>2, <1>3 DEF SessionInv, RowInv
  <2>. QED
    BY <2>1 DEF IsCurrent
<1>5. \A l \in Pairs \ {login} : \A p \in Pairs : Live(p, l)' <=> Live(p, l)
  BY <1>0, <1>2, <1>3 DEF Live
<1>6. [l \in Pairs |-> CurrentOf(l)]' =
        [[l \in Pairs |-> CurrentOf(l)] EXCEPT ![login] = NoPair]
  BY <1>1, <1>4, <1>5, MapsTo
<1>7. {p \in Pairs : row'[p].state = "revoked"} =
        {p \in Pairs : row[p].state = "revoked"} \cup {old}
  <2>1. \A p \in Pairs : row'[p].state = "revoked" <=> row[p].state = "revoked" \/ p = old
    BY <1>2, <1>3
  <2>. QED
    BY <2>1
<1>. HIDE DEF CurrentOf
<1>. QED
  BY <1>1, <1>6, <1>7, PairIsNumber DEF Rotation!Revoke

LEMMA InitMaps == Init => Rotation!PromiseInit
<1>. SUFFICES ASSUME Init PROVE Rotation!PromiseInit
  OBVIOUS
<1>1. \A pair \in Pairs : row[pair].state = "none"
  BY DEF Init, NoRow
<1>2. \A l \in Pairs : CurrentOf(l) = NoPair
  BY <1>1 DEF CurrentOf, LiveOf
<1>3. {p \in Pairs : row[p].state = "revoked"} = {}
  BY <1>1
<1>. HIDE DEF CurrentOf
<1>. QED
  BY <1>2, <1>3 DEF Rotation!PromiseInit

\* What a step does to the rows.
LEMMA RowSteps ==
  ASSUME SessionInv, Next
  PROVE  \/ row' = row
         \/ \E pair \in Pairs : Expire(pair)
         \/ \E pair \in Fresh : row' = [row EXCEPT ![pair] = NewRow(pair, NoPage)]
         \/ \E c \in Calls, pair \in Fresh, page \in Pages \cup {NoPage} :
              call[c].stage = "locked" /\ Exchanged(c, pair, page)
         \/ \E old \in Pairs : Revoked(old)
<1>1. CASE \E p \in Pages : UserStep(p)
  BY <1>1 DEF UserStep, AskIdentity, SubmitLogin, ClickLogout, Reload
<1>2. CASE \E r \in Requests : RequestStep(r)
  BY <1>2 DEF RequestStep, Send, Answered, RetryAtOnce, WaitForRefresh, RejectedAgain
<1>3. ASSUME NEW c \in Calls, Arrive(c) \/ Lose(c)
      PROVE  row' = row
  BY <1>3 DEF Arrive, Lose, Hear
<1>4. ASSUME NEW c \in Calls, Server(c)
      PROVE  \/ row' = row
             \/ \E pair \in Fresh : row' = [row EXCEPT ![pair] = NewRow(pair, NoPage)]
             \/ \E pair \in Fresh, page \in Pages \cup {NoPage} :
                  call[c].stage = "locked" /\ Exchanged(c, pair, page)
             \/ \E old \in Pairs : Revoked(old)
  <2>1. CASE Login(c)
    BY <2>1 DEF Login
  <2>2. CASE Rotate(c)
    <3>. DEFINE page == IF Kind(c) = "refresh" THEN c[1] ELSE NoPage
    <3>1. page \in Pages \cup {NoPage}
      BY DEF Calls
    <3>2. call[c].stage = "locked" /\ \E pair \in Fresh : Exchanged(c, pair, page)
      BY <2>2, Zenon DEF Rotate, Exchanged
    <3>. HIDE DEF page
    <3>. QED
      BY <3>1, <3>2
  <2>3. CASE Logout(c)
    <3>1. call[c].pair # NoPair => call[c].pair \in Pairs
      BY DEF SessionInv, TypeOK, Call
    <3>. QED
      BY <2>3, <3>1 DEF Logout, Revoked
  <2>4. CASE \/ Identify(c) \/ RefreshRefused(c) \/ LockToken(c) \/ Rollback(c)
            \/ IdentifyAgain(c)
    BY <2>4 DEF Identify, RefreshRefused, LockToken, Rollback, IdentifyAgain
  <2>. QED
    BY <1>4, <2>1, <2>2, <2>3, <2>4 DEF Server, Serve
<1>5. CASE \E pair \in Pairs : Expire(pair) /\ UNCHANGED <<jar, view, request, lost>>
  BY <1>5
<1>. QED
  BY <1>1, <1>2, <1>3, <1>4, <1>5 DEF Next

LEMMA StepMaps ==
  ASSUME SessionInv, [Next]_vars
  PROVE  [Rotation!PromiseNext]_(Rotation!promiseVars)
<1>1. SessionInv'
  BY NextKeepsInv
<1>2. CASE row' = row
  BY <1>1, <1>2, SameLoginsMap
<1>3. ASSUME NEW pair \in Pairs, Expire(pair) PROVE UNCHANGED Rotation!promiseVars
  <2>1. row \in [Pairs -> Row] /\ row' = [row EXCEPT ![pair].stale = TRUE]
    BY <1>3 DEF SessionInv, TypeOK, Expire
  <2>2. \A p \in Pairs : row'[p].state = row[p].state /\ row'[p].login = row[p].login
    BY <2>1 DEF Row
  <2>. QED
    BY <1>1, <2>2, SameLoginsMap
<1>4. ASSUME NEW pair \in Fresh, row' = [row EXCEPT ![pair] = NewRow(pair, NoPage)]
      PROVE  Rotation!PromiseNext
  <2>1. Rotation!Begin(pair) /\ pair \in Pairs
    BY <1>1, <1>4, BeginMaps DEF Fresh
  <2>. QED
    BY <2>1 DEF Rotation!PromiseNext
<1>5. ASSUME NEW c \in Calls, NEW pair \in Fresh, NEW page \in Pages \cup {NoPage},
             call[c].stage = "locked", Exchanged(c, pair, page)
      PROVE  Rotation!PromiseNext
  <2>1. Rotation!Exchange(row[call[c].pair].login, pair)
    BY <1>1, <1>5, ExchangeMaps
  <2>2. pair \in Pairs /\ row[call[c].pair].login \in Pairs
    BY <1>5, LockedIsCurrent DEF Fresh, SessionInv, LockInv
  <2>. QED
    BY <2>1, <2>2 DEF Rotation!PromiseNext
<1>6. ASSUME NEW old \in Pairs, Revoked(old)
      PROVE  Rotation!PromiseNext
  <2>. PICK login : login = row[old].login
    OBVIOUS
  <2>1. Rotation!Revoke(login)
    BY <1>1, <1>6, RevokeMaps
  <2>2. login \in Pairs
    BY <1>6, LockedIsCurrent DEF Revoked
  <2>. QED
    BY <2>1, <2>2 DEF Rotation!PromiseNext
<1>7. CASE UNCHANGED vars
  BY <1>2, <1>7 DEF vars
<1>. QED
  BY <1>2, <1>3, <1>4, <1>5, <1>6, <1>7, RowSteps

\* However many calls spend one token at once, it is exchanged at most once, and what
\* was exchanged or revoked stays so.
THEOREM TokensKeepPromise == Spec => KeepsPromise
<1>1. SessionInv /\ [Next]_vars => [Rotation!PromiseNext]_(Rotation!promiseVars)
  BY StepMaps
<1>. QED
  BY <1>1, InitMaps, SessionInvariant, PTL DEF Spec, KeepsPromise, Rotation!Promise

-----------------------------------------------------------------------------
(* The end of a login.                                                      *)

\* What a step may change of a pair that was issued: a live one is revoked.
PairsStay ==
  \A pair \in Issued :
    /\ row'[pair].login = row[pair].login /\ row'[pair].by = row[pair].by
    /\ row'[pair].state = row[pair].state \/ row'[pair].state = "revoked"
    /\ row[pair].stale => row'[pair].stale

LEMMA PairsStep == ASSUME SessionInv, [Next]_vars PROVE PairsStay
<1>0. row \in [Pairs -> Row] /\ Issued \subseteq Pairs
  BY DEF SessionInv, TypeOK, Issued
<1>1. CASE row' = row
  BY <1>1 DEF PairsStay
<1>2. ASSUME NEW pair \in Pairs, Expire(pair) PROVE PairsStay
  BY <1>0, <1>2 DEF Expire, PairsStay, Row
<1>3. ASSUME NEW pair \in Fresh, row' = [row EXCEPT ![pair] = NewRow(pair, NoPage)]
      PROVE  PairsStay
  BY <1>0, <1>3 DEF Fresh, PairsStay
<1>4. ASSUME NEW c \in Calls, NEW pair \in Fresh, NEW page \in Pages \cup {NoPage},
             Exchanged(c, pair, page)
      PROVE  PairsStay
  BY <1>0, <1>4 DEF Exchanged, Fresh, PairsStay, Row
<1>5. ASSUME NEW old \in Pairs, Revoked(old) PROVE PairsStay
  BY <1>0, <1>5 DEF Revoked, PairsStay, Row
<1>6. CASE UNCHANGED vars
  BY <1>1, <1>6 DEF vars
<1>. QED
  BY <1>1, <1>2, <1>3, <1>4, <1>5, <1>6, RowSteps

\* A login without a live token gets none again, and no answer that is late brings
\* one of its tokens to the cookies.
EndedStaysEnded ==
  \A login \in Issued : LiveOf(login) = {} =>
    /\ LiveOf(login)' = {}
    /\ jar' # jar /\ jar' # NoPair => row[jar'].login # login

\* A token comes to the cookies only while it is live: it is the gift of an answer.
LEMMA CookiesWritten ==
  ASSUME SessionInv, Next, jar' # jar, jar' # NoPair
  PROVE  jar' \in Pairs /\ row[jar'].state = "live"
<1>1. PICK c \in Calls : Arrive(c)
  <2>1. CASE \E p \in Pages : UserStep(p)
    BY <2>1 DEF UserStep, AskIdentity, SubmitLogin, ClickLogout, Reload
  <2>2. CASE \E r \in Requests : RequestStep(r)
    BY <2>2 DEF RequestStep, Send, Answered, RetryAtOnce, WaitForRefresh, RejectedAgain
  <2>3. ASSUME NEW c \in Calls, Server(c) \/ Lose(c) PROVE FALSE
    BY <2>3 DEF Server, Lose, Hear
  <2>4. CASE \E pair \in Pairs : Expire(pair) /\ UNCHANGED <<jar, view, request, lost>>
    BY <2>4
  <2>. QED
    BY <2>1, <2>2, <2>3, <2>4 DEF Next
<1>2. jar' = CookiesOf(c) /\ call[c] \in Call
  BY <1>1 DEF Arrive, Hear, SessionInv, TypeOK
<1>3. call[c].cookies = "write" /\ jar' = call[c].gift
  BY <1>2 DEF CookiesOf, Call
<1>. QED
  BY <1>2, <1>3 DEF SessionInv, GiftInv, Call

LEMMA LoginEnds == ASSUME SessionInv, [Next]_vars PROVE EndedStaysEnded
<1>. SUFFICES ASSUME NEW login \in Issued, LiveOf(login) = {}
              PROVE  /\ LiveOf(login)' = {}
                     /\ jar' # jar /\ jar' # NoPair => row[jar'].login # login
  BY DEF EndedStaysEnded
<1>0. /\ row \in [Pairs -> Row] /\ login \in Pairs
      /\ \A p \in Pairs : ~(row[p].state = "live" /\ row[p].login = login)
  BY DEF SessionInv, TypeOK, Issued, LiveOf
<1>1. \A p \in Pairs : ~(row'[p].state = "live" /\ row'[p].login = login)
  <2>1. CASE row' = row
    BY <1>0, <2>1
  <2>2. ASSUME NEW pair \in Pairs, Expire(pair) PROVE <1>1!:
    BY <1>0, <2>2 DEF Expire, Row
  <2>3. ASSUME NEW pair \in Fresh, row' = [row EXCEPT ![pair] = NewRow(pair, NoPage)]
        PROVE  <1>1!:
    BY <1>0, <2>3 DEF Fresh, NewRow
  <2>4. ASSUME NEW c \in Calls, NEW pair \in Fresh, NEW page \in Pages \cup {NoPage},
               call[c].stage = "locked", Exchanged(c, pair, page)
        PROVE  <1>1!:
    <3>1. call[c].pair \in Pairs /\ row[call[c].pair].state = "live"
      BY <2>4 DEF SessionInv, LockInv
    <3>2. row[call[c].pair].login # login
      BY <1>0, <3>1
    <3>. QED
      BY <1>0, <2>4, <3>1, <3>2 DEF Exchanged, NewRow, Row, Fresh
  <2>5. ASSUME NEW old \in Pairs, Revoked(old) PROVE <1>1!:
    BY <1>0, <2>5 DEF Revoked, Row
  <2>6. CASE UNCHANGED vars
    BY <2>1, <2>6 DEF vars
  <2>. QED
    BY <2>1, <2>2, <2>3, <2>4, <2>5, <2>6, RowSteps
<1>2. jar' # jar /\ jar' # NoPair => row[jar'].login # login
  <2>1. CASE Next
    BY <1>0, <2>1, CookiesWritten
  <2>2. CASE UNCHANGED vars
    BY <2>2 DEF vars
  <2>. QED
    BY <2>1, <2>2
<1>. QED
  BY <1>1, <1>2 DEF LiveOf

\* A logout that revokes the live token of a login is final, whatever refreshes are
\* under way: a later answer brings the cookies no token of that login.  (A logout that
\* was sent the token a refresh has just exchanged revokes nothing.)
THEOREM LogoutIsFinal == Spec => [][EndedStaysEnded]_vars
<1>1. SessionInv /\ [Next]_vars => [EndedStaysEnded]_vars
  BY LoginEnds
<1>. QED
  BY <1>1, SessionInvariant, PTL DEF Spec

\* A pair never changes its login or the page that asked for it, a revoked token never
\* becomes live, an access token that has expired is never accepted again.
THEOREM PairsStand == Spec => [][PairsStay]_vars
<1>1. SessionInv /\ [Next]_vars => [PairsStay]_vars
  BY PairsStep
<1>. QED
  BY <1>1, SessionInvariant, PTL DEF Spec
=============================================================================
