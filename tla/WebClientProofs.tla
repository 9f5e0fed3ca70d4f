---------------------------- MODULE WebClientProofs ----------------------------
(***************************************************************************)
(* Proofs about WebClient over Sessions, for any rows, tabs, requests, calls *)
(* and faults.  A session has one usable token because whoever replaces or   *)
(* revokes one has blacklisted the jti it read, or marks the row; a queued   *)
(* request has an owner because isRefreshing never outlives the refresh; a   *)
(* refresh is refused only a token that another one has read.                *)
(* What concerns the server alone is proved of ServerSpec, which Spec        *)
(* implements.                                                             *)
(***************************************************************************)
EXTENDS WebClient, SequenceTheorems, TLAPS

-----------------------------------------------------------------------------
(* The invariant of the server.                                            *)

Gone == listed \cup unlisted

Revokes == {"revokeAll", "reuse"}

\* The tokens a call speaks of were minted.
Well(k) ==
  /\ k \in Call
  /\ k.jti \in {None} \cup Minted /\ k.seen \subseteq Minted /\ k.todo \subseteq Minted
  /\ k.at \in Running /\ k.op # "login" => k.jti \in Minted
  /\ k.op = "revokeOne" => k.jti \in Minted

\* What a call has blacklisted of what it read.
Duty(k, G) ==
  /\ k.at = "rotate" => k.op = "refresh" /\ k.jti \in G
  /\ k.at = "list" /\ k.op \in {"refresh", "revokeOne"} => k.todo = {k.jti}
  /\ k.at = "deactivate" /\ k.op = "revokeOne" => k.todo = {k.jti}
  /\ k.at = "list" /\ k.op \in Revokes => k.seen \ k.todo \subseteq G
  /\ k.at = "deactivate" /\ k.op \in Revokes => k.seen \subseteq G

\* A call that revoked a row alone has left it inactive, with the token it was given.
Shut(k) ==
  k.at = "list" /\ k.op = "revokeOne" =>
    /\ ~sessions[minted[k.jti]].active
    /\ minted[k.jti] \notin stale => sessions[minted[k.jti]].jti = k.jti

CallGood(k) == Well(k) /\ Duty(k, Gone) /\ Shut(k)

\* A row's token was minted for it, and a row nobody signed in to has none.
RowsGood ==
  /\ \A r \in Rows : sessions[r].jti # None =>
       sessions[r].jti \in Minted /\ minted[sessions[r].jti] = r
  /\ \A r \in Rows : sessions[r].active => sessions[r].jti # None
  /\ \A j \in Minted : sessions[minted[j]].jti # None

ServerInv ==
  /\ ServerTypeOK
  /\ \A c \in Calls : CallGood(calls[c])
  /\ RowsGood
  /\ OneLiveToken

ClosingBy(k, r) ==
  k.op = "revokeOne" /\ k.at \in {"list", "lost"} /\ k.todo # {} /\ minted[k.jti] = r

LEMMA ClosingIs == \A r : Closing(r) <=> \E c \in Calls : ClosingBy(calls[c], r)
BY DEF Closing, ClosingBy

LEMMA MintedTokens == ASSUME ServerTypeOK
                      PROVE  /\ Minted \subseteq Tokens /\ None \notin Minted
                             /\ Len(minted) \in Nat
                             /\ \A j \in Minted : minted[j] \in Rows
<1>1. minted \in Seq(Rows) /\ Len(minted) <= MaxTokens
      BY DEF ServerTypeOK
<1>2. Len(minted) \in Nat /\ \A j \in 1 .. Len(minted) : minted[j] \in Rows
      BY <1>1, LenProperties, ElementOfSeq
<1> QED BY <1>1, <1>2, SessionsAssumption DEF Minted, Tokens, None

LEMMA IdleGood ==
  ASSUME ServerTypeOK, NEW at \in Steps \ Running
  PROVE  CallGood([Idle EXCEPT !.at = at])
<1>1. [Idle EXCEPT !.at = at] \in Call
      BY DEF Idle, Call, Steps, Running, Ops
<1> QED BY <1>1 DEF CallGood, Well, Duty, Shut, Idle, Running

\* One call goes on as k, and no row is written.
LEMMA CallStep ==
  ASSUME ServerInv, NEW c \in Calls, NEW k, calls' = [calls EXCEPT ![c] = k],
         UNCHANGED <<sessions, minted, stale, expired>>, redis' \in BOOLEAN,
         faults' \in 0 .. MaxFaults, listed' \subseteq Minted, unlisted' \subseteq Minted,
         Gone \subseteq Gone', Well(k), Duty(k, Gone'), Shut(k),
         \A r \in Rows \ stale : ClosingBy(calls[c], r) =>
           ClosingBy(k, r) \/ sessions[r].jti \in Gone'
  PROVE  ServerInv'
<1>1. calls' \in [Calls -> Call] /\ \A x \in Calls : calls'[x] = IF x = c THEN k ELSE calls[x]
      BY DEF ServerInv, ServerTypeOK, Well
<1>2. Minted' = Minted
      BY DEF Minted
<1>3. ServerTypeOK'
      BY <1>1, <1>2 DEF ServerInv, ServerTypeOK
<1>4. \A x \in Calls : Well(calls'[x]) /\ Shut(calls'[x]) /\ Duty(calls'[x], Gone')
      BY <1>1 DEF ServerInv, CallGood, Duty
<1>5. \A x \in Calls : CallGood(calls[x])'
      BY <1>2, <1>4 DEF CallGood, Well, Shut
<1>6. RowsGood'
      BY <1>2 DEF ServerInv, RowsGood
<1>7. OneLiveToken'
  <2> SUFFICES ASSUME NEW r \in Rows \ stale
               PROVE  Live(r)' \subseteq IF sessions[r].active \/ Closing(r)'
                                           THEN {sessions[r].jti} ELSE {}
      BY DEF OneLiveToken
  <2>1. Live(r)' \subseteq Live(r) /\ \A j \in Live(r)' : j \notin Gone'
        BY <1>2 DEF Live, Gone
  <2>2. Live(r) \subseteq IF sessions[r].active \/ Closing(r) THEN {sessions[r].jti} ELSE {}
        BY DEF ServerInv, OneLiveToken
  <2>3. \A x \in Calls : ClosingBy(calls[x], r)' <=> ClosingBy(calls'[x], r)
        BY DEF ClosingBy
  <2>4. Closing(r)' <=> \E x \in Calls : ClosingBy(calls'[x], r)
        BY DEF Closing, ClosingBy
  <2>5. CASE Closing(r) /\ ~Closing(r)'
    <3>1. PICK x \in Calls : ClosingBy(calls[x], r)
          BY <2>5, ClosingIs
    <3>2. x = c /\ ~ClosingBy(k, r)
          BY <1>1, <2>4, <2>5, <3>1
    <3>3. sessions[r].jti \in Gone'
          BY <3>1, <3>2
    <3> QED BY <2>1, <2>2, <2>5, <3>3
  <2>6. CASE ~(Closing(r) /\ ~Closing(r)')
        BY <2>1, <2>2, <2>6
  <2> QED BY <2>5, <2>6
<1> QED BY <1>3, <1>5, <1>6, <1>7 DEF ServerInv

-----------------------------------------------------------------------------
(* The steps of a call that write no row.                                  *)

\* A call that is only given its task has done nothing yet.
LEMMA GiveStep ==
  ASSUME ServerInv, NEW c \in Calls, NEW op \in Ops, NEW j \in {None} \cup Minted,
         Give(c, op, j), op # "login" => j \in Minted,
         \A r \in Rows : ~ClosingBy(calls[c], r),
         UNCHANGED <<sessions, minted, expired, listed, redis, faults, stale, unlisted>>
  PROVE  ServerInv'
<1> DEFINE k == [Idle EXCEPT !.op = op, !.jti = j, !.at = "start"]
<1>1. Idle \in Call /\ Idle.seen = {} /\ Idle.todo = {}
      BY DEF Idle, Call, Ops, Steps
<1>2. j \in {None} \cup Tokens
      BY MintedTokens DEF ServerInv
<1>3. /\ k \in Call /\ k.op = op /\ k.at = "start" /\ k.jti = j /\ k.seen = {} /\ k.todo = {}
  <2> HIDE DEF Idle
  <2> QED BY <1>1, <1>2 DEF Call, Steps
<1>4. Well(k) /\ Duty(k, Gone) /\ Shut(k) /\ k.op = op
      BY <1>3 DEF Well, Duty, Shut, Running
<1>5. calls' = [calls EXCEPT ![c] = k]
      BY DEF Give
<1> HIDE DEF k
<1>6. Gone' = Gone /\ redis' \in BOOLEAN /\ faults' \in 0 .. MaxFaults
      /\ listed' \subseteq Minted /\ unlisted' \subseteq Minted
      BY DEF Gone, ServerInv, ServerTypeOK
<1> QED BY <1>4, <1>5, <1>6, CallStep

\* A call that goes to another step, or reads some tokens, writes nothing.
LEMMA MoveStep ==
  ASSUME ServerInv, NEW c \in Calls, NEW k, calls' = [calls EXCEPT ![c] = k], k \in Call,
         CallGood(k), k.op = calls[c].op, \A r \in Rows : ~ClosingBy(calls[c], r),
         UNCHANGED <<sessions, minted, expired, listed, redis, faults, stale, unlisted>>
  PROVE  ServerInv'
<1>1. Gone' = Gone /\ redis' \in BOOLEAN /\ faults' \in 0 .. MaxFaults
      /\ listed' \subseteq Minted /\ unlisted' \subseteq Minted
      BY DEF Gone, ServerInv, ServerTypeOK
<1> QED BY <1>1, CallStep DEF CallGood

LEMMA EndStep ==
  ASSUME ServerInv, NEW c \in Calls, NEW at \in Steps \ Running, End(c, at),
         \A r \in Rows : ~ClosingBy(calls[c], r),
         UNCHANGED <<sessions, minted, expired, listed, redis, faults, stale, unlisted>>
  PROVE  ServerInv'
<1> DEFINE k == [Idle EXCEPT !.at = at]
<1>1. calls' = [calls EXCEPT ![c] = k]
      BY DEF End
<1>2. CallGood(k)
      BY IdleGood DEF ServerInv
<1>3. k.op = "login"
      BY DEF Idle
<1> HIDE DEF k
<1>4. Gone' = Gone /\ redis' \in BOOLEAN /\ faults' \in 0 .. MaxFaults
      /\ listed' \subseteq Minted /\ unlisted' \subseteq Minted
      BY DEF Gone, ServerInv, ServerTypeOK
<1> QED BY <1>1, <1>2, <1>3, <1>4, CallStep DEF CallGood

\* A call that reads jtis and goes on to work on them.
LEMMA ReadStep ==
  ASSUME ServerInv, NEW c \in Calls, NEW at \in {"list", "rotate", "deactivate"},
         NEW jtis \in SUBSET Minted, calls[c].at = "start", calls[c].op # "login",
         Read(c, at, jtis),
         calls[c].op \in {"refresh", "revokeOne"} => jtis = {calls[c].jti},
         at = "rotate" => FALSE,
         at = "list" => calls[c].op # "revokeOne",
         at = "deactivate" => calls[c].op = "revokeOne" \/ jtis = {},
         UNCHANGED <<sessions, minted, expired, listed, redis, faults, stale, unlisted>>
  PROVE  ServerInv'
<1> DEFINE q == calls[c]
           k == [q EXCEPT !.at = at, !.seen = jtis, !.todo = jtis]
<1>1. q \in Call /\ Well(q)
      BY DEF ServerInv, CallGood, Well
<1>2. calls' = [calls EXCEPT ![c] = k]
  <2>1. c \in DOMAIN calls
        BY DEF ServerInv, ServerTypeOK
  <2> QED BY <1>1, <2>1 DEF Read, Call
<1>3. jtis \subseteq Tokens /\ at \in Steps
      BY MintedTokens DEF ServerInv, Steps
<1>4. k \in Call /\ k.op = q.op /\ k.at = at /\ k.jti = q.jti /\ k.seen = jtis /\ k.todo = jtis
      BY <1>1, <1>3 DEF Call
<1> HIDE DEF k
<1>5. Well(k)
      BY <1>1, <1>4 DEF Well, Running
<1>6. Duty(k, Gone)
      BY <1>4 DEF Duty, Revokes
<1>7. Shut(k)
      BY <1>4 DEF Shut
<1>8. \A r \in Rows : ~ClosingBy(q, r)
      BY DEF ClosingBy
<1> QED BY <1>2, <1>4, <1>5, <1>6, <1>7, <1>8, MoveStep DEF CallGood

LEMMA StartClosesNothing ==
  ASSUME NEW c \in Calls, calls[c].at \notin {"list", "lost"}
  PROVE  \A r \in Rows : ~ClosingBy(calls[c], r)
BY DEF ClosingBy

LEMMA FindByJtiStep == ASSUME ServerInv, NEW c \in Calls, FindByJti(c) PROVE ServerInv'
<1> DEFINE q == calls[c]
           j == q.jti
<1>1. q.op = "refresh" /\ q.at = "start" /\ Well(q) /\ j \in Minted
      /\ UNCHANGED <<sessions, minted, expired, listed, redis, faults, stale, unlisted>>
      BY DEF FindByJti, ServerInv, CallGood, Well, Running
<1>2. \A r \in Rows : ~ClosingBy(q, r)
      BY <1>1, StartClosesNothing
<1>3. CASE Goto(c, "refused")
  <2> DEFINE k == [q EXCEPT !.at = "refused"]
  <2>1. calls' = [calls EXCEPT ![c] = k]
        BY <1>1, <1>3 DEF Goto, Well, Call, ServerInv, ServerTypeOK
  <2>2. k \in Call /\ k.op = q.op /\ k.at = "refused" /\ k.jti = j /\ k.seen = q.seen /\ k.todo = q.todo
        BY <1>1 DEF Well, Call, Steps
  <2> HIDE DEF k
  <2>3. CallGood(k)
        BY <1>1, <2>2 DEF CallGood, Well, Duty, Shut, Running
  <2> QED BY <1>1, <1>2, <2>1, <2>2, <2>3, MoveStep
<1>4. CASE Give(c, "reuse", j)
      BY <1>1, <1>2, <1>4, GiveStep DEF Ops
<1>5. CASE Read(c, "list", {j})
      BY <1>1, <1>5, ReadStep
<1> QED BY <1>3, <1>4, <1>5 DEF FindByJti

LEMMA FindOneStep == ASSUME ServerInv, NEW c \in Calls, FindOne(c) PROVE ServerInv'
<1> DEFINE q == calls[c]
           j == q.jti
<1>1. q.op = "revokeOne" /\ q.at = "start" /\ Well(q) /\ j \in Minted
      /\ UNCHANGED <<sessions, minted, expired, listed, redis, faults, stale, unlisted>>
      BY DEF FindOne, ServerInv, CallGood, Well, Running
<1>2. \A r \in Rows : ~ClosingBy(q, r)
      BY <1>1, StartClosesNothing
<1>3. CASE Read(c, "deactivate", {j})
      BY <1>1, <1>3, ReadStep
<1>4. CASE End(c, "done")
      BY <1>1, <1>2, <1>4, EndStep DEF Steps, Running
<1> QED BY <1>3, <1>4 DEF FindOne

LEMMA FindActiveStep == ASSUME ServerInv, NEW c \in Calls, FindActive(c) PROVE ServerInv'
<1>1. calls[c].op \in Revokes /\ calls[c].at = "start"
      /\ UNCHANGED <<sessions, minted, expired, listed, redis, faults, stale, unlisted>>
      BY DEF FindActive, Revokes
<1>2. ActiveJtis \in SUBSET Minted
      BY DEF ActiveJtis, ServerInv, RowsGood
<1> DEFINE at == IF ActiveJtis = {} THEN "deactivate" ELSE "list"
<1>3. at \in {"list", "rotate", "deactivate"} /\ at # "rotate"
      /\ (at = "deactivate" => ActiveJtis = {})
      OBVIOUS
<1>4. Read(c, at, ActiveJtis)
      BY DEF FindActive
<1> HIDE DEF at
<1> QED BY <1>1, <1>2, <1>3, <1>4, ReadStep DEF Revokes

LEMMA LogoutStep == ASSUME ServerInv, NEW c \in Calls, Logout(c) PROVE ServerInv'
<1> DEFINE q == calls[c]
           j == q.jti
<1>1. q.op = "logout" /\ q.at = "start" /\ Well(q) /\ j \in Minted
      /\ UNCHANGED <<sessions, minted, expired, listed, redis, faults, stale, unlisted>>
      BY DEF Logout, ServerInv, CallGood, Well, Running
<1>2. \A r \in Rows : ~ClosingBy(q, r)
      BY <1>1, StartClosesNothing
<1>3. CASE Read(c, "list", {j})
      BY <1>1, <1>3, ReadStep
<1>4. CASE End(c, "refused")
      BY <1>1, <1>2, <1>4, EndStep DEF Steps, Running
<1> QED BY <1>3, <1>4 DEF Logout

\* One more jti is blacklisted, or missed because Redis is away.
LEMMA BlacklistStep == ASSUME ServerInv, NEW c \in Calls, Blacklist(c) PROVE ServerInv'
<1>1. PICK j \in calls[c].todo :
        /\ listed' = IF redis THEN listed \cup {j} ELSE listed
        /\ unlisted' = IF redis THEN unlisted ELSE unlisted \cup {j}
        /\ IF calls[c].todo = {j} THEN AfterList(c) ELSE calls' = [calls EXCEPT ![c].todo = @ \ {j}]
      BY DEF Blacklist
<1> DEFINE q == calls[c]
<1>2. /\ q \in Call /\ Well(q) /\ Duty(q, Gone) /\ Shut(q) /\ q.at = "list" /\ j \in Minted
      /\ UNCHANGED <<sessions, minted, expired, redis, faults, stale>>
      BY DEF Blacklist, ServerInv, CallGood, Well
<1>3. /\ listed' \subseteq Minted /\ unlisted' \subseteq Minted /\ Gone' = Gone \cup {j}
      /\ redis' \in BOOLEAN /\ faults' \in 0 .. MaxFaults
      BY <1>1, <1>2 DEF Gone, ServerInv, ServerTypeOK
<1>4. c \in DOMAIN calls
      BY DEF ServerInv, ServerTypeOK
<1>6. CASE q.todo = {j} /\ q.op = "refresh"
  <2> DEFINE k == [q EXCEPT !.at = "rotate", !.todo = {}]
  <2>1. calls' = [calls EXCEPT ![c] = k]
        BY <1>1, <1>2, <1>4, <1>6 DEF AfterList, Call
  <2>2. k \in Call /\ k.op = q.op /\ k.at = "rotate" /\ k.jti = q.jti /\ k.seen = q.seen /\ k.todo = {}
        BY <1>2 DEF Call, Steps
  <2> HIDE DEF k
  <2>3. q.jti = j
        BY <1>2, <1>6 DEF Duty
  <2>4. Well(k) /\ Duty(k, Gone') /\ Shut(k)
        BY <1>2, <1>3, <1>6, <2>2, <2>3 DEF Well, Duty, Shut, Running
  <2>5. \A r \in Rows : ~ClosingBy(q, r)
        BY <1>6 DEF ClosingBy
  <2> QED BY <1>2, <1>3, <1>6, <2>1, <2>2, <2>4, <2>5, CallStep
<1>7. CASE q.todo = {j} /\ q.op \in Revokes
  <2> DEFINE k == [q EXCEPT !.at = "deactivate", !.todo = {}]
  <2>1. calls' = [calls EXCEPT ![c] = k]
        BY <1>1, <1>2, <1>4, <1>7 DEF AfterList, Call, Revokes
  <2>2. k \in Call /\ k.op = q.op /\ k.at = "deactivate" /\ k.jti = q.jti /\ k.seen = q.seen /\ k.todo = {}
        BY <1>2 DEF Call, Steps
  <2> HIDE DEF k
  <2>3. q.seen \subseteq Gone'
        BY <1>2, <1>3, <1>7 DEF Duty
  <2>4. Well(k) /\ Duty(k, Gone') /\ Shut(k)
        BY <1>2, <1>3, <1>7, <2>2, <2>3 DEF Well, Duty, Shut, Running, Revokes
  <2>5. \A r \in Rows : ~ClosingBy(q, r)
        BY <1>7 DEF ClosingBy, Revokes
  <2> QED BY <1>2, <1>3, <1>7, <2>1, <2>2, <2>4, <2>5, CallStep
<1>8. CASE q.todo = {j} /\ q.op \notin Revokes /\ q.op # "refresh"
  <2> DEFINE k == [Idle EXCEPT !.at = "done"]
  <2>1. calls' = [calls EXCEPT ![c] = k]
        BY <1>1, <1>8 DEF AfterList, Revokes, End
  <2>2. CallGood(k) /\ k.at = "done" /\ k.op = "login"
    <3>1. "done" \in Steps \ Running
          BY DEF Steps, Running
    <3> QED BY <3>1, IdleGood DEF ServerInv, Idle
  <2> HIDE DEF k
  <2>3. Well(k) /\ Duty(k, Gone') /\ Shut(k)
        BY <2>2 DEF CallGood, Duty
  <2>4. \A r \in Rows \ stale : ClosingBy(q, r) => sessions[r].jti \in Gone'
    <3> SUFFICES ASSUME NEW r \in Rows \ stale, ClosingBy(q, r) PROVE sessions[r].jti \in Gone'
        OBVIOUS
    <3>1. q.op = "revokeOne" /\ minted[q.jti] = r
          BY DEF ClosingBy
    <3>2. q.jti = j /\ sessions[r].jti = q.jti
          BY <1>2, <1>8, <3>1 DEF Duty, Shut
    <3> QED BY <1>3, <3>2
  <2> QED BY <1>2, <1>3, <2>1, <2>2, <2>3, <2>4, CallStep
<1>9. CASE q.todo # {j}
  <2> DEFINE k == [q EXCEPT !.todo = q.todo \ {j}]
  <2>1. calls' = [calls EXCEPT ![c] = k]
        BY <1>1, <1>2, <1>4, <1>9 DEF Call
  <2>2. k \in Call /\ k.op = q.op /\ k.at = "list" /\ k.jti = q.jti /\ k.seen = q.seen
        /\ k.todo = q.todo \ {j}
        BY <1>2 DEF Call, Steps
  <2> HIDE DEF k
  <2>3. q.op \notin {"refresh", "revokeOne"}
        BY <1>2, <1>9 DEF Duty
  <2>4. Well(k)
        BY <1>2, <2>2 DEF Well
  <2>5. Duty(k, Gone')
        BY <1>2, <1>3, <2>2, <2>3 DEF Duty
  <2>6. Shut(k)
        BY <2>2, <2>3 DEF Shut
  <2>7. \A r \in Rows : ~ClosingBy(q, r)
        BY <2>3 DEF ClosingBy
  <2> QED BY <1>2, <1>3, <2>1, <2>2, <2>4, <2>5, <2>6, <2>7, CallStep
<1> QED BY <1>6, <1>7, <1>8, <1>9

\* A call is cut off: a revocation that had started stays half done.
LEMMA LoseStep == ASSUME ServerInv, NEW c \in Calls, Lose(c) PROVE ServerInv'
<1> DEFINE q == calls[c]
           k == [q EXCEPT !.at = "lost"]
<1>1. q \in Call /\ Well(q) /\ q.at \in Running \cup {"done"}
      /\ UNCHANGED <<sessions, minted, expired, listed, redis, stale, unlisted>>
      BY DEF Lose, ServerInv, CallGood, Well
<1>2. calls' = [calls EXCEPT ![c] = k]
  <2>1. c \in DOMAIN calls
        BY DEF ServerInv, ServerTypeOK
  <2> QED BY <1>1, <2>1 DEF Lose, Goto, Call
<1>3. k \in Call /\ k.op = q.op /\ k.at = "lost" /\ k.jti = q.jti /\ k.seen = q.seen /\ k.todo = q.todo
      BY <1>1 DEF Call, Steps
<1> HIDE DEF k
<1>4. Well(k) /\ Duty(k, Gone) /\ Shut(k)
      BY <1>1, <1>3 DEF Well, Duty, Shut, Running
<1>5. \A r : ClosingBy(q, r) => ClosingBy(k, r)
      BY <1>3 DEF ClosingBy
<1>6. Gone' = Gone /\ redis' \in BOOLEAN /\ listed' \subseteq Minted /\ unlisted' \subseteq Minted
      BY <1>1 DEF Gone, ServerInv, ServerTypeOK
<1>7. faults' \in 0 .. MaxFaults
      BY SessionsAssumption DEF Lose, Fault, ServerInv, ServerTypeOK
<1> QED BY <1>1, <1>2, <1>4, <1>5, <1>6, <1>7, CallStep

LEMMA ReceiveStep ==
  ASSUME ServerInv, NEW c \in Calls, Receive(c) PROVE ServerInv'
<1>1. PICK op \in Ops, j \in {None} \cup Minted : Give(c, op, j) /\ (op # "login" => j \in Minted)
      BY DEF Receive, Ops
<1>2. calls[c].at = "idle"
      /\ UNCHANGED <<sessions, minted, expired, listed, redis, faults, stale, unlisted>>
      BY DEF Receive
<1>3. \A r \in Rows : ~ClosingBy(calls[c], r)
      BY <1>2, StartClosesNothing
<1> QED BY <1>1, <1>2, <1>3, GiveStep

\* Time, and Redis.
LEMMA SurroundingsStep == ASSUME ServerInv, Surroundings PROVE ServerInv'
<1>1. /\ UNCHANGED <<sessions, minted, listed, calls, stale, unlisted>>
      /\ expired \subseteq expired' /\ expired' \subseteq Minted
      /\ redis' \in BOOLEAN /\ faults' \in 0 .. MaxFaults
  <2>1. ServerTypeOK
        BY DEF ServerInv
  <2>2. CASE RedisAway
    <3>1. faults' \in 0 .. MaxFaults
          BY <2>1, <2>2, SessionsAssumption DEF RedisAway, Fault, ServerTypeOK
    <3> QED BY <2>1, <2>2, <3>1 DEF RedisAway, ServerTypeOK
  <2>3. CASE RedisBack
        BY <2>1, <2>3 DEF RedisBack, ServerTypeOK
  <2>4. CASE \E j \in Tokens : Expire(j)
        BY <2>1, <2>4 DEF Expire, ServerTypeOK
  <2> QED BY <2>2, <2>3, <2>4 DEF Surroundings
<1>2. ServerTypeOK'
      BY <1>1 DEF ServerInv, ServerTypeOK, Minted
<1>3. (\A c \in Calls : CallGood(calls[c]))' /\ RowsGood'
      BY <1>1 DEF ServerInv, CallGood, Well, Duty, Shut, Gone, RowsGood, Minted
<1>4. OneLiveToken'
  <2>1. \A r : Live(r)' \subseteq Live(r)
        BY <1>1 DEF Live, Minted
  <2>2. \A r : Closing(r)' <=> Closing(r)
        BY <1>1 DEF Closing
  <2> QED BY <1>1, <2>1, <2>2 DEF ServerInv, OneLiveToken
<1> QED BY <1>2, <1>3, <1>4 DEF ServerInv

-----------------------------------------------------------------------------
(* The steps that write a row.                                             *)

LEMMA Appended ==
  ASSUME ServerInv, CanMint, NEW r \in Rows, minted' = Append(minted, r)
  PROVE  LET n == Len(minted) + 1
         IN /\ n \in Tokens /\ n \notin Minted /\ n # None
            /\ Minted' = Minted \cup {n}
            /\ minted' \in Seq(Rows) /\ Len(minted') <= MaxTokens
            /\ \A j \in Minted : minted'[j] = minted[j]
            /\ minted'[n] = r
<1> DEFINE n == Len(minted) + 1
<1>1. minted \in Seq(Rows) /\ Len(minted) \in Nat /\ Len(minted) < MaxTokens
      BY LenProperties DEF ServerInv, ServerTypeOK, CanMint
<1>2. minted' \in Seq(Rows) /\ Len(minted') = n
      /\ (\A i \in 1 .. Len(minted) : minted'[i] = minted[i]) /\ minted'[n] = r
      BY <1>1, AppendProperties
<1> QED BY <1>1, <1>2, SessionsAssumption DEF Minted, Tokens, None

\* A row gets the next token.
LEMMA MintStep ==
  ASSUME ServerInv, NEW c \in Calls, NEW r \in Rows, CanMint, minted' = Append(minted, r),
         NEW a \in BOOLEAN,
         sessions' = [sessions EXCEPT ![r] = [jti |-> Len(minted) + 1, active |-> a]],
         calls' = [calls EXCEPT ![c].at = "done", ![c].jti = Len(minted) + 1],
         \A x \in Rows : ~ClosingBy(calls[c], x),
         stale \subseteq stale', stale' \subseteq Rows,
         \A j \in Minted : minted[j] = r => a = sessions[r].active,
         r \notin stale' => a /\ Live(r) = {},
         UNCHANGED <<expired, listed, redis, faults, unlisted>>
  PROVE  ServerInv'
<1>1. PICK n : n = Len(minted) + 1
      OBVIOUS
<1>2. /\ n \in Tokens /\ n \notin Minted /\ n # None /\ Minted' = Minted \cup {n}
      /\ minted' \in Seq(Rows) /\ Len(minted') <= MaxTokens
      /\ (\A j \in Minted : minted'[j] = minted[j]) /\ minted'[n] = r
      BY <1>1, Appended
<1>3. sessions' = [sessions EXCEPT ![r] = [jti |-> n, active |-> a]]
      BY <1>1
<1>4. /\ sessions' \in [Rows -> Session]
      /\ sessions'[r].jti = n /\ sessions'[r].active = a
      /\ \A x \in Rows \ {r} : sessions'[x] = sessions[x]
      BY <1>2, <1>3 DEF ServerInv, ServerTypeOK, Session
<1>5. calls[c] \in Call /\ Well(calls[c])
      BY DEF ServerInv, CallGood, Well
<1> PICK k : k = [calls[c] EXCEPT !.at = "done", !.jti = n]
    OBVIOUS
<1>6. /\ k \in Call /\ k.op = calls[c].op /\ k.at = "done" /\ k.jti = n
      /\ k.seen = calls[c].seen /\ k.todo = calls[c].todo
      BY <1>2, <1>5 DEF Call, Steps
<1>7. calls' = [calls EXCEPT ![c] = k]
      BY <1>1, <1>5 DEF ServerInv, ServerTypeOK, Call
<1>8. calls' \in [Calls -> Call] /\ \A x \in Calls : calls'[x] = IF x = c THEN k ELSE calls[x]
      BY <1>6, <1>7 DEF ServerInv, ServerTypeOK
<1>9. Gone' = Gone
      BY DEF Gone
<1>10. ServerTypeOK'
      BY <1>2, <1>4, <1>8 DEF ServerInv, ServerTypeOK
<1>11. ASSUME NEW x \in Calls PROVE CallGood(calls[x])'
  <2> PICK z : z = calls'[x]
      OBVIOUS
  <2>1. CASE x = c
    <3>1. z = k
          BY <1>8, <2>1
    <3>2. Well(z)'
          BY <1>2, <1>5, <1>6, <3>1 DEF Well, Running
    <3>3. Duty(z, Gone) /\ Duty(z, Gone') /\ Shut(z)'
          BY <1>6, <3>1 DEF Duty, Shut
    <3> QED BY <1>9, <3>2, <3>3 DEF CallGood, Well, Duty, Shut
  <2>2. CASE x # c
    <3>1. z = calls[x] /\ CallGood(z)
          BY <1>8, <2>2 DEF ServerInv
    <3>2. Well(z)'
          BY <1>2, <3>1 DEF CallGood, Well
    <3>3. Duty(z, Gone')
          BY <1>9, <3>1 DEF CallGood
    <3>4. Shut(z)'
      <4> SUFFICES ASSUME z.at = "list", z.op = "revokeOne"
                   PROVE  /\ ~sessions'[minted'[z.jti]].active
                          /\ minted'[z.jti] \notin stale' => sessions'[minted'[z.jti]].jti = z.jti
          BY DEF Shut
      <4>1. z.jti \in Minted /\ minted'[z.jti] = minted[z.jti] /\ minted[z.jti] \in Rows
            BY <1>2, <3>1, MintedTokens DEF CallGood, Well, ServerInv
      <4>2. ~sessions[minted[z.jti]].active
            /\ (minted[z.jti] \notin stale => sessions[minted[z.jti]].jti = z.jti)
            BY <3>1 DEF CallGood, Shut
      <4>3. CASE minted[z.jti] # r
            BY <1>4, <4>1, <4>2, <4>3
      <4>4. CASE minted[z.jti] = r
            BY <1>4, <4>1, <4>2, <4>4
      <4> QED BY <4>3, <4>4
    <3> QED BY <1>9, <3>2, <3>3, <3>4 DEF CallGood, Well, Duty, Shut
  <2> QED BY <2>1, <2>2
<1>12. RowsGood'
  <2>1. \A x \in Rows : sessions'[x].jti # None =>
          sessions'[x].jti \in Minted' /\ minted'[sessions'[x].jti] = x
        BY <1>2, <1>4, ZenonT(60) DEF ServerInv, RowsGood
  <2>2. \A x \in Rows : sessions'[x].active => sessions'[x].jti # None
        BY <1>2, <1>4 DEF ServerInv, RowsGood
  <2>3. ASSUME NEW j \in Minted' PROVE sessions'[minted'[j]].jti # None
    <3>1. CASE j = n
          BY <1>2, <1>4, <3>1
    <3>2. CASE j # n
      <4>1. j \in Minted /\ minted'[j] = minted[j] /\ minted[j] \in Rows
            BY <1>2, <3>2, MintedTokens DEF ServerInv
      <4>2. sessions[minted[j]].jti # None
            BY <4>1 DEF ServerInv, RowsGood
      <4> QED BY <1>2, <1>4, <4>1, <4>2
    <3> QED BY <3>1, <3>2
  <2> QED BY <2>1, <2>2, <2>3 DEF RowsGood
<1>13. OneLiveToken'
  <2>1. ASSUME NEW x \in Rows \ stale', x # r
        PROVE  Live(x)' \subseteq IF sessions'[x].active \/ Closing(x)' THEN {sessions'[x].jti} ELSE {}
    <3>1. Live(x)' = Live(x)
          BY <1>2, <2>1 DEF Live
    <3>2. \A y \in Calls : ClosingBy(calls[y], x) => ClosingBy(calls[y], x)'
      <4> SUFFICES ASSUME NEW y \in Calls, ClosingBy(calls[y], x) PROVE ClosingBy(calls[y], x)'
          OBVIOUS
      <4>1. y # c /\ calls'[y] = calls[y]
            BY <1>8
      <4>2. calls[y].jti \in Minted
            BY DEF ServerInv, CallGood, Well, ClosingBy
      <4> QED BY <1>2, <4>1, <4>2 DEF ClosingBy
    <3>3. Closing(x) => Closing(x)'
          BY <3>2 DEF Closing, ClosingBy
    <3>4. Live(x) \subseteq IF sessions[x].active \/ Closing(x) THEN {sessions[x].jti} ELSE {}
          BY <2>1 DEF ServerInv, OneLiveToken
    <3> QED BY <1>4, <2>1, <3>1, <3>3, <3>4
  <2>2. ASSUME r \notin stale' PROVE Live(r)' \subseteq {sessions'[r].jti} /\ sessions'[r].active
        BY <1>2, <1>4, <2>2 DEF Live
  <2> QED BY <2>1, <2>2 DEF OneLiveToken
<1> QED BY <1>10, <1>11, <1>12, <1>13 DEF ServerInv

LEMMA LoginStep == ASSUME ServerInv, NEW c \in Calls, Login(c) PROVE ServerInv'
<1>1. PICK r \in Rows : /\ sessions[r] = NoSession
                        /\ sessions' = [sessions EXCEPT ![r] = [jti |-> Len(minted) + 1, active |-> TRUE]]
                        /\ minted' = Append(minted, r)
      BY DEF Login
<1>2. /\ CanMint /\ calls' = [calls EXCEPT ![c].at = "done", ![c].jti = Len(minted) + 1]
      /\ calls[c].at = "start"
      /\ UNCHANGED <<expired, listed, redis, faults, stale, unlisted>>
      BY DEF Login
<1>3. \A x \in Rows : ~ClosingBy(calls[c], x)
      BY <1>2, StartClosesNothing
<1>4. \A j \in Minted : minted[j] # r
      BY <1>1 DEF ServerInv, RowsGood, NoSession
<1>5. Live(r) = {} /\ stale' \subseteq Rows
      BY <1>2, <1>4 DEF Live, ServerInv, ServerTypeOK
<1> QED BY <1>1, <1>2, <1>3, <1>4, <1>5, MintStep

LEMMA RotateStep == ASSUME ServerInv, NEW c \in Calls, Rotate(c) PROVE ServerInv'
<1> DEFINE q == calls[c]
           r == minted[q.jti]
           a == sessions[r].active
<1>1. /\ q.at = "rotate" /\ q.op = "refresh" /\ q.jti \in Minted /\ q.jti \in Gone
      BY DEF Rotate, ServerInv, CallGood, Well, Duty, Running
<1>2. r \in Rows /\ sessions[r] \in Session
      BY <1>1, MintedTokens DEF ServerInv, ServerTypeOK
<1>3. a \in BOOLEAN
      BY <1>2 DEF Session
<1>4. sessions' = [sessions EXCEPT ![r] = [jti |-> Len(minted) + 1, active |-> a]]
  <2>1. [sessions[r] EXCEPT !.jti = Len(minted) + 1] = [jti |-> Len(minted) + 1, active |-> a]
        BY <1>2 DEF Session
  <2>2. sessions' = [sessions EXCEPT ![r] = [sessions[r] EXCEPT !.jti = Len(minted) + 1]]
        BY <1>2 DEF Rotate, ServerInv, ServerTypeOK
  <2> QED BY <2>1, <2>2
<1>5. \A x \in Rows : ~ClosingBy(q, x)
      BY <1>1, StartClosesNothing
<1>6. /\ CanMint /\ minted' = Append(minted, r)
      /\ calls' = [calls EXCEPT ![c].at = "done", ![c].jti = Len(minted) + 1]
      /\ UNCHANGED <<expired, listed, redis, faults, unlisted>>
      BY DEF Rotate
<1>7. stale \subseteq stale' /\ stale' \subseteq Rows
      BY <1>2 DEF Rotate, ServerInv, ServerTypeOK
<1>8. r \notin stale' => a /\ Live(r) = {}
  <2> SUFFICES ASSUME r \notin stale' PROVE a /\ Live(r) = {}
      OBVIOUS
  <2>1. sessions[r] = [jti |-> q.jti, active |-> TRUE] /\ r \notin stale
        BY DEF Rotate
  <2>2. sessions[r].jti = q.jti /\ sessions[r].active
        BY <2>1
  <2>3. Live(r) \subseteq {q.jti}
        BY <1>2, <2>1, <2>2 DEF ServerInv, OneLiveToken
  <2>4. q.jti \notin Live(r)
        BY <1>1 DEF Live, Gone
  <2> QED BY <2>2, <2>3, <2>4
<1> HIDE DEF a, r
<1> QED BY <1>2, <1>3, <1>4, <1>5, <1>6, <1>7, <1>8, MintStep DEF a

\* Rows are closed, their tokens stay theirs.
LEMMA CloseStep ==
  ASSUME ServerInv, NEW c \in Calls, NEW k, calls' = [calls EXCEPT ![c] = k],
         sessions' \in [Rows -> Session],
         \A x \in Rows : /\ sessions'[x].jti = sessions[x].jti
                         /\ sessions'[x].active => sessions[x].active,
         UNCHANGED <<minted, expired, listed, redis, faults, unlisted>>,
         stale \subseteq stale', stale' \subseteq Rows,
         Well(k), Duty(k, Gone), Shut(k)',
         \A x \in Rows : ~ClosingBy(calls[c], x),
         \A x \in Rows \ stale' : sessions[x].active /\ ~sessions'[x].active =>
           Live(x) = {} \/ ClosingBy(k, x)
  PROVE  ServerInv'
<1>1. Gone' = Gone /\ Minted' = Minted
      BY DEF Gone, Minted
<1>2. calls' \in [Calls -> Call] /\ \A x \in Calls : calls'[x] = IF x = c THEN k ELSE calls[x]
      BY DEF ServerInv, ServerTypeOK, Well
<1>3. ServerTypeOK'
      BY <1>1, <1>2 DEF ServerInv, ServerTypeOK
<1>4. ASSUME NEW x \in Calls PROVE CallGood(calls[x])'
  <2> PICK z : z = calls'[x]
      OBVIOUS
  <2>1. Well(z) /\ Duty(z, Gone)
        BY <1>2 DEF ServerInv, CallGood
  <2>2. Shut(z)'
    <3>1. CASE x = c
          BY <1>2, <3>1
    <3>2. CASE x # c
      <4>1. z = calls[x] /\ CallGood(z)
            BY <1>2, <3>2 DEF ServerInv
      <4>2. z.at = "list" /\ z.op = "revokeOne" => minted[z.jti] \in Rows
            BY <2>1, MintedTokens DEF Well, ServerInv
      <4> QED BY <4>1, <4>2 DEF CallGood, Shut
    <3> QED BY <3>1, <3>2
  <2> QED BY <1>1, <2>1, <2>2 DEF CallGood, Well, Duty, Shut
<1>5. RowsGood'
  <2>1. \A j \in Minted : minted[j] \in Rows
        BY MintedTokens DEF ServerInv
  <2> QED BY <1>1, <2>1 DEF ServerInv, RowsGood
<1>6. OneLiveToken'
  <2> SUFFICES ASSUME NEW x \in Rows \ stale'
               PROVE  Live(x)' \subseteq IF sessions'[x].active \/ Closing(x)'
                                           THEN {sessions[x].jti} ELSE {}
      BY DEF OneLiveToken
  <2>1. Live(x)' = Live(x)
        BY <1>1 DEF Live
  <2>2. Live(x) \subseteq IF sessions[x].active \/ Closing(x) THEN {sessions[x].jti} ELSE {}
        BY DEF ServerInv, OneLiveToken
  <2>3. Closing(x)' <=> \E y \in Calls : ClosingBy(calls'[y], x)
        BY DEF Closing, ClosingBy
  <2>4. Closing(x) => Closing(x)'
        BY <1>2, <2>3, ClosingIs
  <2>5. ClosingBy(k, x) => Closing(x)'
        BY <1>2, <2>3
  <2> QED BY <2>1, <2>2, <2>4, <2>5
<1> QED BY <1>3, <1>4, <1>5, <1>6 DEF ServerInv

LEMMA DeactivateOneStep == ASSUME ServerInv, NEW c \in Calls, DeactivateOne(c) PROVE ServerInv'
<1> PICK q, r, k : q = calls[c] /\ r = minted[q.jti] /\ k = [q EXCEPT !.at = "list"]
    OBVIOUS
<1>1. /\ q \in Call /\ Well(q) /\ Duty(q, Gone) /\ q.at = "deactivate" /\ q.op = "revokeOne"
      /\ q.jti \in Minted /\ q.todo = {q.jti}
      BY DEF DeactivateOne, ServerInv, CallGood, Well, Duty
<1>2. r \in Rows /\ sessions[r] \in Session
      BY <1>1, MintedTokens DEF ServerInv, ServerTypeOK
<1>3. calls' = [calls EXCEPT ![c] = k]
  <2>1. c \in DOMAIN calls
        BY DEF ServerInv, ServerTypeOK
  <2> QED BY <1>1, <2>1 DEF DeactivateOne, Goto, Call
<1>4. k \in Call /\ k.op = q.op /\ k.at = "list" /\ k.jti = q.jti /\ k.seen = q.seen /\ k.todo = q.todo
      BY <1>1 DEF Call, Steps
<1>5. /\ sessions' \in [Rows -> Session] /\ ~sessions'[r].active
      /\ \A x \in Rows : /\ sessions'[x].jti = sessions[x].jti
                         /\ sessions'[x].active => sessions[x].active
                         /\ x # r => sessions'[x] = sessions[x]
  <2>1. sessions' = [sessions EXCEPT ![r] = [sessions[r] EXCEPT !.active = FALSE]]
        BY <1>2 DEF DeactivateOne, ServerInv, ServerTypeOK
  <2>2. [sessions[r] EXCEPT !.active = FALSE] \in Session
        /\ [sessions[r] EXCEPT !.active = FALSE].jti = sessions[r].jti
        /\ ~[sessions[r] EXCEPT !.active = FALSE].active
        BY <1>2 DEF Session
  <2> QED BY <1>2, <2>1, <2>2 DEF ServerInv, ServerTypeOK
<1>6. /\ UNCHANGED <<minted, expired, listed, redis, faults, unlisted>>
      /\ stale' = IF sessions[r].jti = q.jti THEN stale ELSE stale \cup {r}
      BY DEF DeactivateOne
<1>7. stale \subseteq stale' /\ stale' \subseteq Rows
      BY <1>2, <1>6 DEF ServerInv, ServerTypeOK
<1>8. Well(k) /\ Duty(k, Gone)
      BY <1>1, <1>4 DEF Well, Duty, Running, Revokes
<1>9. Shut(k)'
      BY <1>2, <1>4, <1>5, <1>6 DEF Shut
<1>10. ClosingBy(k, r)
      BY <1>1, <1>4 DEF ClosingBy
<1>11. \A x \in Rows : ~ClosingBy(calls[c], x)
      BY <1>1, StartClosesNothing
<1>12. \A x \in Rows \ stale' : sessions[x].active /\ ~sessions'[x].active =>
         Live(x) = {} \/ ClosingBy(k, x)
      BY <1>5, <1>10
<1> QED BY <1>3, <1>5, <1>6, <1>7, <1>8, <1>9, <1>11, <1>12, CloseStep

LEMMA DeactivateAllStep == ASSUME ServerInv, NEW c \in Calls, DeactivateAll(c) PROVE ServerInv'
<1> PICK q : q = calls[c]
    OBVIOUS
<1>1. q \in Call /\ Well(q) /\ q.at = "deactivate" /\ q.op \in Revokes /\ q.seen \subseteq Gone
      BY DEF DeactivateAll, ServerInv, CallGood, Well, Duty, Revokes
<1>2. PICK k : /\ calls' = [calls EXCEPT ![c] = k] /\ CallGood(k) /\ k.at \in {"refused", "done"}
               /\ k.op \in {"login", "reuse"}
  <2>1. CASE q.op = "reuse"
    <3> DEFINE k == [q EXCEPT !.at = "refused"]
    <3>1. calls' = [calls EXCEPT ![c] = k]
          BY <1>1, <2>1 DEF DeactivateAll, Goto, Call, ServerInv, ServerTypeOK
    <3>2. k \in Call /\ k.op = q.op /\ k.at = "refused" /\ k.jti = q.jti /\ k.seen = q.seen
          /\ k.todo = q.todo
          BY <1>1 DEF Call, Steps
    <3> HIDE DEF k
    <3>3. CallGood(k)
          BY <1>1, <2>1, <3>2 DEF CallGood, Well, Duty, Shut, Running
    <3> QED BY <2>1, <3>1, <3>2, <3>3
  <2>2. CASE q.op # "reuse"
    <3> DEFINE k == [Idle EXCEPT !.at = "done"]
    <3>1. calls' = [calls EXCEPT ![c] = k]
          BY <2>2 DEF DeactivateAll, End
    <3>2. "done" \in Steps \ Running /\ k.at = "done" /\ k.op = "login"
          BY DEF Steps, Running, Idle
    <3>3. CallGood(k)
          BY <3>2, IdleGood DEF ServerInv
    <3> HIDE DEF k
    <3> QED BY <3>1, <3>2, <3>3
  <2> QED BY <2>1, <2>2
<1>3. /\ sessions' \in [Rows -> Session]
      /\ \A x \in Rows : sessions'[x].jti = sessions[x].jti /\ ~sessions'[x].active
  <2>1. \A x \in Rows : [sessions[x] EXCEPT !.active = FALSE] \in Session
        BY DEF ServerInv, ServerTypeOK, Session
  <2>2. \A x \in Rows : /\ [sessions[x] EXCEPT !.active = FALSE].jti = sessions[x].jti
                        /\ ~[sessions[x] EXCEPT !.active = FALSE].active
        BY DEF ServerInv, ServerTypeOK, Session
  <2> QED BY <2>1, <2>2 DEF DeactivateAll
<1>4. /\ UNCHANGED <<minted, expired, listed, redis, faults, unlisted>>
      /\ stale' = stale \cup {r \in Rows : sessions[r].active /\ sessions[r].jti \notin q.seen}
      BY DEF DeactivateAll
<1>5. stale \subseteq stale' /\ stale' \subseteq Rows
      BY <1>4 DEF ServerInv, ServerTypeOK
<1>6. Well(k) /\ Duty(k, Gone) /\ Shut(k)'
      BY <1>2 DEF CallGood, Shut
<1>7. \A x \in Rows : ~ClosingBy(calls[c], x)
      BY <1>1, StartClosesNothing
<1>8. \A x \in Rows \ stale' : sessions[x].active /\ ~sessions'[x].active =>
        Live(x) = {} \/ ClosingBy(k, x)
  <2> SUFFICES ASSUME NEW x \in Rows \ stale', sessions[x].active PROVE Live(x) = {}
      OBVIOUS
  <2>1. sessions[x].jti \in Gone
        BY <1>1, <1>4
  <2>2. Live(x) \subseteq {sessions[x].jti}
        BY <1>5 DEF ServerInv, OneLiveToken
  <2> QED BY <2>1, <2>2 DEF Live, Gone
<1> QED BY <1>2, <1>3, <1>4, <1>5, <1>6, <1>7, <1>8, CloseStep

-----------------------------------------------------------------------------
(* The server by itself: whatever its clients do.                          *)

LEMMA ServerSame == ASSUME ServerInv, UNCHANGED serverVars PROVE ServerInv'
BY DEF ServerInv, serverVars, ServerTypeOK, CallGood, Well, Duty, Shut, Gone, RowsGood,
       OneLiveToken, Live, Closing, Minted

LEMMA GrownMinted == ASSUME ServerInv, NEW r, minted' = minted \/ (CanMint /\ r \in Rows /\ minted' = Append(minted, r))
                     PROVE  Minted \subseteq Minted'
BY Appended DEF Minted

LEMMA ServeStep == ASSUME ServerInv, NEW c \in Calls, Serve(c) PROVE ServerInv' /\ Minted \subseteq Minted'
<1>1. ServerInv'
      BY LoginStep, FindByJtiStep, RotateStep, FindOneStep, DeactivateOneStep, FindActiveStep,
         DeactivateAllStep, LogoutStep, BlacklistStep DEF Serve
<1>2. \E r : minted' = minted \/ (CanMint /\ r \in Rows /\ minted' = Append(minted, r))
  <2>1. CASE Login(c)
        BY <2>1 DEF Login
  <2>2. CASE Rotate(c)
    <3>1. calls[c].jti \in Minted
          BY <2>2 DEF Rotate, ServerInv, CallGood, Well, Duty, Running
    <3> QED BY <2>2, <3>1, MintedTokens DEF Rotate, ServerInv
  <2>3. CASE minted' = minted
        BY <2>3
  <2> QED BY <2>1, <2>2, <2>3 DEF Serve, FindByJti, FindOne, DeactivateOne, FindActive, DeactivateAll,
             Logout, Blacklist
<1> QED BY <1>1, <1>2, GrownMinted

LEMMA NoCalls == ASSUME ServerTypeOK, calls = [c \in Calls |-> Idle]
                 PROVE  \A c \in Calls : CallGood(calls[c])
<1>1. [Idle EXCEPT !.at = "idle"] = Idle
      BY DEF Idle
<1> QED BY <1>1, IdleGood DEF Steps, Running

LEMMA ServerStarts == ServerInit => ServerInv
<1> SUFFICES ASSUME ServerInit PROVE ServerInv
    OBVIOUS
<1>1. /\ expired = {} /\ listed = {} /\ unlisted = {} /\ stale = {} /\ redis = TRUE
      /\ calls = [c \in Calls |-> Idle] /\ faults = 0
      BY DEF ServerInit
<1>2. None \in {None} \cup Tokens /\ 1 \in Tokens /\ None # 1
      BY SessionsAssumption DEF Tokens, None
<1>3. NoSession \in Session /\ NoSession.jti = None /\ ~NoSession.active
      BY <1>2 DEF NoSession, Session
<1>4. calls \in [Calls -> Call]
      BY <1>1, <1>2 DEF Idle, Call, Ops, Steps
<1>5. CASE sessions = [r \in Rows |-> NoSession] /\ minted = <<>>
  <2>1. minted = <<>> /\ Len(minted) = 0 /\ Minted = {} /\ minted \in Seq(Rows)
        BY <1>5, EmptySeq DEF Minted
  <2>2. ServerTypeOK
        BY <1>1, <1>3, <1>4, <1>5, <2>1, SessionsAssumption DEF ServerTypeOK
  <2>3. \A r \in Rows : sessions[r].jti = None /\ ~sessions[r].active
        BY <1>3, <1>5
  <2>4. RowsGood /\ OneLiveToken
        BY <2>1, <2>3 DEF RowsGood, OneLiveToken, Live
  <2> QED BY <1>1, <2>2, <2>4, NoCalls DEF ServerInv
<1>6. ASSUME NEW r \in Rows,
             sessions = [x \in Rows |-> IF x = r THEN [jti |-> 1, active |-> TRUE] ELSE NoSession],
             minted = <<r>>
      PROVE  ServerInv
  <2>1. minted \in Seq(Rows) /\ Len(minted) = 1 /\ minted[1] = r
        BY <1>6
  <2>2. Minted = {1}
        BY <2>1 DEF Minted
  <2>3. sessions \in [Rows -> Session]
        BY <1>2, <1>3, <1>6 DEF Session
  <2>4. ServerTypeOK
        BY <1>1, <1>4, <2>1, <2>2, <2>3, SessionsAssumption DEF ServerTypeOK
  <2>5. \A x \in Rows : /\ x = r => sessions[x].jti = 1 /\ sessions[x].active
                        /\ x # r => sessions[x].jti = None /\ ~sessions[x].active
        BY <1>3, <1>6
  <2>6. RowsGood
        BY <1>2, <2>1, <2>2, <2>5 DEF RowsGood
  <2>7. OneLiveToken
    <3> SUFFICES ASSUME NEW x \in Rows
                 PROVE  Live(x) \subseteq IF sessions[x].active \/ Closing(x) THEN {sessions[x].jti} ELSE {}
        BY DEF OneLiveToken
    <3>1. CASE x = r
          BY <2>2, <2>5, <3>1 DEF Live
    <3>2. CASE x # r
          BY <2>1, <2>2, <3>2 DEF Live
    <3> QED BY <3>1, <3>2
  <2> QED BY <1>1, <2>4, <2>6, <2>7, NoCalls DEF ServerInv
<1> QED BY <1>5, <1>6 DEF ServerInit

LEMMA ServerGoesOn ==
  ASSUME ServerInv, [ServerNext]_serverVars
  PROVE  ServerInv' /\ Minted \subseteq Minted'
<1>1. CASE UNCHANGED serverVars
      BY <1>1, ServerSame DEF serverVars, Minted
<1>2. ASSUME NEW c \in Calls, Serve(c) PROVE ServerInv' /\ Minted \subseteq Minted'
      BY <1>2, ServeStep
<1>3. ASSUME NEW c \in Calls, Receive(c) PROVE ServerInv' /\ Minted \subseteq Minted'
      BY <1>3, ReceiveStep DEF Receive, Minted
<1>4. ASSUME NEW c \in Calls, Lose(c) PROVE ServerInv' /\ Minted \subseteq Minted'
      BY <1>4, LoseStep DEF Lose, Minted
<1>5. CASE Surroundings
      BY <1>5, SurroundingsStep DEF Surroundings, RedisAway, RedisBack, Expire, Minted
<1> QED BY <1>1, <1>2, <1>3, <1>4, <1>5 DEF ServerNext

\* Whatever clients send, in any number and order, and wherever their calls are cut off:
\* AuthService and SessionService leave a session at most one usable access token, its
\* current one, and a revoked one none, but for the causes OneLiveToken names.
THEOREM ServerTokenCorrect == ServerSpec => []OneLiveToken
<1>1. ServerInv => OneLiveToken
      BY DEF ServerInv
<1> QED BY <1>1, ServerStarts, ServerGoesOn, PTL DEF ServerSpec

-----------------------------------------------------------------------------
(* The client.                                                             *)

Flagged(t) ==
  tabs[t].refreshing =>
    \/ \E p \in Requests : reqs[p].at = "refreshing" /\ TabOf(p) = t
    \/ tabs[t].page = "leaving"
    \/ tabs[t].jammed

ClientTypes ==
  /\ cookies \in [access: {None} \cup Minted, refresh: {None} \cup Minted]
  /\ storage \in {None} \cup Minted
  /\ tabs \in [Tabs -> Tab]
  /\ reqs \in [Requests -> Request]

QueueInv ==
  /\ \A q \in Requests : reqs[q].at \in Waiting => TabOf(q) \in Tabs
  /\ \A q \in Requests : reqs[q].at = "queued" => tabs[TabOf(q)].refreshing
  /\ \A t \in Tabs : Flagged(t)

\* A request has not asked for a refresh, and still may.
Waits(v) == v.at = "idle" \/ (v.at \in {"sent", "denied", "queued"} /\ ~v.retry)

\* A request posts one refresh, because it is marked when it does.
AskedOnce ==
  /\ \A q \in Requests : Waits(reqs[q]) => calls[q].at = "idle"
  /\ \A q \in Requests : reqs[q].at = "refreshing" => reqs[q].retry

\* A step of the server is one of the server by itself.
LEMMA ServerStep ==
  ASSUME Server PROVE ServerNext /\ UNCHANGED clientVars
<1>1. ASSUME NEW c \in Calls, Arrive(c) PROVE Receive(c)
      BY <1>1 DEF Arrive, Receive, Ops
<1> QED BY <1>1, WebClientAssumption DEF Server, ServerNext

\* What the client does about a request is nothing to the server, or a call of its own.
LEMMA ClientServer ==
  ASSUME ServerInv, ClientTypes, AskedOnce, NEW q \in Requests,
         \/ \E t \in Tabs : SignOut(t) \/ Leave(t) \/ Send(q, t) \/ SignIn(q, t)
         \/ Settle(q)
  PROVE  [ServerNext]_serverVars /\ UNCHANGED minted
<1>1. q \in Calls
      BY WebClientAssumption
<1>2. CASE UNCHANGED serverVars
      BY <1>2 DEF serverVars
<1>3. CASE Refresh(q)
  <2>1. cookies.refresh \in Minted
        BY <1>3 DEF Refresh, ClientTypes
  <2>2. calls[q].at = "idle"
        BY <1>3 DEF Refresh, AskedOnce, Waits
  <2>3. Receive(q)
        BY <1>3, <2>1, <2>2 DEF Refresh, Receive, Ops
  <2> QED BY <1>1, <1>3, <2>3 DEF ServerNext, Refresh
<1>4. ASSUME NEW t \in Tabs, SignIn(q, t) PROVE [ServerNext]_serverVars /\ UNCHANGED minted
  <2>1. UNCHANGED <<sessions, minted, expired, listed, redis, faults, stale, unlisted>>
        BY <1>4 DEF SignIn
  <2>2. CASE Give(q, "login", None)
    <3>1. calls[q].at = "idle"
          BY <1>4 DEF SignIn, InTurn, AskedOnce, Waits
    <3>2. Receive(q)
          BY <2>1, <2>2, <3>1 DEF Receive
    <3> QED BY <1>1, <2>1, <3>2 DEF ServerNext
  <2>3. CASE calls' = calls
        BY <2>1, <2>3 DEF serverVars
  <2> QED BY <1>4, <2>2, <2>3 DEF SignIn
<1> QED BY <1>2, <1>3, <1>4 DEF SignOut, Leave, Send, Settle, Decide, GiveUp, Enqueue, NoRefresh,
           Refreshed, RefreshFailed, SignedIn, SignInFailed

\* The server goes on with the calls it has, and begins none of the tabs'.
LEMMA ServerAsks ==
  ASSUME ServerTypeOK, Server, NEW q \in Requests, calls[q].at = "idle" PROVE calls'[q] = calls[q]
<1>1. q \in Calls /\ calls \in [Calls -> Call]
      BY WebClientAssumption DEF ServerTypeOK
<1>2. ASSUME NEW c \in Calls, Serve(c) PROVE calls'[q] = calls[q]
  <2>1. CASE Login(c) \/ Rotate(c)
        BY <1>1, <2>1 DEF Login, Rotate
  <2>2. CASE FindByJti(c)
        BY <1>1, <2>2 DEF FindByJti, Goto, Give, Read
  <2>3. CASE FindOne(c) \/ DeactivateOne(c) \/ Logout(c)
        BY <1>1, <2>3 DEF FindOne, DeactivateOne, Logout, Goto, End, Read
  <2>4. CASE FindActive(c) \/ DeactivateAll(c)
        BY <1>1, <2>4 DEF FindActive, DeactivateAll, Goto, End, Read
  <2>5. CASE Blacklist(c)
    <3>1. calls[c].at = "list"
          BY <2>5 DEF Blacklist
    <3>2. CASE AfterList(c)
      <4>1. CASE calls[c].op = "refresh"
            BY <1>1, <3>1, <3>2, <4>1 DEF AfterList
      <4>2. CASE calls[c].op \in {"revokeAll", "reuse"}
            BY <1>1, <3>1, <3>2, <4>2 DEF AfterList
      <4>3. CASE calls[c].op \notin {"refresh", "revokeAll", "reuse"}
        <5>1. End(c, "done")
              BY <3>2, <4>3 DEF AfterList
        <5> QED BY <1>1, <3>1, <5>1 DEF End
      <4> QED BY <4>1, <4>2, <4>3
    <3>3. ASSUME NEW j, calls' = [calls EXCEPT ![c].todo = @ \ {j}] PROVE calls'[q] = calls[q]
          BY <1>1, <3>1, <3>3
    <3> QED BY <2>5, <3>2, <3>3 DEF Blacklist
  <2> QED BY <1>2, <2>1, <2>2, <2>3, <2>4, <2>5 DEF Serve
<1>3. ASSUME NEW c \in Calls \ Requests, Arrive(c) PROVE calls'[q] = calls[q]
      BY <1>3 DEF Arrive, Give, ServerTypeOK
<1>4. ASSUME NEW c \in Calls, Lose(c) PROVE calls'[q] = calls[q]
      BY <1>4 DEF Lose, Goto, Running, ServerTypeOK
<1>5. CASE Surroundings
      BY <1>5 DEF Surroundings, RedisAway, RedisBack, Expire
<1> QED BY <1>2, <1>3, <1>4, <1>5, WebClientAssumption DEF Server

LEMMA AskedStep ==
  ASSUME AskedOnce,
         \A p \in Requests :
           \/ reqs'[p].at \in {"settled", "gone", "signing"}
           \/ /\ calls'[p] = calls[p] /\ (Waits(reqs'[p]) => Waits(reqs[p]))
              /\ reqs'[p].at = "refreshing" => reqs'[p].retry
           \/ reqs'[p].at = "refreshing" /\ reqs'[p].retry
  PROVE  AskedOnce'
BY DEF AskedOnce, Waits

LEMMA AskedOnceStep ==
  ASSUME ServerTypeOK, ClientTypes, AskedOnce, [Next]_vars PROVE AskedOnce'
<1>1. CASE Server
      BY <1>1, ServerAsks DEF Server, clientVars, AskedOnce
<1>2. CASE UNCHANGED vars
      BY <1>2 DEF vars, serverVars, clientVars, AskedOnce
<1>3. \A p \in Requests : /\ reqs[p] \in Request /\ Done(p).at = "settled" /\ Done(p).retry = reqs[p].retry
                          /\ [Done(p) EXCEPT !.at = "gone"].at = "gone"
                          /\ [Done(p) EXCEPT !.retry = TRUE].at = "settled"
      BY DEF Done, ClientTypes, Request
<1>4. ASSUME NEW t \in Tabs, SignOut(t) \/ Leave(t) PROVE AskedOnce'
  <2>1. calls' = calls /\ \A p \in Requests : reqs'[p] = reqs[p] \/ reqs'[p].at = "gone"
        BY <1>3, <1>4 DEF SignOut, Leave, serverVars
  <2> QED BY <2>1, AskedStep DEF AskedOnce
<1>5. ASSUME NEW q \in Requests, NEW v, reqs' = [reqs EXCEPT ![q] = v],
             \A p \in Requests \ {q} : calls'[p] = calls[p],
             \/ v.at \in {"settled", "gone", "signing"}
             \/ v.at = "refreshing" /\ v.retry
             \/ calls' = calls /\ v.at # "refreshing" /\ (Waits(v) => Waits(reqs[q]))
      PROVE  AskedOnce'
  <2>1. \A p \in Requests : reqs'[p] = IF p = q THEN v ELSE reqs[p]
        BY <1>5 DEF ClientTypes
  <2>2. \A p \in Requests : reqs[p].at = "refreshing" => reqs[p].retry
        BY DEF AskedOnce
  <2> QED BY <1>5, <2>1, <2>2, AskedStep
<1>6. ASSUME NEW q \in Requests, NEW j, NEW op, Give(q, op, j)
      PROVE  \A p \in Requests \ {q} : calls'[p] = calls[p]
      BY <1>6, WebClientAssumption DEF Give, ServerTypeOK
<1>7. ASSUME NEW q \in Requests, NEW t \in Tabs, Send(q, t) PROVE AskedOnce'
  <2> PICK v : v = [reqs[q] EXCEPT !.at = "sent", !.tab = t, !.token = Bearer]
      OBVIOUS
  <2>1. v.at = "sent" /\ reqs[q].at = "idle" /\ reqs' = [reqs EXCEPT ![q] = v] /\ calls' = calls
        BY <1>3, <1>7 DEF Send, InTurn, serverVars, Request
  <2> QED BY <1>5, <2>1 DEF Waits
<1>8. ASSUME NEW q \in Requests, NEW t \in Tabs, SignIn(q, t) PROVE AskedOnce'
  <2> PICK v, w : /\ v = [reqs[q] EXCEPT !.at = "signing", !.tab = t]
                  /\ w = [reqs[q] EXCEPT !.at = "sent", !.tab = t, !.wrong = TRUE]
      OBVIOUS
  <2>1. v.at = "signing" /\ w.at = "sent" /\ reqs[q].at = "idle"
        BY <1>3, <1>8 DEF SignIn, InTurn, Request
  <2>2. \/ reqs' = [reqs EXCEPT ![q] = v] /\ Give(q, "login", None)
        \/ reqs' = [reqs EXCEPT ![q] = w] /\ calls' = calls
        BY <1>8 DEF SignIn
  <2> QED BY <1>5, <1>6, <2>1, <2>2 DEF Waits
<1>9. ASSUME NEW q \in Requests, Settle(q) PROVE AskedOnce'
  <2>1. CASE Refresh(q)
    <3> PICK v : v = [reqs[q] EXCEPT !.at = "refreshing", !.retry = TRUE]
        OBVIOUS
    <3>1. v.at = "refreshing" /\ v.retry /\ reqs' = [reqs EXCEPT ![q] = v]
          BY <1>3, <2>1 DEF Refresh, Request
    <3>2. \A p \in Requests \ {q} : calls'[p] = calls[p]
          BY <1>6, <2>1 DEF Refresh
    <3> QED BY <1>5, <3>1, <3>2
  <2>2. CASE Refreshed(q) \/ RefreshFailed(q)
    <3>1. calls' = calls /\ reqs[q].at = "refreshing" /\ reqs[q].retry
          BY <2>2 DEF Refreshed, RefreshFailed, serverVars, AskedOnce
    <3>2. ASSUME NEW p \in Requests
          PROVE  \/ reqs'[p] = reqs[p] \/ reqs'[p].at = "settled"
                 \/ reqs'[p].at = "sent" /\ reqs'[p].retry = reqs[p].retry /\ (p = q \/ reqs[p].at = "queued")
      <4> PICK v : v = [reqs[p] EXCEPT !.at = "sent", !.token = calls[q].jti]
          OBVIOUS
      <4>1. v.at = "sent" /\ v.retry = reqs[p].retry
            BY <1>3 DEF Request
      <4>2. CASE Refreshed(q)
        <5>1. reqs'[p] = IF p \in Queued(TabOf(q)) \cup {q} THEN v ELSE reqs[p]
              BY <4>2 DEF Refreshed
        <5> QED BY <4>1, <5>1 DEF Queued
      <4>3. CASE RefreshFailed(q)
        <5>1. reqs'[p] = IF p \in Queued(TabOf(q)) \cup {q} THEN Done(p) ELSE reqs[p]
              BY <4>3 DEF RefreshFailed
        <5> QED BY <1>3, <5>1
      <4> QED BY <2>2, <4>2, <4>3
    <3>3. ASSUME NEW p \in Requests
          PROVE  \/ reqs'[p].at = "settled"
                 \/ (Waits(reqs'[p]) => Waits(reqs[p])) /\ (reqs'[p].at = "refreshing" => reqs'[p].retry)
          BY <3>1, <3>2 DEF AskedOnce, Waits
    <3> QED BY <3>1, <3>3, AskedStep
  <2>3. CASE Decide(q) \/ GiveUp(q) \/ Enqueue(q) \/ NoRefresh(q) \/ SignedIn(q) \/ SignInFailed(q)
    <3>1. calls' = calls
          BY <2>3 DEF Decide, GiveUp, Enqueue, NoRefresh, SignedIn, SignInFailed, serverVars
    <3>2. CASE reqs' = [reqs EXCEPT ![q] = Done(q)] \/ reqs' = [reqs EXCEPT ![q] = [Done(q) EXCEPT !.retry = TRUE]]
          BY <1>3, <1>5, <3>1, <3>2
    <3>3. ASSUME NEW at \in {"denied", "queued"}, reqs' = [reqs EXCEPT ![q].at = at],
                 reqs[q].at \in {"sent", "denied"}
          PROVE  AskedOnce'
      <4> PICK v : v = [reqs[q] EXCEPT !.at = at]
          OBVIOUS
      <4>1. v.at = at /\ v.retry = reqs[q].retry /\ reqs' = [reqs EXCEPT ![q] = v]
            BY <1>3, <3>3 DEF Request, ClientTypes
      <4> QED BY <1>5, <3>1, <3>3, <4>1 DEF Waits
    <3> QED BY <2>3, <3>2, <3>3 DEF Decide, GiveUp, Enqueue, NoRefresh, SignedIn, SignInFailed,
               Settled, Place
  <2> QED BY <1>9, <2>1, <2>2, <2>3 DEF Settle
<1> QED BY <1>1, <1>2, <1>4, <1>7, <1>8, <1>9 DEF Next

\* One request goes on as v, and a tab as w.
LEMMA GoOn ==
  ASSUME ClientTypes, QueueInv, NEW q \in Requests, NEW v \in Request, NEW t \in Tabs,
         NEW w \in Tab, UNCHANGED minted, reqs' = [reqs EXCEPT ![q] = v],
         tabs' = [tabs EXCEPT ![t] = w],
         cookies' \in [access: {None} \cup Minted, refresh: {None} \cup Minted],
         storage' \in {None} \cup Minted,
         reqs[q].at # "refreshing", v.tab = t,
         v.at = "queued" => w.refreshing,
         tabs[t].refreshing => w.refreshing,
         tabs[t].page = "leaving" => w.page = "leaving",
         tabs[t].jammed => w.jammed,
         w.refreshing => tabs[t].refreshing \/ v.at = "refreshing" \/ w.page = "leaving" \/ w.jammed
  PROVE  ClientTypes' /\ QueueInv'
<1>1. /\ reqs' \in [Requests -> Request]
      /\ \A p \in Requests : reqs'[p] = IF p = q THEN v ELSE reqs[p]
      BY DEF ClientTypes
<1>2. tabs' \in [Tabs -> Tab] /\ \A x \in Tabs : tabs'[x] = IF x = t THEN w ELSE tabs[x]
      BY DEF ClientTypes
<1>3. ClientTypes'
      BY <1>1, <1>2 DEF ClientTypes, Minted
<1>4. \A p \in Requests : reqs'[p].at \in Waiting => reqs'[p].tab \in Tabs
      BY <1>1 DEF QueueInv, TabOf
<1>5. \A p \in Requests : reqs'[p].at = "queued" => tabs'[reqs'[p].tab].refreshing
  <2> SUFFICES ASSUME NEW p \in Requests, reqs'[p].at = "queued"
               PROVE  tabs'[reqs'[p].tab].refreshing
      OBVIOUS
  <2>1. CASE p = q
        BY <1>1, <1>2, <2>1
  <2>2. CASE p # q
    <3>1. reqs'[p] = reqs[p] /\ reqs[p].tab \in Tabs /\ tabs[reqs[p].tab].refreshing
          BY <1>1, <2>2 DEF QueueInv, Waiting, TabOf
    <3> QED BY <1>2, <3>1
  <2> QED BY <2>1, <2>2
<1>6. ASSUME NEW x \in Tabs, tabs'[x].refreshing
      PROVE  \/ \E p \in Requests : reqs'[p].at = "refreshing" /\ reqs'[p].tab = x
             \/ tabs'[x].page = "leaving"
             \/ tabs'[x].jammed
  <2>1. tabs[x].refreshing =>
          \/ \E p \in Requests : reqs'[p].at = "refreshing" /\ reqs'[p].tab = x
          \/ tabs[x].page = "leaving"
          \/ tabs[x].jammed
    <3>1. Flagged(x)
          BY DEF QueueInv
    <3> QED BY <1>1, <3>1 DEF Flagged, TabOf
  <2>2. CASE x = t
        BY <1>1, <1>2, <1>6, <2>1, <2>2
  <2>3. CASE x # t
        BY <1>2, <1>6, <2>1, <2>3
  <2> QED BY <2>2, <2>3
<1>7. QueueInv'
      BY <1>4, <1>5, <1>6 DEF QueueInv, Flagged, TabOf
<1> QED BY <1>3, <1>7

\* The requests of tab t are settled, and it no longer refreshes.
LEMMA Reset ==
  ASSUME ClientTypes, QueueInv, NEW t \in Tabs, NEW w \in Tab, ~w.refreshing, UNCHANGED minted,
         reqs' \in [Requests -> Request], tabs' = [tabs EXCEPT ![t] = w],
         cookies' \in [access: {None} \cup Minted, refresh: {None} \cup Minted],
         storage' \in {None} \cup Minted,
         \A p \in Requests : \/ reqs'[p] = reqs[p] /\ (reqs[p].at = "queued" => reqs[p].tab # t)
                             \/ reqs[p].tab = t /\ reqs'[p].tab = t /\ reqs'[p].at # "queued"
  PROVE  ClientTypes' /\ QueueInv'
<1>1. tabs' \in [Tabs -> Tab] /\ \A x \in Tabs : tabs'[x] = IF x = t THEN w ELSE tabs[x]
      BY DEF ClientTypes
<1>2. ClientTypes'
      BY <1>1 DEF ClientTypes, Minted
<1>3. \A p \in Requests : reqs'[p].at \in Waiting => reqs'[p].tab \in Tabs
      BY DEF QueueInv, TabOf
<1>4. ASSUME NEW p \in Requests, reqs'[p].at = "queued" PROVE tabs'[reqs'[p].tab].refreshing
  <2>1. reqs'[p] = reqs[p] /\ reqs[p].tab # t
        BY <1>4
  <2>2. reqs[p].tab \in Tabs /\ tabs[reqs[p].tab].refreshing
        BY <1>4, <2>1 DEF QueueInv, Waiting, TabOf
  <2> QED BY <1>1, <2>1, <2>2
<1>5. ASSUME NEW x \in Tabs, tabs'[x].refreshing
      PROVE  \/ \E p \in Requests : reqs'[p].at = "refreshing" /\ reqs'[p].tab = x
             \/ tabs'[x].page = "leaving"
             \/ tabs'[x].jammed
  <2>1. x # t /\ tabs'[x] = tabs[x]
        BY <1>1, <1>5
  <2>2. Flagged(x)
        BY DEF QueueInv
  <2>3. \A p \in Requests : reqs[p].tab = x => reqs'[p] = reqs[p]
        BY <2>1
  <2> QED BY <1>5, <2>1, <2>2, <2>3 DEF Flagged, TabOf
<1>6. QueueInv'
      BY <1>3, <1>4, <1>5 DEF QueueInv, Flagged, TabOf
<1> QED BY <1>2, <1>6

\* The same while the tabs stay as they are.
LEMMA GoOnAlone ==
  ASSUME ClientTypes, QueueInv, NEW q \in Requests, NEW v \in Request, v.tab \in Tabs,
         reqs' = [reqs EXCEPT ![q] = v], UNCHANGED <<minted, cookies, storage, tabs>>,
         reqs[q].at # "refreshing", v.at = "queued" => tabs[v.tab].refreshing
  PROVE  ClientTypes' /\ QueueInv'
<1> PICK t, w : t = v.tab /\ w = tabs[t]
    OBVIOUS
<1>1. t \in Tabs /\ w \in Tab /\ tabs' = [tabs EXCEPT ![t] = w]
      BY DEF ClientTypes
<1>2. /\ cookies' \in [access: {None} \cup Minted, refresh: {None} \cup Minted]
      /\ storage' \in {None} \cup Minted /\ UNCHANGED minted
      BY DEF ClientTypes
<1>3. /\ v.tab = t /\ (v.at = "queued" => w.refreshing)
      /\ tabs[t].refreshing => w.refreshing
      /\ tabs[t].page = "leaving" => w.page = "leaving"
      /\ tabs[t].jammed => w.jammed
      /\ w.refreshing => tabs[t].refreshing
      OBVIOUS
<1>4. t \in Tabs /\ w \in Tab
      BY <1>1
<1>5. tabs' = [tabs EXCEPT ![t] = w]
      BY <1>1
<1> QED BY <1>2, <1>3, <1>4, <1>5, GoOn, ZenonT(60)

LEMMA NoneIsToken == ASSUME ServerInv PROVE {None} \cup Minted \subseteq {None} \cup Tokens
BY MintedTokens DEF ServerInv

LEMMA TabSteps ==
  ASSUME ServerInv, ClientTypes, QueueInv, NEW t \in Tabs,
         SignOut(t) \/ Leave(t) \/ \E q \in Requests : Send(q, t) \/ SignIn(q, t)
  PROVE  ClientTypes' /\ QueueInv'
<1>1. tabs[t] \in Tab /\ \A p \in Requests : reqs[p] \in Request
      BY DEF ClientTypes
<1>2. CASE SignOut(t)
  <2> PICK w : w = [tabs[t] EXCEPT !.page = "leaving"]
      OBVIOUS
  <2>1. w \in Tab /\ w.page = "leaving"
        BY <1>1 DEF Tab, Pages
  <2>2. /\ UNCHANGED <<minted, reqs>> /\ tabs' = [tabs EXCEPT ![t] = w]
        /\ cookies' \in [access: {None} \cup Minted, refresh: {None} \cup Minted]
        /\ storage' \in {None} \cup Minted
        BY <1>2 DEF SignOut, SetTab, serverVars, ClientTypes
  <2>3. tabs' \in [Tabs -> Tab] /\ \A x \in Tabs : tabs'[x] = IF x = t THEN w ELSE tabs[x]
        BY <2>1, <2>2 DEF ClientTypes
  <2>4. w.refreshing = tabs[t].refreshing
        BY <1>1 DEF Tab
  <2>5. ClientTypes'
        BY <2>2, <2>3 DEF ClientTypes, Minted
  <2>6. \A q \in Requests : /\ reqs[q].at \in Waiting => reqs[q].tab \in Tabs
                            /\ reqs[q].at = "queued" => reqs[q].tab \in Tabs /\ tabs'[reqs[q].tab].refreshing
        BY <2>3, <2>4 DEF QueueInv, TabOf, Waiting
  <2>7. \A x \in Tabs : tabs'[x].refreshing =>
          \/ \E p \in Requests : reqs[p].at = "refreshing" /\ reqs[p].tab = x
          \/ tabs'[x].page = "leaving"
          \/ tabs'[x].jammed
        BY <2>1, <2>3 DEF QueueInv, Flagged, TabOf
  <2>8. QueueInv'
        BY <2>2, <2>6, <2>7 DEF QueueInv, Flagged, TabOf
  <2> QED BY <2>5, <2>8
<1>3. CASE Leave(t)
  <2> PICK w : w = NewTab(IF cookies.access = None THEN "login" ELSE "app")
      OBVIOUS
  <2>1. w \in Tab /\ ~w.refreshing
        BY DEF NewTab, Tab, Pages
  <2>2. UNCHANGED <<minted, cookies, storage>> /\ tabs' = [tabs EXCEPT ![t] = w]
        BY <1>3 DEF Leave, SetTab, serverVars
  <2>3. \A p \in Requests : reqs'[p] = IF TabOf(p) = t /\ reqs[p].at \in Waiting
                                         THEN [Done(p) EXCEPT !.at = "gone"] ELSE reqs[p]
        BY <1>3 DEF Leave
  <2>4. \A p \in Requests : /\ [Done(p) EXCEPT !.at = "gone"] \in Request
                            /\ [Done(p) EXCEPT !.at = "gone"].at = "gone"
                            /\ [Done(p) EXCEPT !.at = "gone"].tab = reqs[p].tab
        BY <1>1 DEF Done, Request, Places
  <2>5. reqs' \in [Requests -> Request]
        BY <1>1, <1>3, <2>3, <2>4 DEF Leave
  <2>6. \A p \in Requests : \/ reqs'[p] = reqs[p] /\ (reqs[p].at = "queued" => reqs[p].tab # t)
                            \/ reqs[p].tab = t /\ reqs'[p].tab = t /\ reqs'[p].at # "queued"
        BY <2>3, <2>4 DEF TabOf, Waiting
  <2>7. /\ cookies' \in [access: {None} \cup Minted, refresh: {None} \cup Minted]
        /\ storage' \in {None} \cup Minted
        BY <2>2 DEF ClientTypes
  <2> QED BY <2>1, <2>2, <2>5, <2>6, <2>7, Reset
<1>4. ASSUME NEW q \in Requests, Send(q, t) PROVE ClientTypes' /\ QueueInv'
  <2> PICK v : v = [reqs[q] EXCEPT !.at = "sent", !.tab = t, !.token = Bearer]
      OBVIOUS
  <2>1. Bearer \in {None} \cup Tokens
        BY NoneIsToken DEF Bearer, ClientTypes
  <2>2. v \in Request /\ v.tab = t /\ v.at = "sent"
        BY <1>1, <2>1 DEF Request, Places
  <2>3. /\ reqs' = [reqs EXCEPT ![q] = v] /\ UNCHANGED <<minted, cookies, storage, tabs>>
        /\ reqs[q].at = "idle"
        BY <1>4 DEF Send, InTurn, serverVars
  <2> QED BY <2>2, <2>3, GoOnAlone
<1>5. ASSUME NEW q \in Requests, SignIn(q, t) PROVE ClientTypes' /\ QueueInv'
  <2>1. UNCHANGED <<minted, cookies, storage, tabs>> /\ reqs[q].at = "idle"
        BY <1>5 DEF SignIn, InTurn
  <2>2. PICK v \in Request : v.tab = t /\ v.at \in {"sent", "signing"} /\ reqs' = [reqs EXCEPT ![q] = v]
    <3>1. [reqs[q] EXCEPT !.at = "signing", !.tab = t] \in Request
          /\ [reqs[q] EXCEPT !.at = "signing", !.tab = t].tab = t
          /\ [reqs[q] EXCEPT !.at = "signing", !.tab = t].at = "signing"
          BY <1>1 DEF Request, Places
    <3>2. [reqs[q] EXCEPT !.at = "sent", !.tab = t, !.wrong = TRUE] \in Request
          /\ [reqs[q] EXCEPT !.at = "sent", !.tab = t, !.wrong = TRUE].tab = t
          /\ [reqs[q] EXCEPT !.at = "sent", !.tab = t, !.wrong = TRUE].at = "sent"
          BY <1>1 DEF Request, Places
    <3>3. CASE reqs' = [reqs EXCEPT ![q] = [reqs[q] EXCEPT !.at = "signing", !.tab = t]]
          BY <3>1, <3>3
    <3>4. CASE reqs' = [reqs EXCEPT ![q] = [reqs[q] EXCEPT !.at = "sent", !.tab = t, !.wrong = TRUE]]
          BY <3>2, <3>4
    <3> QED BY <1>5, <3>3, <3>4 DEF SignIn
  <2> QED BY <2>1, <2>2, GoOnAlone
<1> QED BY <1>2, <1>3, <1>4, <1>5

LEMMA DoneType ==
  ASSUME ClientTypes, NEW q \in Requests
  PROVE  Done(q) \in Request /\ Done(q).at = "settled" /\ Done(q).tab = reqs[q].tab
<1>1. reqs[q] \in Request
      BY DEF ClientTypes
<1> QED BY <1>1 DEF Done, Request, Places, None

LEMMA SettleSteps ==
  ASSUME ServerInv, ClientTypes, QueueInv, NEW q \in Requests, Settle(q)
  PROVE  ClientTypes' /\ QueueInv'
<1> PICK t : t = TabOf(q)
    OBVIOUS
<1>1. reqs[q] \in Request /\ t = reqs[q].tab
      BY DEF ClientTypes, TabOf
<1>2. reqs[q].at \in Waiting
      BY DEF Settle, Decide, GiveUp, Enqueue, Refresh, NoRefresh, Refreshed, RefreshFailed,
             SignedIn, SignInFailed, Waiting
<1>3. t \in Tabs /\ tabs[t] \in Tab
      BY <1>1, <1>2 DEF ClientTypes, QueueInv, TabOf
<1>4. Done(q) \in Request /\ Done(q).at = "settled" /\ Done(q).tab = t
      BY <1>1, DoneType
<1>5. \A at \in Places : /\ [reqs[q] EXCEPT !.at = at] \in Request
                         /\ [reqs[q] EXCEPT !.at = at].at = at
                         /\ [reqs[q] EXCEPT !.at = at].tab = t
      BY <1>1 DEF Request
<1>6. \A at : Place(q, at) => reqs' = [reqs EXCEPT ![q] = [reqs[q] EXCEPT !.at = at]]
      BY DEF Place, ClientTypes, Request
<1>7. calls[q].jti \in {None} \cup Minted /\ {None} \cup Minted \subseteq {None} \cup Tokens
      BY NoneIsToken, WebClientAssumption DEF ServerInv, CallGood, Well
<1>8. ASSUME reqs[q].at # "refreshing", reqs' = [reqs EXCEPT ![q] = Done(q)],
             UNCHANGED <<minted, cookies, storage, tabs>>
      PROVE  ClientTypes' /\ QueueInv'
      BY <1>3, <1>4, <1>8, GoOnAlone
<1>9. ASSUME NEW at \in {"denied", "queued"}, reqs[q].at # "refreshing", Place(q, at),
             at = "queued" => tabs[t].refreshing, UNCHANGED <<minted, cookies, storage, tabs>>
      PROVE  ClientTypes' /\ QueueInv'
  <2> PICK v : v = [reqs[q] EXCEPT !.at = at]
      OBVIOUS
  <2>1. v \in Request /\ v.at = at /\ v.tab = t /\ reqs' = [reqs EXCEPT ![q] = v]
        BY <1>5, <1>6, <1>9 DEF Places
  <2> QED BY <1>3, <1>9, <2>1, GoOnAlone
<1>10. CASE Decide(q)
      BY <1>8, <1>9, <1>10 DEF Decide, Settled, serverVars
<1>11. CASE GiveUp(q)
      BY <1>8, <1>11 DEF GiveUp, Settled, serverVars
<1>12. CASE Enqueue(q)
      BY <1>9, <1>12 DEF Enqueue, serverVars
<1>13. CASE SignInFailed(q)
      BY <1>8, <1>13 DEF SignInFailed, Settled, serverVars
<1>14. CASE Refresh(q)
  <2> PICK v, w : /\ v = [reqs[q] EXCEPT !.at = "refreshing", !.retry = TRUE]
                  /\ w = [tabs[t] EXCEPT !.refreshing = TRUE]
      OBVIOUS
  <2>1. v \in Request /\ v.at = "refreshing" /\ v.tab = t
        BY <1>1 DEF Request, Places
  <2>2. w \in Tab /\ w.refreshing /\ w.page = tabs[t].page /\ w.jammed = tabs[t].jammed
        BY <1>3 DEF Tab
  <2>3. reqs' = [reqs EXCEPT ![q] = v]
        BY <1>1, <1>14 DEF Refresh, ClientTypes, Request
  <2>4. /\ tabs' = [tabs EXCEPT ![t] = w] /\ UNCHANGED <<minted, cookies, storage>>
        /\ reqs[q].at # "refreshing"
        BY <1>14 DEF Refresh, SetTab
  <2>5. /\ cookies' \in [access: {None} \cup Minted, refresh: {None} \cup Minted]
        /\ storage' \in {None} \cup Minted
        BY <2>4 DEF ClientTypes
  <2> QED BY <1>3, <2>1, <2>2, <2>3, <2>4, <2>5, GoOn
<1>15. CASE NoRefresh(q)
  <2> PICK v, w : /\ v = [Done(q) EXCEPT !.retry = TRUE]
                  /\ w = IF reqs[q].wrong
                           THEN [tabs[t] EXCEPT !.refreshing = TRUE, !.jammed = TRUE]
                           ELSE [tabs[t] EXCEPT !.refreshing = TRUE, !.page = "leaving"]
      OBVIOUS
  <2>1. v \in Request /\ v.at = "settled" /\ v.tab = t
        BY <1>4 DEF Request
  <2>2. /\ w \in Tab /\ w.refreshing /\ (w.page = "leaving" \/ w.jammed)
        /\ tabs[t].page = "leaving" => w.page = "leaving"
        /\ tabs[t].jammed => w.jammed
        BY <1>3 DEF Tab, Pages
  <2>3. reqs' = [reqs EXCEPT ![q] = v] /\ tabs' = [tabs EXCEPT ![t] = w]
        /\ UNCHANGED <<minted, cookies, storage>> /\ reqs[q].at # "refreshing"
        BY <1>15 DEF NoRefresh, SetTab, serverVars
  <2>4. /\ cookies' \in [access: {None} \cup Minted, refresh: {None} \cup Minted]
        /\ storage' \in {None} \cup Minted
        BY <2>3 DEF ClientTypes
  <2> QED BY <1>3, <2>1, <2>2, <2>3, <2>4, GoOn
<1>16. CASE Refreshed(q)
  <2> PICK w, j : w = [tabs[t] EXCEPT !.refreshing = FALSE] /\ j = calls[q].jti
      OBVIOUS
  <2>1. w \in Tab /\ ~w.refreshing
        BY <1>3 DEF Tab
  <2>2. tabs' = [tabs EXCEPT ![t] = w] /\ UNCHANGED minted
        BY <1>16 DEF Refreshed, SetTab, serverVars
  <2>3. \A p \in Requests : reqs'[p] = IF p \in Queued(t) \cup {q}
                                         THEN [reqs[p] EXCEPT !.at = "sent", !.token = j] ELSE reqs[p]
        BY <1>16 DEF Refreshed
  <2>4. \A p \in Requests : /\ [reqs[p] EXCEPT !.at = "sent", !.token = j] \in Request
                            /\ [reqs[p] EXCEPT !.at = "sent", !.token = j].at = "sent"
                            /\ [reqs[p] EXCEPT !.at = "sent", !.token = j].tab = reqs[p].tab
        BY <1>7 DEF ClientTypes, Request, Places
  <2>5. reqs' \in [Requests -> Request]
        BY <1>16, <2>3, <2>4 DEF Refreshed, ClientTypes
  <2>6. \A p \in Requests : \/ reqs'[p] = reqs[p] /\ (reqs[p].at = "queued" => reqs[p].tab # t)
                            \/ reqs[p].tab = t /\ reqs'[p].tab = t /\ reqs'[p].at # "queued"
        BY <2>3, <2>4 DEF TabOf, Queued
  <2>7. /\ cookies' \in [access: {None} \cup Minted, refresh: {None} \cup Minted]
        /\ storage' \in {None} \cup Minted
        BY <1>7, <1>16 DEF Refreshed, Store
  <2> QED BY <1>3, <2>1, <2>2, <2>5, <2>6, <2>7, Reset
<1>17. CASE RefreshFailed(q)
  <2> PICK w : w = [tabs[t] EXCEPT !.refreshing = FALSE, !.page = "leaving"]
      OBVIOUS
  <2>1. w \in Tab /\ ~w.refreshing
        BY <1>3 DEF Tab, Pages
  <2>2. tabs' = [tabs EXCEPT ![t] = w] /\ UNCHANGED <<minted, storage>>
        BY <1>17 DEF RefreshFailed, SetTab, serverVars
  <2>3. \A p \in Requests : reqs'[p] = IF p \in Queued(t) \cup {q} THEN Done(p) ELSE reqs[p]
        BY <1>17 DEF RefreshFailed
  <2>4. reqs' \in [Requests -> Request]
        BY <1>17, <2>3, DoneType DEF RefreshFailed, ClientTypes
  <2>5. \A p \in Requests : \/ reqs'[p] = reqs[p] /\ (reqs[p].at = "queued" => reqs[p].tab # t)
                            \/ reqs[p].tab = t /\ reqs'[p].tab = t /\ reqs'[p].at # "queued"
        BY <2>3, DoneType DEF TabOf, Queued
  <2>6. /\ cookies' \in [access: {None} \cup Minted, refresh: {None} \cup Minted]
        /\ storage' \in {None} \cup Minted
        BY <1>17, <2>2 DEF RefreshFailed, NoCookies, ClientTypes
  <2> QED BY <1>3, <2>1, <2>2, <2>4, <2>5, <2>6, Reset
<1>18. CASE SignedIn(q)
  <2> PICK w, v : /\ w = [tabs[t] EXCEPT !.page = IF @ = "login" THEN "app" ELSE @]
                  /\ v = Done(q)
      OBVIOUS
  <2>1. /\ w \in Tab /\ w.refreshing = tabs[t].refreshing /\ w.jammed = tabs[t].jammed
        /\ tabs[t].page = "leaving" => w.page = "leaving"
        BY <1>3 DEF Tab, Pages
  <2>2. reqs' = [reqs EXCEPT ![q] = v] /\ tabs' = [tabs EXCEPT ![t] = w]
        /\ UNCHANGED minted /\ reqs[q].at # "refreshing"
        BY <1>18 DEF SignedIn, SetTab, Settled, serverVars
  <2>3. /\ cookies' \in [access: {None} \cup Minted, refresh: {None} \cup Minted]
        /\ storage' \in {None} \cup Minted
        BY <1>7, <1>18 DEF SignedIn, Store
  <2> QED BY <1>3, <1>4, <2>1, <2>2, <2>3, GoOn
<1> QED BY <1>10, <1>11, <1>12, <1>13, <1>14, <1>15, <1>16, <1>17, <1>18 DEF Settle

-----------------------------------------------------------------------------
(* The invariant holds.                                                    *)

LEMMA InitHolds == Init => ServerInv /\ ClientTypes /\ QueueInv /\ AskedOnce
<1> SUFFICES ASSUME Init PROVE ServerInv /\ ClientTypes /\ QueueInv /\ AskedOnce
    OBVIOUS
<1>1. \A p \in {"login", "app"} : NewTab(p) \in Tab /\ ~NewTab(p).refreshing
      BY DEF NewTab, Tab, Pages
<1>2. tabs \in [Tabs -> Tab] /\ \A t \in Tabs : ~tabs[t].refreshing
      BY <1>1 DEF Init
<1>3. reqs \in [Requests -> Request] /\ \A q \in Requests : reqs[q].at = "idle"
      BY DEF Init, Request, Places
<1>4. QueueInv
      BY <1>2, <1>3 DEF QueueInv, Flagged, Waiting
<1>5. ServerInv
      BY ServerStarts DEF Init
<1>6. minted # <<>> => 1 \in Minted
  <2>1. minted # <<>> => \E r \in Rows : minted = <<r>>
        BY DEF Init, ServerInit
  <2> QED BY <2>1 DEF Minted
<1>7. ClientTypes
  <2>1. \A j \in {None} \cup Minted : [access |-> j, refresh |-> j] \in
          [access: {None} \cup Minted, refresh: {None} \cup Minted]
        OBVIOUS
  <2>2. /\ cookies \in [access: {None} \cup Minted, refresh: {None} \cup Minted]
        /\ storage \in {None} \cup Minted
        BY <1>6, <2>1 DEF Init, NoCookies
  <2> QED BY <1>2, <1>3, <2>2 DEF ClientTypes
<1>8. AskedOnce
  <2>1. \A q \in Requests : calls[q].at = "idle"
        BY WebClientAssumption DEF Init, ServerInit, Idle
  <2> QED BY <1>3, <2>1 DEF AskedOnce
<1> QED BY <1>4, <1>5, <1>7, <1>8

LEMMA GrownTypes == ASSUME ClientTypes, QueueInv, UNCHANGED clientVars, Minted \subseteq Minted'
                    PROVE  ClientTypes' /\ QueueInv'
<1>1. UNCHANGED <<cookies, storage, tabs, reqs>>
      BY DEF clientVars
<1>2. /\ cookies \in [access: {None} \cup Minted', refresh: {None} \cup Minted']
      /\ storage \in {None} \cup Minted'
      BY DEF ClientTypes
<1>3. ClientTypes'
      BY <1>1, <1>2 DEF ClientTypes
<1>4. QueueInv'
      BY <1>1 DEF QueueInv, Flagged, TabOf
<1> QED BY <1>3, <1>4

\* Each step of server and device is one of the server by itself, or none of its.
LEMMA ImplementsStep ==
  ASSUME ServerInv, ClientTypes, AskedOnce, [Next]_vars PROVE [ServerNext]_serverVars
<1>1. CASE UNCHANGED vars
      BY <1>1 DEF vars
<1>2. ASSUME NEW t \in Tabs, SignOut(t) \/ Leave(t) PROVE [ServerNext]_serverVars
      BY <1>2 DEF SignOut, Leave
<1> QED BY <1>1, <1>2, ServerStep, ClientServer DEF Next

LEMMA NextHolds ==
  ASSUME ServerInv, ClientTypes, QueueInv, AskedOnce, [Next]_vars
  PROVE  ServerInv' /\ ClientTypes' /\ QueueInv' /\ AskedOnce'
<1>1. ServerInv' /\ Minted \subseteq Minted'
      BY ImplementsStep, ServerGoesOn
<1>2. AskedOnce'
      BY AskedOnceStep DEF ServerInv
<1>3. CASE Server
      BY <1>1, <1>2, <1>3, ServerStep, GrownTypes
<1>4. ASSUME NEW t \in Tabs, SignOut(t) \/ Leave(t) PROVE ClientTypes' /\ QueueInv'
      BY <1>4, TabSteps DEF SignOut, Leave
<1>5. ASSUME NEW t \in Tabs, NEW q \in Requests, Send(q, t) \/ SignIn(q, t)
      PROVE  ClientTypes' /\ QueueInv'
      BY <1>5, TabSteps, ClientServer
<1>6. ASSUME NEW q \in Requests, Settle(q) PROVE ClientTypes' /\ QueueInv'
      BY <1>6, SettleSteps, ClientServer
<1>7. CASE UNCHANGED vars
  <2>1. UNCHANGED clientVars
        BY <1>7 DEF vars
  <2>2. ClientTypes' /\ QueueInv'
        BY <1>1, <2>1, GrownTypes
  <2> QED BY <1>1, <1>2, <2>2
<1> QED BY <1>1, <1>2, <1>3, <1>4, <1>5, <1>6, <1>7 DEF Next

LEMMA Inductive == Spec => [](ServerInv /\ ClientTypes /\ QueueInv /\ AskedOnce)
<1> QED BY InitHolds, NextHolds, PTL DEF Spec

\* The tabs and the other devices are clients like any: what the whole system does to the
\* server, the server by itself does (each request of a tab posts one refresh at most, with
\* a token that was minted).
THEOREM ImplementsServer == Spec => ServerSpec
<1>1. Init => ServerInit
      BY DEF Init
<1> QED BY <1>1, ImplementsStep, Inductive, PTL DEF Spec, ServerSpec

\* Every variable keeps to the values the code gives it: the device holds no token that
\* was not minted, a row none that was minted for another.
THEOREM TypeCorrect == Spec => []TypeOK
<1>1. ServerInv /\ ClientTypes => TypeOK
      BY DEF ServerInv, ClientTypes, TypeOK
<1> QED BY <1>1, Inductive, PTL

\* Whatever the calls of the tabs and of other devices, and wherever they are cut off, a
\* session has at most one usable access token, its current one, and a revoked one none,
\* but for the causes OneLiveToken names.
THEOREM TokenCorrect == Spec => []OneLiveToken
<1> QED BY ImplementsServer, ServerTokenCorrect, PTL

\* With any number of tabs and requests, a request waits in failedQueue only while its tab
\* refreshes or its page is about to go, or in a tab that a refused sign-in jammed.
THEOREM QueueCorrect == Spec => []QueueHasOwner
<1>1. QueueInv => QueueHasOwner
  <2> SUFFICES ASSUME QueueInv, NEW q \in Requests, reqs[q].at = "queued"
               PROVE  \/ \E p \in Requests : reqs[p].at = "refreshing" /\ TabOf(p) = TabOf(q)
                      \/ tabs[TabOf(q)].page = "leaving"
                      \/ tabs[TabOf(q)].jammed
      BY DEF QueueHasOwner
  <2>1. TabOf(q) \in Tabs /\ tabs[TabOf(q)].refreshing
        BY DEF QueueInv, Waiting
  <2> QED BY <2>1 DEF QueueInv, Flagged
<1> QED BY <1>1, Inductive, PTL

-----------------------------------------------------------------------------
(* Why a refresh fails.  A token the server no longer knows was read by the  *)
(* refresh that replaced it; the cookie gives that token up with the answer,  *)
(* so that only another tab, or a page since gone, can have sent it as well.  *)

\* A refresh has read the session that holds j, which it goes on to replace.
Spent(k, j) == k.op = "refresh" /\ j \in k.seen

Asks == {"refresh", "reuse"}

Held == {"refreshing", "gone"}

\* A refresh is asked for once, by a request that waits for it until its page goes.
AskGood(k, r) ==
  /\ r.at = "idle" => ~r.retry
  /\ r.at = "refreshing" => k.op \in Asks
  /\ k.op = "login" => k.at # "list"
  /\ k.op \in {"login"} \cup Asks
  /\ k.op \in Asks => r.retry /\ k.jti \in Minted
  /\ k.op \in Asks /\ k.at \in Running => r.at \in Held
  /\ k.op = "refresh" /\ k.at \in {"start", "refused"} => k.seen = {}
  /\ k.op = "refresh" /\ k.at \in {"list", "rotate"} => k.seen = {k.jti}

\* What the answer of the server says of the row.
AnswerGood(k) ==
  /\ k.op = "reuse" => ~sessions[minted[k.jti]].active
  /\ k.op = "refresh" /\ k.at = "refused" => sessions[minted[k.jti]].jti # k.jti

\* A token is replaced by the refresh that was given it, or the row is marked.
ReplacedBy ==
  \A j \in Minted : sessions[minted[j]].jti # j =>
    minted[j] \in stale \/ \E p \in Requests : Spent(calls[p], j)

\* The token on its way to a request is nowhere else.
Fresh(q) ==
  reqs[q].at \in {"refreshing", "signing"} /\ calls[q].at = "done" =>
    /\ calls[q].jti \in Minted /\ calls[q].jti # cookies.refresh
    /\ \A p \in Requests : ~Spent(calls[p], calls[q].jti)
    /\ \A p \in Requests \ {q} : calls[p].jti # calls[q].jti

\* A token that was replaced is no longer in the cookie once the answer has come.
Dropped ==
  \A p \in Requests : reqs[p].at \notin Held => ~Spent(calls[p], cookies.refresh)

\* A tab has one refresh at a time, and a second one of a token finds the first gone.
OneByOne ==
  \A p, q \in Requests :
    reqs[p].at = "refreshing" =>
      /\ tabs[TabOf(p)].refreshing
      /\ reqs[q].at = "refreshing" /\ TabOf(p) = TabOf(q) => p = q
      /\ calls[p].op = "refresh" /\ calls[p].at \in {"start", "refused"} /\ TabOf(p) = TabOf(q) =>
           (Spent(calls[q], calls[p].jti) => reqs[q].at = "gone")

RefreshInv ==
  /\ \A q \in Requests : AskGood(calls[q], reqs[q]) /\ AnswerGood(calls[q]) /\ Fresh(q)
  /\ \A c \in Calls \ Requests : calls[c].op \notin Asks
  /\ ReplacedBy
  /\ Dropped
  /\ OneByOne

-----------------------------------------------------------------------------
(* The calls of the server.                                                *)

\* What a step of the server makes of the call of a request that mints no token.
Moved(k, m) ==
  /\ m.jti = k.jti /\ m.at # "done"
  /\ m.op = k.op \/ (k.op = "refresh" /\ k.seen = {} /\ m.op = "reuse")
  /\ m.at \in Running => k.at \in Running
  /\ m.op = "login" => m.at # "list"
  /\ m.op = "refresh" =>
       /\ m.at = "start" => FALSE
       /\ m.at = "refused" => k.at = "start" /\ m.seen = {}
       /\ m.at \in {"list", "rotate"} => m.seen = {m.jti}
       /\ m.seen = k.seen \/ (k.at = "start" /\ m.seen = {m.jti})

\* Calls go on, no token is minted and no row gets another.
LEMMA CallsMove ==
  ASSUME ServerInv, ClientTypes, RefreshInv,
         UNCHANGED <<minted, cookies, storage, tabs, reqs>>, stale \subseteq stale',
         \A r \in Rows : /\ sessions'[r].jti = sessions[r].jti
                         /\ sessions'[r].active => sessions[r].active,
         \A c \in Calls \ Requests : calls'[c].op \notin Asks,
         \A p \in Requests : \/ calls'[p] = calls[p]
                             \/ Moved(calls[p], calls'[p]) /\ AnswerGood(calls'[p])
  PROVE  RefreshInv'
<1>1. \A j \in Minted : minted[j] \in Rows
      BY MintedTokens DEF ServerInv
<1>2. \A p \in Requests : AskGood(calls[p], reqs[p]) /\ AnswerGood(calls[p]) /\ Fresh(p)
      BY DEF RefreshInv
<1>3. \A p \in Requests : calls'[p].jti = calls[p].jti
      BY DEF Moved
<1>4. \A p \in Requests : \A j : Spent(calls[p], j) => Spent(calls'[p], j)
      BY <1>2 DEF Moved, Spent, AskGood
<1>5. \A p \in Requests : \A j : Spent(calls'[p], j) =>
        \/ Spent(calls[p], j)
        \/ j = calls[p].jti /\ calls'[p].at # "done" /\ reqs[p].at \in Held
      BY <1>2 DEF Moved, Spent, AskGood, Asks, Running
<1>6. \A p \in Requests : AskGood(calls'[p], reqs[p])
      BY <1>2 DEF Moved, AskGood, Asks, Running
<1>7. \A p \in Requests : AskGood(calls[p], reqs[p])'
      BY <1>6 DEF AskGood, Minted
<1>8. ASSUME NEW p \in Requests PROVE AnswerGood(calls[p])'
  <2>1. AnswerGood(calls'[p])
        BY <1>2
  <2>2. calls'[p].op \in Asks => calls'[p].jti \in Minted
        BY <1>6 DEF AskGood
  <2> QED BY <1>1, <2>1, <2>2 DEF AnswerGood, Asks
<1>9. ASSUME NEW q \in Requests PROVE Fresh(q)'
  <2> SUFFICES ASSUME reqs[q].at \in {"refreshing", "signing"}, calls'[q].at = "done"
               PROVE  /\ calls'[q].jti \in Minted' /\ calls'[q].jti # cookies.refresh
                      /\ \A p \in Requests : ~Spent(calls'[p], calls'[q].jti)
                      /\ \A p \in Requests \ {q} : calls'[p].jti # calls'[q].jti
      BY DEF Fresh, Spent
  <2>1. calls'[q] = calls[q]
        BY DEF Moved
  <2>2. /\ calls[q].jti \in Minted /\ calls[q].jti # cookies.refresh
        /\ \A p \in Requests : ~Spent(calls[p], calls[q].jti)
        /\ \A p \in Requests \ {q} : calls[p].jti # calls[q].jti
        BY <1>2, <2>1 DEF Fresh
  <2>3. \A p \in Requests : ~Spent(calls'[p], calls'[q].jti)
        BY <1>5, <2>1, <2>2
  <2>4. Minted' = Minted
        BY DEF Minted
  <2> QED BY <1>3, <2>1, <2>2, <2>3, <2>4
<1>10. ReplacedBy'
  <2> SUFFICES ASSUME NEW j \in Minted, sessions'[minted[j]].jti # j
               PROVE  minted[j] \in stale' \/ \E p \in Requests : Spent(calls'[p], j)
      BY DEF ReplacedBy, Minted, Spent
  <2>1. minted[j] \in stale \/ \E p \in Requests : Spent(calls[p], j)
        BY <1>1 DEF RefreshInv, ReplacedBy
  <2> QED BY <1>4, <2>1
<1>11. \A p \in Requests : reqs[p].at \notin Held => ~Spent(calls'[p], cookies.refresh)
      BY <1>5 DEF RefreshInv, Dropped
<1>12. Dropped'
      BY <1>11 DEF Dropped, Spent
<1>13. ASSUME NEW p \in Requests, NEW q \in Requests, reqs[p].at = "refreshing"
       PROVE  /\ tabs[TabOf(p)].refreshing
              /\ reqs[q].at = "refreshing" /\ TabOf(p) = TabOf(q) => p = q
              /\ calls'[p].op = "refresh" /\ calls'[p].at \in {"start", "refused"} /\ TabOf(p) = TabOf(q) =>
                   (Spent(calls'[q], calls'[p].jti) => reqs[q].at = "gone")
  <2>1. /\ tabs[TabOf(p)].refreshing
        /\ reqs[q].at = "refreshing" /\ TabOf(p) = TabOf(q) => p = q
        /\ calls[p].op = "refresh" /\ calls[p].at \in {"start", "refused"} /\ TabOf(p) = TabOf(q) =>
             (Spent(calls[q], calls[p].jti) => reqs[q].at = "gone")
        BY <1>13 DEF RefreshInv, OneByOne
  <2>2. calls'[p].op = "refresh" /\ calls'[p].at \in {"start", "refused"} =>
          calls[p].op = "refresh" /\ calls[p].at \in {"start", "refused"} /\ calls'[p].seen = {}
        BY <1>6 DEF Moved, AskGood
  <2>3. calls'[p].op = "refresh" /\ calls'[p].at \in {"start", "refused"} /\ p = q =>
          ~Spent(calls'[q], calls'[p].jti)
        BY <2>2 DEF Spent
  <2> QED BY <1>3, <1>5, <2>1, <2>2, <2>3 DEF Held
<1>14. OneByOne'
      BY <1>13 DEF OneByOne, Spent, TabOf
<1> QED BY <1>7, <1>8, <1>9, <1>10, <1>12, <1>14 DEF RefreshInv

\* A call mints token n for row r.
LEMMA Minting ==
  ASSUME ServerInv, ClientTypes, RefreshInv, NEW c \in Calls, NEW r \in Rows, NEW n,
         UNCHANGED <<cookies, storage, tabs, reqs>>, stale \subseteq stale',
         Minted' = Minted \cup {n}, minted'[n] = r, n \notin {None} \cup Minted,
         \A j \in Minted : minted'[j] = minted[j],
         calls[c].op \in {"login", "refresh"},
         \A p \in Calls : /\ calls'[p].op = calls[p].op /\ calls'[p].seen = calls[p].seen
                          /\ p # c => calls'[p] = calls[p]
                          /\ p = c => calls'[p].at = "done" /\ calls'[p].jti = n,
         \A x \in Rows : x # r => sessions'[x] = sessions[x],
         sessions'[r].jti = n,
         sessions'[r].active => sessions[r].active \/ sessions[r].jti = None,
         sessions[r].jti # None =>
           r \in stale' \/ (c \in Requests /\ Spent(calls[c], sessions[r].jti))
  PROVE  RefreshInv'
<1>1. /\ \A j \in Minted : minted[j] \in Rows /\ minted'[j] = minted[j]
      /\ Minted' = Minted \cup {n} /\ minted'[n] = r /\ n \notin {None} \cup Minted
      /\ None \notin Minted
      BY MintedTokens DEF ServerInv
<1>2. \A p \in Requests : AskGood(calls[p], reqs[p]) /\ AnswerGood(calls[p]) /\ Fresh(p)
      BY DEF RefreshInv
<1>3. \A p \in Requests : p \in Calls /\ calls[p] \in Call /\ calls[p].jti \in {None} \cup Minted
                          /\ calls[p].seen \subseteq Minted
      BY WebClientAssumption DEF ServerInv, CallGood, Well
<1>4. \A p \in Calls : /\ calls'[p].op = calls[p].op /\ calls'[p].seen = calls[p].seen
                       /\ p # c => calls'[p] = calls[p]
                       /\ p = c => calls'[p].at = "done" /\ calls'[p].jti = n
      OBVIOUS
<1>5. \A p \in Requests : \A j : Spent(calls'[p], j) <=> Spent(calls[p], j)
      BY <1>3, <1>4 DEF Spent
<1>6. \A p \in Requests : ~Spent(calls[p], n)
      BY <1>1, <1>3 DEF Spent
<1>7. ASSUME NEW p \in Requests PROVE AskGood(calls[p], reqs[p])'
  <2>1. CASE p = c
    <3>1. calls'[p].op = calls[p].op /\ calls'[p].at = "done" /\ calls'[p].jti \in Minted'
          BY <1>1, <1>3, <1>4, <2>1
    <3> QED BY <1>2, <3>1 DEF AskGood, Running
  <2>2. CASE p # c
        BY <1>1, <1>2, <1>3, <1>4, <2>2 DEF AskGood
  <2> QED BY <2>1, <2>2
<1>8. ASSUME NEW p \in Requests PROVE AnswerGood(calls[p])'
  <2>1. CASE p = c
        BY <1>3, <1>4, <2>1 DEF AnswerGood
  <2>2. CASE p # c
    <3>1. calls'[p] = calls[p] /\ AnswerGood(calls[p]) /\ (calls[p].op \in Asks => calls[p].jti \in Minted)
          BY <1>2, <1>3, <1>4, <2>2 DEF AskGood
    <3>2. calls[p].op \in Asks => calls[p].jti # n /\ sessions[minted[calls[p].jti]].jti # None
          BY <1>1, <3>1 DEF ServerInv, RowsGood
    <3> QED BY <1>1, <3>1, <3>2 DEF AnswerGood, Asks
  <2> QED BY <2>1, <2>2
<1>9. ASSUME NEW q \in Requests PROVE Fresh(q)'
  <2> SUFFICES ASSUME reqs[q].at \in {"refreshing", "signing"}, calls'[q].at = "done"
               PROVE  /\ calls'[q].jti \in Minted' /\ calls'[q].jti # cookies.refresh
                      /\ \A p \in Requests : ~Spent(calls'[p], calls'[q].jti)
                      /\ \A p \in Requests \ {q} : calls'[p].jti # calls'[q].jti
      BY DEF Fresh, Spent
  <2>1. cookies.refresh \in {None} \cup Minted
        BY DEF ClientTypes
  <2>2. CASE q = c
        BY <1>1, <1>3, <1>4, <1>5, <1>6, <2>1, <2>2
  <2>3. CASE q # c
        BY <1>1, <1>2, <1>3, <1>4, <1>5, <2>3 DEF Fresh
  <2> QED BY <2>2, <2>3
<1>10. ASSUME NEW j \in Minted', sessions'[minted'[j]].jti # j
       PROVE  minted'[j] \in stale' \/ \E p \in Requests : Spent(calls'[p], j)
  <2>1. j \in Minted /\ minted'[j] = minted[j] /\ minted[j] \in Rows
        BY <1>1, <1>10
  <2>2. CASE sessions[minted[j]].jti = j
        BY <1>1, <1>4, <1>5, <1>10, <2>1, <2>2
  <2>3. CASE sessions[minted[j]].jti # j
        BY <1>5, <2>1, <2>3 DEF RefreshInv, ReplacedBy
  <2> QED BY <2>2, <2>3
<1>11. ReplacedBy'
      BY <1>10 DEF ReplacedBy, Spent
<1>12. \A p \in Requests : reqs[p].at \notin Held => ~Spent(calls'[p], cookies.refresh)
      BY <1>5 DEF RefreshInv, Dropped
<1>13. Dropped'
      BY <1>12 DEF Dropped, Spent
<1>14. ASSUME NEW p \in Requests, NEW q \in Requests, reqs[p].at = "refreshing"
       PROVE  /\ tabs[TabOf(p)].refreshing
              /\ reqs[q].at = "refreshing" /\ TabOf(p) = TabOf(q) => p = q
              /\ calls'[p].op = "refresh" /\ calls'[p].at \in {"start", "refused"} /\ TabOf(p) = TabOf(q) =>
                   (Spent(calls'[q], calls'[p].jti) => reqs[q].at = "gone")
      BY <1>3, <1>4, <1>5, <1>14 DEF RefreshInv, OneByOne
<1>15. OneByOne'
      BY <1>14 DEF OneByOne, Spent, TabOf
<1>16. \A x \in Calls \ Requests : calls'[x].op \notin Asks
      BY <1>4 DEF RefreshInv
<1> QED BY <1>7, <1>8, <1>9, <1>11, <1>13, <1>15, <1>16 DEF RefreshInv

-----------------------------------------------------------------------------
(* The requests and the tabs.                                              *)

\* The server stays as it is and no refresh begins: the requests and tabs go on.
LEMMA ClientMove ==
  ASSUME ServerInv, ClientTypes, RefreshInv, UNCHANGED serverVars,
         \A p \in Requests :
           /\ reqs[p].retry => reqs'[p].retry /\ reqs'[p].tab = reqs[p].tab
           /\ reqs'[p].at = "idle" => reqs'[p] = reqs[p]
           /\ reqs'[p].at \in {"refreshing", "signing"} =>
                reqs'[p].at = reqs[p].at /\ reqs'[p].tab = reqs[p].tab
           /\ reqs[p].at = "gone" => reqs'[p].at = "gone"
           /\ reqs[p].at = "refreshing" => reqs'[p].at \in Held \/ calls[p].at \notin Running
           /\ reqs'[p].at = "refreshing" => tabs'[reqs[p].tab].refreshing
           /\ reqs'[p].at \notin Held => ~Spent(calls[p], cookies'.refresh)
           /\ reqs'[p].at \in {"refreshing", "signing"} /\ calls[p].at = "done" =>
                cookies'.refresh # calls[p].jti
  PROVE  RefreshInv'
<1>1. UNCHANGED <<sessions, minted, calls, stale>> /\ UNCHANGED Minted
      BY DEF serverVars, Minted
<1>2. \A p \in Requests : AskGood(calls[p], reqs[p]) /\ AnswerGood(calls[p]) /\ Fresh(p)
      BY DEF RefreshInv
<1>3. \A p \in Requests : AskGood(calls[p], reqs'[p])
      BY <1>2 DEF AskGood, Held
<1>4. \A p \in Requests : AskGood(calls[p], reqs[p])' /\ AnswerGood(calls[p])'
      BY <1>1, <1>2, <1>3 DEF AskGood, AnswerGood
<1>5. ASSUME NEW q \in Requests PROVE Fresh(q)'
  <2>1. Fresh(q)
        BY <1>2
  <2>2. reqs'[q].at \in {"refreshing", "signing"} /\ calls[q].at = "done" =>
          /\ calls[q].jti \in Minted' /\ calls[q].jti # cookies'.refresh
          /\ \A p \in Requests : ~Spent(calls[p], calls[q].jti)
          /\ \A p \in Requests \ {q} : calls[p].jti # calls[q].jti
        BY <1>1, <2>1 DEF Fresh
  <2> QED BY <1>1, <2>2 DEF Fresh, Spent
<1>6. ReplacedBy'
      BY <1>1 DEF RefreshInv, ReplacedBy, Spent
<1>7. Dropped'
      BY <1>1 DEF Dropped, Spent
<1>8. ASSUME NEW p \in Requests, NEW q \in Requests, reqs'[p].at = "refreshing"
       PROVE  /\ tabs'[reqs'[p].tab].refreshing
              /\ reqs'[q].at = "refreshing" /\ reqs'[p].tab = reqs'[q].tab => p = q
              /\ calls[p].op = "refresh" /\ calls[p].at \in {"start", "refused"}
                 /\ reqs'[p].tab = reqs'[q].tab =>
                   (Spent(calls[q], calls[p].jti) => reqs'[q].at = "gone")
  <2>1. reqs[p].at = "refreshing" /\ reqs'[p].tab = reqs[p].tab
        BY <1>8
  <2>2. /\ reqs[q].at = "refreshing" /\ reqs[p].tab = reqs[q].tab => p = q
        /\ calls[p].op = "refresh" /\ calls[p].at \in {"start", "refused"} /\ reqs[p].tab = reqs[q].tab =>
             (Spent(calls[q], calls[p].jti) => reqs[q].at = "gone")
        BY <2>1 DEF RefreshInv, OneByOne, TabOf
  <2>3. \A j : Spent(calls[q], j) => reqs'[q].tab = reqs[q].tab
        BY <1>2 DEF AskGood, Spent, Asks
  <2> QED BY <1>8, <2>1, <2>2, <2>3
<1>9. OneByOne'
      BY <1>1, <1>8 DEF OneByOne, Spent, TabOf
<1> QED BY <1>1, <1>4, <1>5, <1>6, <1>7, <1>9 DEF RefreshInv

\* One call goes on as k.
LEMMA OneMoves ==
  ASSUME ServerInv, ClientTypes, RefreshInv, NEW c \in Calls, NEW k,
         calls' = [calls EXCEPT ![c] = k],
         UNCHANGED <<minted, cookies, storage, tabs, reqs>>, stale \subseteq stale',
         \A r \in Rows : /\ sessions'[r].jti = sessions[r].jti
                         /\ sessions'[r].active => sessions[r].active,
         c \notin Requests => k.op \notin Asks,
         c \in Requests => Moved(calls[c], k) /\ AnswerGood(k)
  PROVE  RefreshInv'
<1>1. \A x \in Calls : calls'[x] = IF x = c THEN k ELSE calls[x]
      BY DEF ServerInv, ServerTypeOK
<1>2. Requests \subseteq Calls
      BY WebClientAssumption
<1>3. \A x \in Calls \ Requests : calls'[x].op \notin Asks
      BY <1>1 DEF RefreshInv
<1>4. \A p \in Requests : calls'[p] = calls[p] \/ (Moved(calls[p], calls'[p]) /\ AnswerGood(calls'[p]))
      BY <1>1, <1>2
<1> QED BY <1>3, <1>4, CallsMove

\* The same for a call that keeps its task and its token, and has read what it reads.
LEMMA OneGoesOn ==
  ASSUME ServerInv, ClientTypes, RefreshInv, NEW c \in Calls, NEW k,
         calls' = [calls EXCEPT ![c] = k],
         UNCHANGED <<minted, cookies, storage, tabs, reqs>>, stale \subseteq stale',
         \A r \in Rows : /\ sessions'[r].jti = sessions[r].jti
                         /\ sessions'[r].active => sessions[r].active,
         k.op = calls[c].op, k.jti = calls[c].jti, k.at # "done",
         k.at \in Running => calls[c].at \in Running,
         c \in Requests /\ k.op = "login" => k.at # "list",
         k.op = "refresh" => /\ k.at \in {"list", "rotate", "lost"} /\ k.seen = calls[c].seen
                             /\ k.at \in Running => calls[c].at \in {"list", "rotate"}
  PROVE  RefreshInv'
<1>1. c \notin Requests => k.op \notin Asks
      BY DEF RefreshInv
<1>2. c \in Requests => AskGood(calls[c], reqs[c]) /\ AnswerGood(calls[c])
      BY DEF RefreshInv
<1>3. c \in Requests => Moved(calls[c], k)
      BY <1>2 DEF Moved, AskGood, Running
<1>4. c \in Requests => AnswerGood(k)
      BY <1>2 DEF AnswerGood
<1> QED BY <1>1, <1>3, <1>4, OneMoves

LEMMA AskedByRequest ==
  ASSUME ServerInv, RefreshInv, NEW c \in Calls
  PROVE  /\ calls[c] \in Call
         /\ calls[c].op \in Asks => c \in Requests
         /\ calls[c].op \in Asks => calls[c].jti \in Minted /\ AskGood(calls[c], reqs[c])
<1>1. calls[c] \in Call
      BY DEF ServerInv, ServerTypeOK
<1>2. calls[c].op \in Asks => c \in Requests
      BY DEF RefreshInv
<1> QED BY <1>1, <1>2 DEF RefreshInv, AskGood

LEMMA FindByJtiAsks ==
  ASSUME ServerInv, ClientTypes, RefreshInv, NEW c \in Calls, FindByJti(c), UNCHANGED clientVars
  PROVE  RefreshInv'
<1> PICK j : j = calls[c].jti
    OBVIOUS
<1>1. /\ calls[c].op = "refresh" /\ calls[c].at = "start" /\ calls[c] \in Call
      /\ c \in Requests /\ j \in Minted /\ calls[c].seen = {} /\ reqs[c].at \in Held
      BY AskedByRequest DEF FindByJti, AskGood, Asks, Running
<1>2. UNCHANGED <<sessions, minted, cookies, storage, tabs, reqs, stale>>
      BY DEF FindByJti, clientVars
<1>3. ASSUME NEW k, calls' = [calls EXCEPT ![c] = k], Moved(calls[c], k), AnswerGood(k)
      PROVE  RefreshInv'
      BY <1>1, <1>2, <1>3, OneMoves
<1>4. CASE sessions[minted[j]].jti # j /\ Goto(c, "refused")
  <2> PICK k : k = [calls[c] EXCEPT !.at = "refused"]
      OBVIOUS
  <2>1. k.op = "refresh" /\ k.at = "refused" /\ k.jti = j /\ k.seen = {}
        BY <1>1 DEF Call
  <2>2. calls' = [calls EXCEPT ![c] = k]
        BY <1>4 DEF Goto, ServerInv, ServerTypeOK
  <2> QED BY <1>1, <1>3, <1>4, <2>1, <2>2 DEF Moved, AnswerGood, Running
<1>5. CASE ~sessions[minted[j]].active /\ Give(c, "reuse", j)
  <2> PICK k : k = [Idle EXCEPT !.op = "reuse", !.jti = j, !.at = "start"]
      OBVIOUS
  <2>1. k.op = "reuse" /\ k.at = "start" /\ k.jti = j
        BY DEF Idle
  <2>2. calls' = [calls EXCEPT ![c] = k]
        BY <1>5 DEF Give
  <2> QED BY <1>1, <1>3, <1>5, <2>1, <2>2 DEF Moved, AnswerGood, Running
<1>6. CASE Read(c, "list", {j})
  <2> PICK k : k = [calls[c] EXCEPT !.at = "list", !.seen = {j}, !.todo = {j}]
      OBVIOUS
  <2>1. k.op = "refresh" /\ k.at = "list" /\ k.jti = j /\ k.seen = {j}
        BY <1>1 DEF Call
  <2>2. calls' = [calls EXCEPT ![c] = k]
        BY <1>6 DEF Read, ServerInv, ServerTypeOK
  <2> QED BY <1>1, <1>3, <2>1, <2>2 DEF Moved, AnswerGood, Running
<1> QED BY <1>4, <1>5, <1>6 DEF FindByJti

LEMMA LoginMints ==
  ASSUME ServerInv, ClientTypes, RefreshInv, NEW c \in Calls, Login(c), UNCHANGED clientVars
  PROVE  RefreshInv'
<1> PICK n : n = Len(minted) + 1
    OBVIOUS
<1>1. PICK r \in Rows : /\ sessions[r] = NoSession
                        /\ sessions' = [sessions EXCEPT ![r] = [jti |-> n, active |-> TRUE]]
                        /\ minted' = Append(minted, r)
      BY DEF Login
<1>2. /\ calls[c].op = "login" /\ CanMint
      /\ calls' = [calls EXCEPT ![c].at = "done", ![c].jti = n]
      /\ UNCHANGED <<cookies, storage, tabs, reqs, stale>>
      BY DEF Login, clientVars
<1>3. /\ n \notin {None} \cup Minted /\ Minted' = Minted \cup {n} /\ minted'[n] = r
      /\ \A j \in Minted : minted'[j] = minted[j]
      BY <1>1, <1>2, Appended
<1>4. \A p \in Calls : /\ calls'[p].op = calls[p].op /\ calls'[p].seen = calls[p].seen
                       /\ p # c => calls'[p] = calls[p]
                       /\ p = c => calls'[p].at = "done" /\ calls'[p].jti = n
      BY <1>2 DEF ServerInv, ServerTypeOK, Call
<1>5. /\ \A x \in Rows : x # r => sessions'[x] = sessions[x]
      /\ sessions'[r].jti = n /\ sessions[r].jti = None
      BY <1>1 DEF ServerInv, ServerTypeOK, NoSession
<1>6. /\ UNCHANGED <<cookies, storage, tabs, reqs>> /\ calls[c].op \in {"login", "refresh"}
      /\ stale \subseteq stale'
      BY <1>2
<1>7. r \in Rows
      BY <1>1
<1> QED BY <1>3, <1>4, <1>5, <1>6, <1>7, Minting

LEMMA RotateMints ==
  ASSUME ServerInv, ClientTypes, RefreshInv, NEW c \in Calls, Rotate(c), UNCHANGED clientVars
  PROVE  RefreshInv'
<1> PICK n, r, j : n = Len(minted) + 1 /\ j = calls[c].jti /\ r = minted[j]
    OBVIOUS
<1>1. /\ calls[c].op = "refresh" /\ calls[c].at = "rotate"
      /\ c \in Requests /\ j \in Minted /\ calls[c].seen = {j} /\ r \in Rows
  <2>1. calls[c].at = "rotate" /\ calls[c].op = "refresh"
        BY DEF Rotate, ServerInv, CallGood, Duty
  <2> QED BY <2>1, AskedByRequest, MintedTokens DEF AskGood, Asks, ServerInv
<1>2. /\ CanMint /\ minted' = Append(minted, r)
      /\ sessions' = [sessions EXCEPT ![r].jti = n]
      /\ stale' = IF sessions[r] = [jti |-> j, active |-> TRUE] THEN stale ELSE stale \cup {r}
      /\ calls' = [calls EXCEPT ![c].at = "done", ![c].jti = n]
      /\ UNCHANGED <<cookies, storage, tabs, reqs>>
      BY DEF Rotate, clientVars
<1>3. /\ n \notin {None} \cup Minted /\ Minted' = Minted \cup {n} /\ minted'[n] = r
      /\ \A i \in Minted : minted'[i] = minted[i]
      BY <1>1, <1>2, Appended
<1>4. \A p \in Calls : /\ calls'[p].op = calls[p].op /\ calls'[p].seen = calls[p].seen
                       /\ p # c => calls'[p] = calls[p]
                       /\ p = c => calls'[p].at = "done" /\ calls'[p].jti = n
      BY <1>2 DEF ServerInv, ServerTypeOK, Call
<1>5. /\ \A x \in Rows : x # r => sessions'[x] = sessions[x]
      /\ sessions'[r].jti = n /\ sessions'[r].active = sessions[r].active
      BY <1>1, <1>2 DEF ServerInv, ServerTypeOK, Session
<1>6. stale \subseteq stale' /\ (r \in stale' \/ Spent(calls[c], sessions[r].jti))
      BY <1>1, <1>2 DEF Spent
<1>7. /\ UNCHANGED <<cookies, storage, tabs, reqs>> /\ calls[c].op \in {"login", "refresh"}
      /\ r \in Rows /\ c \in Requests
      BY <1>1, <1>2
<1> QED BY <1>3, <1>4, <1>5, <1>6, <1>7, Minting

\* The steps of a revocation, of a logout, and of whoever blacklists.
LEMMA RevokeMoves ==
  ASSUME ServerInv, ClientTypes, RefreshInv, NEW c \in Calls, UNCHANGED clientVars,
         \/ FindOne(c) \/ DeactivateOne(c) \/ FindActive(c) \/ DeactivateAll(c) \/ Logout(c)
         \/ Blacklist(c)
  PROVE  RefreshInv'
<1>1. calls[c] \in Call /\ UNCHANGED <<minted, cookies, storage, tabs, reqs>>
      BY AskedByRequest DEF clientVars, FindOne, DeactivateOne, FindActive, DeactivateAll, Logout,
         Blacklist
<1>2. /\ stale \subseteq stale'
      /\ \A r \in Rows : /\ sessions'[r].jti = sessions[r].jti
                         /\ sessions'[r].active => sessions[r].active
  <2>1. CASE UNCHANGED <<sessions, stale>>
        BY <2>1
  <2>2. CASE DeactivateOne(c)
        BY <2>2 DEF DeactivateOne, ServerInv, ServerTypeOK, Session
  <2>3. CASE DeactivateAll(c)
        BY <2>3 DEF DeactivateAll, ServerInv, ServerTypeOK, Session
  <2> QED BY <2>1, <2>2, <2>3 DEF FindOne, FindActive, Logout, Blacklist
<1>3. ASSUME NEW k, calls' = [calls EXCEPT ![c] = k], k.op = calls[c].op, k.jti = calls[c].jti,
             k.at # "done", k.at \in Running => calls[c].at \in Running,
             c \in Requests => k.op # "login",
             k.op = "refresh" => /\ k.at \in {"list", "rotate", "lost"} /\ k.seen = calls[c].seen
                                 /\ k.at \in Running => calls[c].at \in {"list", "rotate"}
      PROVE  RefreshInv'
      BY <1>1, <1>2, <1>3, OneGoesOn
<1>4. ASSUME calls[c].op \notin Asks, NEW k, calls' = [calls EXCEPT ![c] = k], k.op \notin Asks
      PROVE  RefreshInv'
  <2>1. calls[c].op \in {"revokeOne", "revokeAll", "logout"} => c \notin Requests
        BY DEF RefreshInv, AskGood, Asks
  <2>2. c \in Requests => calls[c].op \in {"revokeOne", "revokeAll", "logout"}
    <3>1. c \in Requests /\ calls[c].at = "list" => calls[c].op # "login"
          BY DEF RefreshInv, AskGood
    <3> QED BY <1>1, <1>4, <3>1 DEF FindOne, DeactivateOne, FindActive, DeactivateAll, Logout,
               Blacklist, Asks, Call, Ops
  <2> QED BY <1>1, <1>2, <1>4, <2>1, <2>2, OneMoves
<1>5. ASSUME NEW at, Goto(c, at)
      PROVE  calls' = [calls EXCEPT ![c] = [calls[c] EXCEPT !.at = at]]
      BY <1>5 DEF Goto, ServerInv, ServerTypeOK
<1>6. ASSUME NEW at, End(c, at), calls[c].op \notin Asks
      PROVE  RefreshInv'
  <2> PICK k : k = [Idle EXCEPT !.at = at]
      OBVIOUS
  <2>1. k.op = "login" /\ calls' = [calls EXCEPT ![c] = k]
        BY <1>6 DEF Idle, End
  <2> QED BY <1>4, <1>6, <2>1 DEF Asks
<1>7. ASSUME NEW at, Goto(c, at), calls[c].op \in {"revokeOne", "revokeAll", "logout", "reuse"},
             at \in {"list", "deactivate", "refused"},
             at \in Running => calls[c].at \in Running
      PROVE  RefreshInv'
  <2> PICK k : k = [calls[c] EXCEPT !.at = at]
      OBVIOUS
  <2>1. k.op = calls[c].op /\ k.jti = calls[c].jti /\ k.at = at /\ calls' = [calls EXCEPT ![c] = k]
        BY <1>1, <1>5, <1>7 DEF Call
  <2> QED BY <1>3, <1>7, <2>1
<1>8. ASSUME NEW at, NEW s, Read(c, at, s),
             calls[c].op \in {"revokeOne", "revokeAll", "logout", "reuse"},
             at \in {"list", "deactivate"}, calls[c].at \in Running
      PROVE  RefreshInv'
  <2> PICK k : k = [calls[c] EXCEPT !.at = at, !.seen = s, !.todo = s]
      OBVIOUS
  <2>1. k.op = calls[c].op /\ k.jti = calls[c].jti /\ k.at = at
        BY <1>1 DEF Call
  <2>2. calls' = [calls EXCEPT ![c] = k]
        BY <1>8 DEF Read, ServerInv, ServerTypeOK
  <2> QED BY <1>3, <1>8, <2>1, <2>2
<1>9. CASE FindOne(c)
      BY <1>6, <1>8, <1>9 DEF FindOne, Asks, Running
<1>10. CASE DeactivateOne(c)
      BY <1>7, <1>10 DEF DeactivateOne, Running
<1>11. CASE FindActive(c)
      BY <1>8, <1>11 DEF FindActive, Running
<1>12. CASE DeactivateAll(c)
      BY <1>6, <1>7, <1>12 DEF DeactivateAll, Asks, Running
<1>13. CASE Logout(c)
      BY <1>6, <1>8, <1>13 DEF Logout, Asks, Running
<1>14. CASE Blacklist(c)
  <2>1. /\ calls[c].at = "list" /\ calls[c].op \in Ops
        /\ c \in Requests => calls[c].op # "login"
        BY <1>1, <1>14 DEF Blacklist, Call, RefreshInv, AskGood
  <2>2. ASSUME NEW j, calls' = [calls EXCEPT ![c].todo = @ \ {j}] PROVE RefreshInv'
    <3> PICK k : k = [calls[c] EXCEPT !.todo = @ \ {j}]
        OBVIOUS
    <3>1. k.op = calls[c].op /\ k.jti = calls[c].jti /\ k.at = "list" /\ k.seen = calls[c].seen
          BY <1>1, <2>1 DEF Call
    <3>2. calls' = [calls EXCEPT ![c] = k]
          BY <2>2 DEF ServerInv, ServerTypeOK
    <3> QED BY <1>3, <2>1, <3>1, <3>2 DEF Running
  <2>3. ASSUME NEW at \in {"rotate", "deactivate"}, at = "deactivate" => calls[c].op # "refresh",
               calls' = [calls EXCEPT ![c].at = at, ![c].todo = {}]
        PROVE  RefreshInv'
    <3> PICK k : k = [calls[c] EXCEPT !.at = at, !.todo = {}]
        OBVIOUS
    <3>1. k.op = calls[c].op /\ k.jti = calls[c].jti /\ k.at = at /\ k.seen = calls[c].seen
          BY <1>1 DEF Call
    <3>2. calls' = [calls EXCEPT ![c] = k]
          BY <2>3 DEF ServerInv, ServerTypeOK
    <3> QED BY <1>3, <2>1, <2>3, <3>1, <3>2 DEF Running
  <2>4. CASE AfterList(c)
    <3>1. CASE calls[c].op = "refresh"
          BY <2>3, <2>4, <3>1 DEF AfterList
    <3>2. CASE calls[c].op \in {"revokeAll", "reuse"}
          BY <2>3, <2>4, <3>2 DEF AfterList
    <3>3. CASE calls[c].op \notin {"refresh", "revokeAll", "reuse"}
          BY <1>6, <2>4, <3>3 DEF AfterList, Asks
    <3> QED BY <3>1, <3>2, <3>3
  <2> QED BY <1>14, <2>2, <2>4 DEF Blacklist
<1> QED BY <1>9, <1>10, <1>11, <1>12, <1>13, <1>14

LEMMA RefreshServer ==
  ASSUME ServerInv, ClientTypes, RefreshInv, Server
  PROVE  RefreshInv'
<1>1. UNCHANGED clientVars
      BY DEF Server
<1>2. CASE \E c \in Calls : Serve(c)
      BY <1>1, <1>2, LoginMints, FindByJtiAsks, RotateMints, RevokeMoves DEF Serve
<1>3. ASSUME NEW c \in Calls \ Requests, Arrive(c) PROVE RefreshInv'
  <2>1. PICK op, j : op \in {"revokeOne", "revokeAll", "logout"} /\ Give(c, op, j)
        BY <1>3 DEF Arrive
  <2> PICK k : k = [Idle EXCEPT !.op = op, !.jti = j, !.at = "start"]
      OBVIOUS
  <2>2. k.op = op /\ calls' = [calls EXCEPT ![c] = k]
        BY <2>1 DEF Idle, Give
  <2>3. UNCHANGED <<sessions, minted, cookies, storage, tabs, reqs, stale>>
        BY <1>1, <1>3 DEF Arrive, clientVars
  <2>4. k.op \notin Asks
        BY <2>1, <2>2 DEF Asks
  <2> QED BY <2>2, <2>3, <2>4, OneMoves
<1>4. ASSUME NEW c \in Calls, Lose(c) PROVE RefreshInv'
  <2> PICK k : k = [calls[c] EXCEPT !.at = "lost"]
      OBVIOUS
  <2>1. calls[c] \in Call /\ calls' = [calls EXCEPT ![c] = k]
        BY <1>4, AskedByRequest DEF Lose, Goto, ServerInv, ServerTypeOK
  <2>2. k.op = calls[c].op /\ k.jti = calls[c].jti /\ k.at = "lost" /\ k.seen = calls[c].seen
        BY <2>1 DEF Call
  <2>3. UNCHANGED <<sessions, minted, cookies, storage, tabs, reqs, stale>>
        BY <1>1, <1>4 DEF Lose, clientVars
  <2> QED BY <2>1, <2>2, <2>3, OneGoesOn DEF Running
<1>5. CASE Surroundings
  <2>1. UNCHANGED <<sessions, minted, calls, cookies, storage, tabs, reqs, stale>>
        BY <1>1, <1>5 DEF Surroundings, RedisAway, RedisBack, Expire, clientVars
  <2>2. \A c \in Calls \ Requests : calls'[c].op \notin Asks
        BY <2>1 DEF RefreshInv
  <2> QED BY <2>1, <2>2, CallsMove
<1> QED BY <1>2, <1>3, <1>4, <1>5, WebClientAssumption DEF Server

\* The same when the refresh cookie stays and no refresh is answered.
LEMMA ClientGoesOn ==
  ASSUME ServerInv, ClientTypes, RefreshInv, UNCHANGED serverVars,
         cookies'.refresh = cookies.refresh,
         \A p \in Requests :
           /\ reqs[p].retry => reqs'[p].retry /\ reqs'[p].tab = reqs[p].tab
           /\ reqs'[p].at = "idle" => reqs'[p] = reqs[p]
           /\ reqs'[p].at \in {"refreshing", "signing"} =>
                reqs'[p].at = reqs[p].at /\ reqs'[p].tab = reqs[p].tab
           /\ reqs[p].at = "gone" => reqs'[p].at = "gone"
           /\ reqs[p].at = "refreshing" => reqs'[p].at \in Held
           /\ reqs'[p].at = "refreshing" => tabs'[reqs[p].tab].refreshing
  PROVE  RefreshInv'
<1>1. \A p \in Requests : reqs'[p].at \notin Held => ~Spent(calls[p], cookies'.refresh)
      BY DEF RefreshInv, Dropped, Held
<1>2. \A p \in Requests : reqs'[p].at \in {"refreshing", "signing"} /\ calls[p].at = "done" =>
                            cookies'.refresh # calls[p].jti
      BY DEF RefreshInv, Fresh
<1> QED BY <1>1, <1>2, ClientMove

\* One request goes on as v, without refreshing, while its tab keeps the flag.
LEMMA OneRequest ==
  ASSUME ServerInv, ClientTypes, QueueInv, RefreshInv, UNCHANGED serverVars,
         NEW q \in Requests, NEW v,
         cookies'.refresh = cookies.refresh, reqs' = [reqs EXCEPT ![q] = v],
         reqs[q].at \notin {"refreshing", "gone"}, v.at \notin {"idle", "refreshing", "signing"},
         reqs[q].retry => v.retry /\ v.tab = reqs[q].tab,
         \A t \in Tabs : tabs[t].refreshing => tabs'[t].refreshing
  PROVE  RefreshInv'
<1>1. \A p \in Requests : reqs'[p] = IF p = q THEN v ELSE reqs[p]
      BY DEF ClientTypes
<1>2. \A p \in Requests : reqs[p].at = "refreshing" => tabs'[reqs[p].tab].refreshing
      BY DEF RefreshInv, OneByOne, TabOf, QueueInv, Waiting
<1>3. ASSUME NEW p \in Requests
      PROVE  /\ reqs[p].retry => reqs'[p].retry /\ reqs'[p].tab = reqs[p].tab
             /\ reqs'[p].at = "idle" => reqs'[p] = reqs[p]
             /\ reqs'[p].at \in {"refreshing", "signing"} =>
                  reqs'[p].at = reqs[p].at /\ reqs'[p].tab = reqs[p].tab
             /\ reqs[p].at = "gone" => reqs'[p].at = "gone"
             /\ reqs[p].at = "refreshing" => reqs'[p].at \in Held
             /\ reqs'[p].at = "refreshing" => tabs'[reqs[p].tab].refreshing
      BY <1>1, <1>2 DEF Held
<1> QED BY <1>3, ClientGoesOn

LEMMA DoneKeeps ==
  ASSUME ClientTypes, NEW q \in Requests
  PROVE  /\ Done(q).retry = reqs[q].retry /\ Done(q).tab = reqs[q].tab /\ Done(q).at = "settled"
         /\ [Done(q) EXCEPT !.at = "gone"].retry = reqs[q].retry
         /\ [Done(q) EXCEPT !.at = "gone"].tab = reqs[q].tab
         /\ [Done(q) EXCEPT !.at = "gone"].at = "gone"
<1>1. reqs[q] \in Request
      BY DEF ClientTypes
<1> QED BY <1>1 DEF Done, Request

LEMMA RefreshTabs ==
  ASSUME ServerInv, ClientTypes, QueueInv, RefreshInv, NEW t \in Tabs, SignOut(t) \/ Leave(t)
  PROVE  RefreshInv'
<1>1. UNCHANGED serverVars /\ cookies'.refresh = cookies.refresh
      BY DEF SignOut, Leave, ClientTypes
<1>2. \A p \in Requests : reqs[p].at = "refreshing" => reqs[p].tab \in Tabs /\ tabs[reqs[p].tab].refreshing
      BY DEF RefreshInv, OneByOne, TabOf, QueueInv, Waiting
<1>3. CASE SignOut(t)
  <2>1. /\ reqs' = reqs
        /\ \A x \in Tabs : tabs'[x].refreshing = tabs[x].refreshing
        BY <1>3 DEF SignOut, SetTab, ClientTypes, Tab
  <2> QED BY <1>1, <1>2, <2>1, ClientGoesOn DEF Held
<1>4. CASE Leave(t)
  <2>1. \A p \in Requests : reqs'[p] = IF TabOf(p) = t /\ reqs[p].at \in Waiting
                                         THEN [Done(p) EXCEPT !.at = "gone"] ELSE reqs[p]
        BY <1>4 DEF Leave
  <2>2. \A x \in Tabs : x # t => tabs'[x] = tabs[x]
        BY <1>4 DEF Leave, SetTab, ClientTypes
  <2>3. \A p \in Requests :
          \/ reqs'[p] = reqs[p] /\ (reqs[p].at \in Waiting => reqs[p].tab # t)
          \/ /\ reqs'[p].at = "gone" /\ reqs'[p].retry = reqs[p].retry
             /\ reqs'[p].tab = reqs[p].tab
        BY <2>1, DoneKeeps DEF TabOf
  <2> QED BY <1>1, <1>2, <2>2, <2>3, ClientGoesOn DEF Held, Waiting
<1> QED BY <1>3, <1>4

\* A request asks the server, as k, and waits as v: a refresh sends the cookie.
LEMMA Asked ==
  ASSUME ServerInv, ClientTypes, QueueInv, RefreshInv, NEW q \in Requests, NEW k, NEW v,
         UNCHANGED <<sessions, minted, stale, cookies>>,
         calls' = [calls EXCEPT ![q] = k], reqs' = [reqs EXCEPT ![q] = v],
         reqs[q].at \notin Held, ~reqs[q].retry, k.at = "start", k.seen = {},
         \/ k.op = "login" /\ k.jti = None /\ v.at = "signing"
         \/ /\ k.op = "refresh" /\ k.jti = cookies.refresh /\ k.jti # None
            /\ v.at = "refreshing" /\ v.retry /\ v.tab = reqs[q].tab
            /\ ~tabs[v.tab].refreshing /\ tabs'[v.tab].refreshing,
         \A t \in Tabs : tabs[t].refreshing => tabs'[t].refreshing
  PROVE  RefreshInv'
<1>1. /\ \A p \in Requests : reqs'[p] = IF p = q THEN v ELSE reqs[p]
      /\ \A p \in Calls : calls'[p] = IF p = q THEN k ELSE calls[p]
      /\ Requests \subseteq Calls /\ Minted' = Minted /\ None \notin Minted
      /\ cookies.refresh \in {None} \cup Minted
      BY WebClientAssumption, MintedTokens DEF ClientTypes, ServerInv, ServerTypeOK, Minted
<1>2. \A p \in Requests : AskGood(calls[p], reqs[p]) /\ AnswerGood(calls[p]) /\ Fresh(p)
      BY DEF RefreshInv
<1>3. calls[q].op \notin Asks
      BY <1>2 DEF AskGood
<1>4. \A p \in Requests : \A j : Spent(calls'[p], j) <=> p # q /\ Spent(calls[p], j)
      BY <1>1 DEF Spent
<1>5. \A j : ~Spent(calls[q], j)
      BY <1>3 DEF Spent, Asks
<1>6. ASSUME NEW p \in Requests PROVE AskGood(calls[p], reqs[p])'
  <2>1. AskGood(calls'[p], reqs'[p])
        BY <1>1, <1>2 DEF AskGood, Held, Asks
  <2> QED BY <1>1, <2>1 DEF AskGood
<1>7. ASSUME NEW p \in Requests PROVE AnswerGood(calls[p])'
  <2>1. AnswerGood(calls'[p])
        BY <1>1, <1>2 DEF AnswerGood
  <2> QED BY <2>1 DEF AnswerGood
<1>8. ASSUME NEW p \in Requests PROVE Fresh(p)'
  <2> SUFFICES ASSUME reqs'[p].at \in {"refreshing", "signing"}, calls'[p].at = "done"
               PROVE  /\ calls'[p].jti \in Minted' /\ calls'[p].jti # cookies.refresh
                      /\ \A x \in Requests : ~Spent(calls'[x], calls'[p].jti)
                      /\ \A x \in Requests \ {p} : calls'[x].jti # calls'[p].jti
      BY DEF Fresh, Spent
  <2>1. p # q /\ calls'[p] = calls[p] /\ reqs'[p] = reqs[p]
        BY <1>1
  <2>2. Fresh(p)
        BY <1>2
  <2> QED BY <1>1, <1>4, <2>1, <2>2 DEF Fresh
<1>9. \A c \in Calls \ Requests : calls'[c].op \notin Asks
      BY <1>1 DEF RefreshInv
<1>10. ReplacedBy'
  <2> SUFFICES ASSUME NEW j \in Minted, sessions[minted[j]].jti # j
               PROVE  minted[j] \in stale \/ \E p \in Requests : Spent(calls'[p], j)
      BY <1>1 DEF ReplacedBy, Spent
  <2> QED BY <1>4, <1>5 DEF RefreshInv, ReplacedBy
<1>11. \A p \in Requests : reqs'[p].at \notin Held => ~Spent(calls'[p], cookies.refresh)
      BY <1>1, <1>4 DEF RefreshInv, Dropped
<1>12. Dropped'
      BY <1>11 DEF Dropped, Spent
<1>13. ASSUME NEW p \in Requests, NEW x \in Requests, reqs'[p].at = "refreshing"
       PROVE  /\ tabs'[reqs'[p].tab].refreshing
              /\ reqs'[x].at = "refreshing" /\ reqs'[p].tab = reqs'[x].tab => p = x
              /\ calls'[p].op = "refresh" /\ calls'[p].at \in {"start", "refused"}
                 /\ reqs'[p].tab = reqs'[x].tab =>
                   (Spent(calls'[x], calls'[p].jti) => reqs'[x].at = "gone")
  <2>1. \A y \in Requests : reqs[y].at = "refreshing" =>
                              tabs[reqs[y].tab].refreshing /\ tabs'[reqs[y].tab].refreshing
        BY DEF RefreshInv, OneByOne, TabOf, QueueInv, Waiting
  <2>2. \A y \in Requests : Spent(calls[y], cookies.refresh) => reqs[y].at \in Held
        BY DEF RefreshInv, Dropped
  <2>3. CASE p = q
    <3>1. /\ reqs'[p] = v /\ calls'[p] = k /\ v.at = "refreshing" /\ k.jti = cookies.refresh
          /\ ~tabs[v.tab].refreshing /\ tabs'[v.tab].refreshing
          BY <1>1, <1>13, <2>3
    <3>2. x # p => reqs'[x] = reqs[x] /\ \A j : Spent(calls'[x], j) => Spent(calls[x], j)
          BY <1>1, <1>4, <2>3
    <3>3. x # p => /\ reqs'[x].at = "refreshing" => reqs'[x].tab # v.tab
                   /\ Spent(calls'[x], k.jti) => reqs'[x].at \in Held
          BY <2>1, <2>2, <3>1, <3>2
    <3>4. ~Spent(calls'[p], k.jti)
          BY <1>4, <2>3
    <3> QED BY <3>1, <3>3, <3>4 DEF Held
  <2>4. CASE p # q
    <3>1. reqs'[p] = reqs[p] /\ calls'[p] = calls[p] /\ reqs[p].at = "refreshing"
          BY <1>1, <1>13, <2>4
    <3>2. /\ reqs[x].at = "refreshing" /\ reqs[p].tab = reqs[x].tab => p = x
          /\ calls[p].op = "refresh" /\ calls[p].at \in {"start", "refused"}
             /\ reqs[p].tab = reqs[x].tab =>
               (Spent(calls[x], calls[p].jti) => reqs[x].at = "gone")
          BY <3>1 DEF RefreshInv, OneByOne, TabOf
    <3>3. x # q => reqs'[x] = reqs[x]
          BY <1>1
    <3>4. ASSUME x = q PROVE /\ reqs'[x].at = "refreshing" => reqs'[p].tab # reqs'[x].tab
                             /\ \A j : ~Spent(calls'[x], j)
      <4>1. reqs'[x] = v /\ (v.at = "refreshing" => ~tabs[v.tab].refreshing)
            BY <1>1, <3>4
      <4>2. tabs[reqs'[p].tab].refreshing
            BY <2>1, <3>1
      <4> QED BY <1>4, <3>4, <4>1, <4>2
    <3>5. \A j : x # q /\ Spent(calls'[x], j) => Spent(calls[x], j)
          BY <1>4
    <3>6. tabs'[reqs'[p].tab].refreshing
          BY <2>1, <3>1
    <3> QED BY <2>4, <3>1, <3>2, <3>3, <3>4, <3>5, <3>6
  <2> QED BY <2>3, <2>4
<1>14. OneByOne'
      BY <1>13 DEF OneByOne, Spent, TabOf
<1> QED BY <1>6, <1>7, <1>8, <1>9, <1>10, <1>12, <1>14 DEF RefreshInv

LEMMA RefreshSends ==
  ASSUME ServerInv, ClientTypes, QueueInv, RefreshInv, NEW q \in Requests, NEW t \in Tabs,
         Send(q, t) \/ SignIn(q, t)
  PROVE  RefreshInv'
<1>1. /\ reqs[q] \in Request /\ reqs[q].at = "idle" /\ ~reqs[q].retry
      /\ UNCHANGED <<cookies, tabs>>
      /\ reqs[q].at \notin Held
      BY DEF Send, SignIn, InTurn, ClientTypes, RefreshInv, AskGood, Held
<1>2. CASE Send(q, t)
  <2> PICK v : v = [reqs[q] EXCEPT !.at = "sent", !.tab = t, !.token = Bearer]
      OBVIOUS
  <2>1. v.at = "sent" /\ reqs' = [reqs EXCEPT ![q] = v] /\ UNCHANGED serverVars
        BY <1>1, <1>2 DEF Send, Request, ClientTypes
  <2> QED BY <1>1, <2>1, OneRequest
<1>3. CASE SignIn(q, t)
  <2>1. CASE /\ reqs' = [reqs EXCEPT ![q] = [@ EXCEPT !.at = "sent", !.tab = t, !.wrong = TRUE]]
             /\ calls' = calls
    <3> PICK v : v = [reqs[q] EXCEPT !.at = "sent", !.tab = t, !.wrong = TRUE]
        OBVIOUS
    <3>1. v.at = "sent" /\ reqs' = [reqs EXCEPT ![q] = v]
          BY <1>1, <2>1 DEF Request, ClientTypes
    <3>2. UNCHANGED serverVars
          BY <1>3, <2>1 DEF SignIn, serverVars
    <3> QED BY <1>1, <3>1, <3>2, OneRequest
  <2>2. CASE /\ reqs' = [reqs EXCEPT ![q] = [@ EXCEPT !.at = "signing", !.tab = t]]
             /\ Give(q, "login", None)
    <3> PICK k, v : /\ k = [Idle EXCEPT !.op = "login", !.jti = None, !.at = "start"]
                    /\ v = [reqs[q] EXCEPT !.at = "signing", !.tab = t]
        OBVIOUS
    <3>1. /\ v.at = "signing" /\ reqs' = [reqs EXCEPT ![q] = v]
          /\ k.op = "login" /\ k.jti = None /\ k.at = "start" /\ k.seen = {}
          /\ calls' = [calls EXCEPT ![q] = k]
          BY <1>1, <2>2 DEF Request, ClientTypes, Give, Idle
    <3>2. UNCHANGED <<sessions, minted, stale>>
          BY <1>3 DEF SignIn
    <3> QED BY <1>1, <3>1, <3>2, Asked
  <2> QED BY <1>3, <2>1, <2>2 DEF SignIn
<1> QED BY <1>2, <1>3
\* An answer comes: the tab's requests are sent again or settled, the cookie holds its
\* token or none.
LEMMA Answered ==
  ASSUME ServerInv, ClientTypes, QueueInv, RefreshInv, NEW q \in Requests, UNCHANGED serverVars,
         reqs[q].at \in {"refreshing", "signing"}, calls[q].at \notin Running,
         \/ cookies'.refresh = None
         \/ calls[q].at = "done" /\ cookies'.refresh = calls[q].jti,
         \A p \in Requests :
           \/ p # q /\ reqs'[p] = reqs[p]
           \/ /\ p = q \/ reqs[p].at = "queued"
              /\ reqs'[p].at \in {"sent", "settled"}
              /\ reqs'[p].retry = reqs[p].retry /\ reqs'[p].tab = reqs[p].tab,
         \A x \in Tabs : x # TabOf(q) => tabs'[x] = tabs[x],
         reqs[q].at = "signing" => tabs'[TabOf(q)].refreshing = tabs[TabOf(q)].refreshing
  PROVE  RefreshInv'
<1>1. /\ AskGood(calls[q], reqs[q]) /\ Fresh(q)
      /\ \A p \in Requests : Fresh(p) /\ calls[p].seen \subseteq Minted
  <2>1. \A p \in Requests : calls[p].seen \subseteq Minted
        BY WebClientAssumption DEF ServerInv, CallGood, Well
  <2> QED BY <2>1 DEF RefreshInv
<1>2. None \notin Minted
      BY MintedTokens DEF ServerInv
<1>3. \A p \in Requests : ~Spent(calls[p], cookies'.refresh)
      BY <1>1, <1>2 DEF Fresh, Spent
<1>4. ASSUME NEW p \in Requests, reqs'[p].at \in {"refreshing", "signing"}, calls[p].at = "done"
      PROVE  cookies'.refresh # calls[p].jti
  <2>1. p # q /\ reqs'[p] = reqs[p]
        BY <1>4
  <2>2. calls[p].jti \in Minted /\ calls[q].jti # calls[p].jti
        BY <1>1, <1>4, <2>1 DEF Fresh
  <2> QED BY <1>2, <2>2
<1>5. ASSUME NEW p \in Requests, reqs'[p].at = "refreshing" PROVE tabs'[reqs[p].tab].refreshing
  <2>1. p # q /\ reqs[p].at = "refreshing" /\ tabs[reqs[p].tab].refreshing
        /\ (reqs[q].at = "refreshing" => reqs[p].tab # reqs[q].tab) /\ reqs[p].tab \in Tabs
        BY <1>5 DEF RefreshInv, OneByOne, TabOf, QueueInv, Waiting
  <2>2. CASE reqs[p].tab = TabOf(q)
        BY <2>1, <2>2 DEF TabOf
  <2>3. CASE reqs[p].tab # TabOf(q)
        BY <2>1, <2>3
  <2> QED BY <2>2, <2>3
<1>6. ASSUME NEW p \in Requests
      PROVE  /\ reqs[p].retry => reqs'[p].retry /\ reqs'[p].tab = reqs[p].tab
             /\ reqs'[p].at = "idle" => reqs'[p] = reqs[p]
             /\ reqs'[p].at \in {"refreshing", "signing"} =>
                  reqs'[p].at = reqs[p].at /\ reqs'[p].tab = reqs[p].tab
             /\ reqs[p].at = "gone" => reqs'[p].at = "gone"
             /\ reqs[p].at = "refreshing" => reqs'[p].at \in Held \/ calls[p].at \notin Running
      BY <1>6 DEF Held
<1> QED BY <1>3, <1>4, <1>5, <1>6, ClientMove

LEMMA RefreshSettles ==
  ASSUME ServerInv, ClientTypes, QueueInv, RefreshInv, NEW q \in Requests, Settle(q)
  PROVE  RefreshInv'
<1> PICK t : t = TabOf(q)
    OBVIOUS
<1>1. reqs[q] \in Request /\ t = reqs[q].tab
      BY DEF ClientTypes, TabOf
<1>2. reqs[q].at \in Waiting
      BY DEF Settle, Decide, GiveUp, Enqueue, Refresh, NoRefresh, Refreshed, RefreshFailed,
             SignedIn, SignInFailed, Waiting
<1>3. t \in Tabs /\ tabs[t] \in Tab /\ AskGood(calls[q], reqs[q])
      BY <1>1, <1>2 DEF ClientTypes, QueueInv, TabOf, RefreshInv
<1>4. Done(q).retry = reqs[q].retry /\ Done(q).tab = reqs[q].tab /\ Done(q).at = "settled"
      BY DoneKeeps
<1>5. ASSUME NEW v, reqs' = [reqs EXCEPT ![q] = v], v.at \in {"denied", "queued", "settled"},
             reqs[q].at \in {"sent", "denied", "signing"}, UNCHANGED <<serverVars, cookies>>,
             reqs[q].retry => v.retry /\ v.tab = reqs[q].tab,
             \A x \in Tabs : tabs[x].refreshing => tabs'[x].refreshing
      PROVE  RefreshInv'
      BY <1>5, OneRequest
<1>6. ASSUME NEW at \in {"denied", "queued"}, Place(q, at),
             reqs[q].at \in {"sent", "denied"}, UNCHANGED <<serverVars, cookies, tabs>>
      PROVE  RefreshInv'
  <2> PICK v : v = [reqs[q] EXCEPT !.at = at]
      OBVIOUS
  <2>1. v.at = at /\ v.retry = reqs[q].retry /\ v.tab = reqs[q].tab
        BY <1>1 DEF Request
  <2>2. reqs' = [reqs EXCEPT ![q] = v]
        BY <1>6 DEF Place, ClientTypes
  <2> QED BY <1>5, <1>6, <2>1, <2>2
<1>7. ASSUME Settled(q), reqs[q].at \in {"sent", "denied", "signing"},
             UNCHANGED <<serverVars, cookies, tabs>>
      PROVE  RefreshInv'
      BY <1>4, <1>5, <1>7 DEF Settled
<1>8. CASE Decide(q)
      BY <1>6, <1>7, <1>8 DEF Decide
<1>9. CASE GiveUp(q) \/ SignInFailed(q)
      BY <1>7, <1>9 DEF GiveUp, SignInFailed
<1>10. CASE Enqueue(q)
      BY <1>6, <1>10 DEF Enqueue
<1>11. CASE NoRefresh(q)
  <2> PICK v : v = [Done(q) EXCEPT !.retry = TRUE]
      OBVIOUS
  <2>1. Done(q) \in Request
        BY DoneType
  <2>2. v.at = "settled" /\ v.retry /\ v.tab = reqs[q].tab
        BY <1>4, <2>1 DEF Request
  <2>3. /\ reqs' = [reqs EXCEPT ![q] = v] /\ reqs[q].at = "denied"
        /\ UNCHANGED <<serverVars, cookies>>
        BY <1>11 DEF NoRefresh
  <2>4. \A x \in Tabs : tabs'[x].refreshing = (x = t \/ tabs[x].refreshing)
        BY <1>3, <1>11 DEF NoRefresh, SetTab, ClientTypes, Tab
  <2> QED BY <1>5, <2>2, <2>3, <2>4
<1>12. CASE Refresh(q)
  <2> PICK k, v : /\ k = [Idle EXCEPT !.op = "refresh", !.jti = cookies.refresh, !.at = "start"]
                  /\ v = [reqs[q] EXCEPT !.at = "refreshing", !.retry = TRUE]
      OBVIOUS
  <2>1. v.at = "refreshing" /\ v.retry /\ v.tab = t
        BY <1>1 DEF Request
  <2>2. k.op = "refresh" /\ k.jti = cookies.refresh /\ k.at = "start" /\ k.seen = {}
        BY DEF Idle
  <2>3. /\ calls' = [calls EXCEPT ![q] = k] /\ reqs' = [reqs EXCEPT ![q] = v]
        /\ UNCHANGED <<sessions, minted, stale, cookies>>
        /\ reqs[q].at \notin Held /\ ~reqs[q].retry /\ cookies.refresh # None
        /\ ~tabs[t].refreshing
        BY <1>1, <1>12 DEF Refresh, Give, Held, Request, ClientTypes, TabOf
  <2>4. \A x \in Tabs : tabs'[x].refreshing = (x = t \/ tabs[x].refreshing)
        BY <1>3, <1>12 DEF Refresh, SetTab, ClientTypes, Tab
  <2> QED BY <1>1, <1>3, <2>1, <2>2, <2>3, <2>4, Asked, ZenonT(40)
<1>13. ASSUME NEW at \in {"sent", "settled"}, NEW page, UNCHANGED serverVars,
              reqs[q].at = "refreshing", calls[q].at \notin Running,
              \/ cookies'.refresh = None
              \/ calls[q].at = "done" /\ cookies'.refresh = calls[q].jti,
              \A p \in Requests : IF p \in Queued(t) \cup {q}
                 THEN reqs'[p].at = at /\ reqs'[p].retry = reqs[p].retry /\ reqs'[p].tab = reqs[p].tab
                 ELSE reqs'[p] = reqs[p],
              SetTab(t, [tabs[t] EXCEPT !.refreshing = FALSE, !.page = page])
       PROVE  RefreshInv'
  <2>1. \A p \in Requests :
           \/ p # q /\ reqs'[p] = reqs[p]
           \/ /\ p = q \/ reqs[p].at = "queued"
              /\ reqs'[p].at \in {"sent", "settled"}
              /\ reqs'[p].retry = reqs[p].retry /\ reqs'[p].tab = reqs[p].tab
        BY <1>13 DEF Queued
  <2>2. \A x \in Tabs : x # t => tabs'[x] = tabs[x]
        BY <1>13 DEF SetTab, ClientTypes
  <2> QED BY <1>13, <2>1, <2>2, Answered
<1>14. CASE Refreshed(q)
  <2>1. \A p \in Requests : /\ [reqs[p] EXCEPT !.at = "sent", !.token = calls[q].jti].at = "sent"
                            /\ [reqs[p] EXCEPT !.at = "sent", !.token = calls[q].jti].retry = reqs[p].retry
                            /\ [reqs[p] EXCEPT !.at = "sent", !.token = calls[q].jti].tab = reqs[p].tab
        BY DEF ClientTypes, Request
  <2>2. \A p \in Requests : IF p \in Queued(t) \cup {q}
                 THEN reqs'[p].at = "sent" /\ reqs'[p].retry = reqs[p].retry /\ reqs'[p].tab = reqs[p].tab
                 ELSE reqs'[p] = reqs[p]
        BY <1>14, <2>1 DEF Refreshed
  <2>3. SetTab(t, [tabs[t] EXCEPT !.refreshing = FALSE, !.page = tabs[t].page])
        BY <1>3, <1>14 DEF Refreshed, SetTab, Tab
  <2>4. /\ UNCHANGED serverVars /\ reqs[q].at = "refreshing" /\ calls[q].at = "done"
        /\ cookies'.refresh = calls[q].jti
        BY <1>14 DEF Refreshed, Store
  <2> QED BY <1>13, <2>2, <2>3, <2>4 DEF Running
<1>15. CASE RefreshFailed(q)
  <2>1. \A p \in Requests : IF p \in Queued(t) \cup {q}
                 THEN reqs'[p].at = "settled" /\ reqs'[p].retry = reqs[p].retry /\ reqs'[p].tab = reqs[p].tab
                 ELSE reqs'[p] = reqs[p]
        BY <1>15, DoneKeeps DEF RefreshFailed
  <2>2. /\ SetTab(t, [tabs[t] EXCEPT !.refreshing = FALSE, !.page = "leaving"])
        /\ UNCHANGED serverVars /\ reqs[q].at = "refreshing" /\ calls[q].at \in {"refused", "lost"}
        /\ cookies'.refresh = None
        BY <1>15 DEF RefreshFailed, NoCookies
  <2> QED BY <1>13, <2>1, <2>2 DEF Running
<1>16. CASE SignedIn(q)
  <2>1. \A p \in Requests : reqs'[p] = IF p = q THEN Done(q) ELSE reqs[p]
        BY <1>16 DEF SignedIn, Settled, ClientTypes
  <2>2. \A p \in Requests :
           \/ p # q /\ reqs'[p] = reqs[p]
           \/ /\ p = q \/ reqs[p].at = "queued"
              /\ reqs'[p].at \in {"sent", "settled"}
              /\ reqs'[p].retry = reqs[p].retry /\ reqs'[p].tab = reqs[p].tab
        BY <1>4, <2>1
  <2>3. /\ \A x \in Tabs : x # t => tabs'[x] = tabs[x]
        /\ tabs'[t].refreshing = tabs[t].refreshing
        BY <1>3, <1>16 DEF SignedIn, SetTab, ClientTypes, Tab
  <2>4. /\ UNCHANGED serverVars /\ reqs[q].at = "signing" /\ calls[q].at = "done"
        /\ cookies'.refresh = calls[q].jti
        BY <1>16 DEF SignedIn, Store
  <2> QED BY <2>2, <2>3, <2>4, Answered DEF Running
<1> QED BY <1>8, <1>9, <1>10, <1>11, <1>12, <1>14, <1>15, <1>16 DEF Settle

LEMMA RefreshInit == Init => RefreshInv
<1> SUFFICES ASSUME Init PROVE RefreshInv
    OBVIOUS
<1>1. /\ \A q \in Requests : reqs[q].at = "idle" /\ ~reqs[q].retry
      /\ calls = [c \in Calls |-> Idle] /\ Requests \subseteq Calls
      BY WebClientAssumption DEF Init, ServerInit
<1>2. \A c \in Calls : calls[c].op = "login" /\ calls[c].at = "idle" /\ calls[c].seen = {}
      BY <1>1 DEF Idle
<1>3. \A q \in Requests : AskGood(calls[q], reqs[q]) /\ AnswerGood(calls[q]) /\ Fresh(q)
      BY <1>1, <1>2 DEF AskGood, AnswerGood, Fresh, Asks
<1>4. ReplacedBy
  <2>1. minted = <<>> => Minted = {}
        BY DEF Minted
  <2>2. CASE minted = <<>>
        BY <2>1, <2>2 DEF ReplacedBy
  <2>3. ASSUME NEW r \in Rows, minted = <<r>>,
               sessions = [x \in Rows |-> IF x = r THEN [jti |-> 1, active |-> TRUE] ELSE NoSession]
        PROVE  ReplacedBy
    <3>1. Minted = {1} /\ minted[1] = r
          BY <2>3 DEF Minted
    <3> QED BY <2>3, <3>1 DEF ReplacedBy
  <2> QED BY <2>2, <2>3 DEF Init, ServerInit
<1>5. Dropped /\ OneByOne
      BY <1>1, <1>2 DEF Dropped, OneByOne, Spent
<1> QED BY <1>2, <1>3, <1>4, <1>5 DEF RefreshInv, Asks

LEMMA RefreshNext ==
  ASSUME ServerInv, ClientTypes, QueueInv, RefreshInv, [Next]_vars
  PROVE  RefreshInv'
<1>1. CASE UNCHANGED vars
  <2>1. UNCHANGED <<serverVars, cookies, tabs, reqs>>
        BY <1>1 DEF vars, clientVars
  <2>2. \A p \in Requests : reqs[p].at = "refreshing" => tabs[reqs[p].tab].refreshing
        BY DEF RefreshInv, OneByOne, TabOf
  <2> QED BY <2>1, <2>2, ClientGoesOn DEF Held
<1> QED BY <1>1, RefreshTabs, RefreshSends, RefreshSettles, RefreshServer DEF Next

\* With any number of tabs, requests and other devices, the device is signed out by its own
\* refresh only when that was cut off, when another tab or a page that went away had sent
\* the same token, or when the session is revoked or was written by calls that crossed.
THEOREM StayCorrect == Spec => StaysSignedIn
<1>1. ASSUME ServerInv, RefreshInv, NEW q \in Requests, RefreshFailed(q) PROVE Cause(q)
  <2> PICK j : j = calls[q].jti
      OBVIOUS
  <2>1. /\ reqs[q].at = "refreshing" /\ calls[q].at \in {"refused", "lost"}
        /\ AskGood(calls[q], reqs[q]) /\ AnswerGood(calls[q])
        BY <1>1 DEF RefreshFailed, RefreshInv
  <2>2. calls[q].op \in Asks /\ j \in Minted
        BY <2>1 DEF AskGood
  <2>3. CASE calls[q].at = "lost" \/ calls[q].op = "reuse"
        BY <2>1, <2>3 DEF Cause, AnswerGood
  <2>4. CASE calls[q].at = "refused" /\ calls[q].op = "refresh"
    <3>1. minted[j] \in stale \/ \E p \in Requests : Spent(calls[p], j)
          BY <1>1, <2>1, <2>2, <2>4 DEF AnswerGood, RefreshInv, ReplacedBy
    <3>2. ASSUME NEW p \in Requests, Spent(calls[p], j) PROVE Cause(q)
      <4>1. reqs[p].retry /\ j \in calls[p].seen
            BY <1>1, <3>2 DEF RefreshInv, AskGood, Spent, Asks
      <4>2. TabOf(p) = TabOf(q) => reqs[p].at = "gone"
            BY <1>1, <2>1, <2>4, <3>2 DEF RefreshInv, OneByOne
      <4> QED BY <4>1, <4>2 DEF Cause
    <3> QED BY <3>1, <3>2 DEF Cause
  <2> QED BY <2>1, <2>2, <2>3, <2>4 DEF Asks
<1>2. Spec => []RefreshInv
  <2>1. (ServerInv /\ ClientTypes /\ QueueInv /\ AskedOnce) /\ RefreshInv /\ [Next]_vars => RefreshInv'
        BY RefreshNext
  <2> QED BY <2>1, RefreshInit, Inductive, PTL DEF Spec
<1>3. ServerInv /\ RefreshInv => \A q \in Requests : RefreshFailed(q) => Cause(q)
      BY <1>1
<1> QED BY <1>2, <1>3, Inductive, PTL DEF StaysSignedIn
===============================================================================
