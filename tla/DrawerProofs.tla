----------------------------- MODULE DrawerProofs -----------------------------
(***************************************************************************)
(* Proofs about Drawer for any calls, cashiers, branches and limits.  They  *)
(* rest on two facts besides the types: rows are created in order and never *)
(* taken away, and a call that works on a session has chosen one that       *)
(* exists.                                                                 *)
(***************************************************************************)
EXTENDS Drawer, FiniteSetTheorems, TLAPS

-----------------------------------------------------------------------------
(* Types.                                                                  *)

AtWork == {"float", "sum", "closing", "update", "write"}

\* Rows exist in the order they were opened; calls choose rows that exist.
Fresh  == \A s \in Sessions : s > opened => sessions[s].status = "NONE"
Chosen == \A r \in Requests : /\ reqs[r].session <= opened
                              /\ reqs[r].at \in AtWork => reqs[r].session # 0

LEMMA IdleType == Idle \in Request /\ NoSession \in Session
<1>1. 0 \in 0 .. MaxSessions
      BY DrawerAssumption
<1>2. Idle \in Request
      BY <1>1 DEF Idle, Request, Ops, Steps, Scopes, Types
<1> QED BY <1>2 DEF NoSession, Session, Scopes, Types

LEMMA InitType == Init => TypeOK /\ Fresh /\ Chosen
<1> SUFFICES ASSUME Init PROVE TypeOK /\ Fresh /\ Chosen
    OBVIOUS
<1>1. MaxSessions \in Nat
      BY DrawerAssumption
<1>2. TypeOK
      BY <1>1, IdleType DEF Init, TypeOK
<1>3. Fresh /\ Chosen
      BY DEF Init, Fresh, Chosen, NoSession, Idle, AtWork
<1> QED BY <1>2, <1>3

LEMMA GotoType ==
  ASSUME TypeOK, NEW r \in Requests, NEW q \in Request, NEW at \in Steps, Goto(r, q, at)
  PROVE  reqs' \in [Requests -> Request]
<1>1. [q EXCEPT !.at = at] \in Request
      BY DEF Request
<1> QED BY <1>1 DEF TypeOK, Goto

LEMMA InsertType ==
  ASSUME TypeOK, NEW r \in Requests, NEW s \in Sessions, NEW type \in Types, NEW at \in Steps,
         Insert(r, s, type, at)
  PROVE  TypeOK'
<1> DEFINE late == IF type = "CLOSING" THEN {} ELSE {"late"}
<1>1. late \subseteq Reasons
      BY DEF Reasons
<1>2. s \in 0 .. MaxSessions /\ reqs[r].amount \in Nat
      BY DrawerAssumption DEF Sessions, TypeOK, Request
<1>3. [sessions[s].moved EXCEPT ![type] = @ + reqs[r].amount] \in [Types -> Nat]
      BY <1>2 DEF TypeOK, Session
<1>4. (IF sessions[s].status = "CLOSED" THEN sessions[s].why \cup late ELSE sessions[s].why)
        \in SUBSET Reasons
      BY <1>1 DEF TypeOK, Session
<1>5. [sessions[s] EXCEPT !.moved[type] = @ + reqs[r].amount,
         !.why = IF sessions[s].status = "CLOSED" THEN @ \cup late ELSE @] \in Session
      BY <1>3, <1>4, ZenonT(40) DEF TypeOK, Session
<1>6. sessions' = [sessions EXCEPT ![s] =
        [sessions[s] EXCEPT !.moved[type] = @ + reqs[r].amount,
           !.why = IF sessions[s].status = "CLOSED" THEN @ \cup late ELSE @]]
      BY DEF Insert
<1>7. sessions' \in [Sessions -> Session]
      BY <1>5, <1>6 DEF TypeOK
<1>8. reqs' = [q \in Requests |->
          IF q = r THEN [reqs[q] EXCEPT !.at = at, !.session = s]
          ELSE IF Closing(q, s) THEN [reqs[q] EXCEPT !.why = @ \cup late]
          ELSE reqs[q]]
      BY DEF Insert
<1> HIDE DEF late
<1>9. \A q \in Requests : /\ [reqs[q] EXCEPT !.at = at, !.session = s] \in Request
                          /\ [reqs[q] EXCEPT !.why = @ \cup late] \in Request
      BY <1>1, <1>2 DEF TypeOK, Request
<1>10. reqs' \in [Requests -> Request]
      BY <1>8, <1>9 DEF TypeOK
<1> QED BY <1>7, <1>10 DEF Insert, TypeOK

LEMMA CountsInt ==
  ASSUME TypeOK, NEW s \in Sessions
  PROVE  Balance(sessions[s].moved) \in Int /\ Report(s) \in Int
<1>1. \A t \in Types : sessions[s].moved[t] \in Nat
      BY DEF TypeOK, Session
<1>2. sessions[s].opening \in Nat
      BY DEF TypeOK, Session
<1>3. /\ sessions[s].moved["OPENING"] \in Nat /\ sessions[s].moved["SALE"] \in Nat
      /\ sessions[s].moved["REFUND"] \in Nat /\ sessions[s].moved["CASH_IN"] \in Nat
      /\ sessions[s].moved["CASH_OUT"] \in Nat /\ sessions[s].moved["CLOSING"] \in Nat
      BY <1>1 DEF Types
<1> QED BY <1>2, <1>3 DEF Balance, Report

LEMMA ChosenAt ==
  ASSUME TypeOK, Chosen, NEW r \in Requests, reqs[r].at \in AtWork
  PROVE  reqs[r].session \in Sessions /\ reqs[r].session <= opened
<1>1. reqs[r].session \in 0 .. MaxSessions /\ reqs[r].session # 0 /\ reqs[r].session <= opened
      BY DEF TypeOK, Request, Chosen
<1> QED BY <1>1, DrawerAssumption DEF Sessions

\* The calls are of their type and have chosen as they should after r went on as q.
LEMMA GotoChosen ==
  ASSUME TypeOK, Chosen, NEW r \in Requests, NEW q \in Request, NEW at \in Steps, Goto(r, q, at),
         q.session <= opened, at \in AtWork => q.session # 0, UNCHANGED <<sessions, opened>>
  PROVE  TypeOK' /\ Chosen'
<1>1. reqs' \in [Requests -> Request]
      BY GotoType
<1>2. reqs' = [reqs EXCEPT ![r] = [q EXCEPT !.at = at]]
      BY DEF Goto
<1>3. [q EXCEPT !.at = at].session = q.session /\ [q EXCEPT !.at = at].at = at
      BY DEF Request
<1>4. Chosen'
      BY <1>2, <1>3 DEF Chosen, TypeOK
<1> QED BY <1>1, <1>4 DEF TypeOK

LEMMA InsertChosen ==
  ASSUME TypeOK, Fresh, Chosen, NEW r \in Requests, NEW type \in Types, NEW at \in Steps,
         reqs[r].at \in AtWork, Insert(r, reqs[r].session, type, at)
  PROVE  TypeOK' /\ Fresh' /\ Chosen'
<1> DEFINE s == reqs[r].session
<1>1. s \in Sessions /\ s <= opened /\ s # 0
      BY ChosenAt DEF Chosen
<1>2. TypeOK'
      BY <1>1, InsertType
<1>3. \A x \in Sessions : sessions'[x].status = sessions[x].status
      BY <1>1 DEF Insert, TypeOK, Session
<1>4. Fresh'
      BY <1>3 DEF Insert, Fresh
<1>5. \A q \in Requests \ {r} : /\ reqs'[q].session = reqs[q].session
                                /\ reqs'[q].at = reqs[q].at
      BY DEF Insert, TypeOK, Request
<1>6. reqs'[r].session = s
      BY DEF Insert, TypeOK, Request
<1>7. UNCHANGED opened
      BY DEF Insert
<1> HIDE DEF s
<1>8. Chosen'
      BY <1>1, <1>5, <1>6, <1>7 DEF Chosen
<1> QED BY <1>2, <1>4, <1>8

LEMMA TypeStep ==
  ASSUME TypeOK, Fresh, Chosen, [Next]_vars PROVE TypeOK' /\ Fresh' /\ Chosen'
<1> DEFINE Good == TypeOK' /\ Fresh' /\ Chosen'
<1>0. opened \in Nat /\ MaxSessions \in Nat /\ opened <= MaxSessions /\ 0 <= opened
      BY DrawerAssumption DEF TypeOK
<1>1. ASSUME UNCHANGED vars PROVE Good
      BY <1>1 DEF vars, TypeOK, Fresh, Chosen
<1>2. ASSUME UNCHANGED <<sessions, opened>> PROVE Fresh'
      BY <1>2 DEF Fresh
<1>3. ASSUME NEW r \in Requests, NEW at \in {"failed", "done"}, Goto(r, Idle, at),
             UNCHANGED <<sessions, opened>>
      PROVE  Good
  <2>1. Idle.session = 0 /\ at \in Steps /\ at \notin AtWork
        BY DEF Idle, Steps, AtWork
  <2> QED BY <1>0, <1>2, <1>3, <2>1, IdleType, GotoChosen
<1>4. ASSUME NEW r \in Requests, Begin(r) PROVE Good
  <2>1. PICK op \in Ops, u \in Users, b \in Scopes, n \in Amounts, type \in Manual :
          Goto(r, [Idle EXCEPT !.op = op, !.user = u, !.branch = b, !.amount = n, !.type = type],
               First(op))
        BY <1>4 DEF Begin
  <2> DEFINE q == [Idle EXCEPT !.op = op, !.user = u, !.branch = b, !.amount = n, !.type = type]
  <2>2. n \in Nat /\ type \in Types
        BY DrawerAssumption DEF Manual, Types
  <2>3. q \in Request
        BY <2>2, IdleType DEF Request
  <2>4. q.session = 0 /\ First(op) \in Steps /\ First(op) \notin AtWork
        BY DEF Idle, First, Steps, AtWork
  <2>5. UNCHANGED <<sessions, opened>>
        BY <1>4 DEF Begin
  <2>6. Goto(r, q, First(op))
        BY <2>1
  <2> HIDE DEF q
  <2> QED BY <1>0, <1>2, <2>3, <2>4, <2>5, <2>6, GotoChosen
<1>5. ASSUME NEW r \in Requests, Fail(r) PROVE Good
      BY <1>3, <1>5 DEF Fail
<1>6. ASSUME NEW r \in Requests, OpenCount(r) PROVE Good
  <2>1. CASE Goto(r, Idle, "failed")
        BY <1>3, <1>6, <2>1 DEF OpenCount
  <2>2. CASE Goto(r, [reqs[r] EXCEPT !.seen = opened], "create")
    <3>1. [reqs[r] EXCEPT !.seen = opened] \in Request
          BY DEF TypeOK, Request
    <3>2. [reqs[r] EXCEPT !.seen = opened].session <= opened
          BY DEF TypeOK, Request, Chosen
    <3>3. "create" \in Steps /\ "create" \notin AtWork
          BY DEF Steps, AtWork
    <3> QED BY <1>2, <1>6, <2>2, <3>1, <3>2, <3>3, GotoChosen DEF OpenCount
  <2> QED BY <1>6, <2>1, <2>2 DEF OpenCount
<1>7. ASSUME NEW r \in Requests, OpenCreate(r) PROVE Good
  <2>1. PICK b \in Scopes :
          sessions' = [sessions EXCEPT ![opened + 1] =
            [NoSession EXCEPT !.status = "OPEN", !.user = reqs[r].user, !.branch = b,
                              !.opening = reqs[r].amount, !.alone = reqs[r].seen = opened]]
    <3>1. (IF reqs[r].branch = NoBranch THEN Scopes ELSE {reqs[r].branch}) \subseteq Scopes
          BY DEF TypeOK, Request
    <3> QED BY <1>7, <3>1 DEF OpenCreate
  <2>2. opened + 1 \in Sessions /\ opened' = opened + 1 /\ opened + 1 \in 0 .. MaxSessions
        BY <1>0, <1>7 DEF OpenCreate, Sessions
  <2> DEFINE row == [NoSession EXCEPT !.status = "OPEN", !.user = reqs[r].user, !.branch = b,
                              !.opening = reqs[r].amount, !.alone = reqs[r].seen = opened]
  <2>3. row \in Session
        BY IdleType DEF Session, TypeOK, Request
  <2>4. sessions' = [sessions EXCEPT ![opened + 1] = row]
        BY <2>1
  <2> HIDE DEF row
  <2>5. sessions' \in [Sessions -> Session]
        BY <2>3, <2>4 DEF TypeOK
  <2> DEFINE q == [reqs[r] EXCEPT !.session = opened + 1]
  <2>6. q \in Request /\ "float" \in Steps
        BY <2>2, SMTT(40) DEF TypeOK, Request, Steps
  <2>7. Goto(r, q, "float")
        BY <1>7 DEF OpenCreate
  <2>8. reqs' \in [Requests -> Request]
        BY <2>6, <2>7, GotoType
  <2>9. TypeOK'
        BY <2>2, <2>5, <2>8 DEF TypeOK
  <2>10. Fresh'
        BY <1>0, <2>2, <2>4 DEF Fresh, TypeOK, Sessions
  <2>11. \A x \in Requests : x # r => reqs'[x] = reqs[x]
        BY <2>7 DEF Goto, TypeOK
  <2>12. reqs'[r].session = opened + 1
        BY <2>7 DEF Goto, TypeOK, Request
  <2>13. \A x \in Requests : reqs[x].session \in Nat
        BY <1>0 DEF TypeOK, Request
  <2> HIDE DEF q
  <2>14. Chosen'
        BY <1>0, <2>2, <2>11, <2>12, <2>13 DEF Chosen
  <2> QED BY <2>9, <2>10, <2>14
<1>8. ASSUME NEW r \in Requests, OpenFloat(r) \/ CloseMovement(r) \/ Write(r) PROVE Good
  <2>1. reqs[r].at \in AtWork /\ reqs[r].type \in Types
        BY <1>8 DEF OpenFloat, CloseMovement, Write, AtWork, TypeOK, Request
  <2>2. PICK type \in Types, at \in Steps : Insert(r, reqs[r].session, type, at)
        BY <1>8, <2>1 DEF OpenFloat, CloseMovement, Write, Types, Steps
  <2> QED BY <2>1, <2>2, InsertChosen
<1>9. ASSUME NEW r \in Requests, Find(r) PROVE Good
  <2>1. CASE Goto(r, Idle, "failed")
        BY <1>3, <1>9, <2>1 DEF Find
  <2>2. CASE ~Goto(r, Idle, "failed")
    <3>1. PICK s \in Newest(Own(r)) :
            Goto(r, [reqs[r] EXCEPT !.session = s], IF reqs[r].op = "close" THEN "sum" ELSE "write")
          BY <1>9, <2>2 DEF Find
    <3>2. s \in Sessions /\ sessions[s].status = "OPEN"
          BY DEF Newest, Own, At, Open
    <3>3. s \in 0 .. MaxSessions /\ s # 0 /\ s <= opened
          BY <1>0, <3>2 DEF Fresh, Sessions
    <3>4. [reqs[r] EXCEPT !.session = s] \in Request /\ [reqs[r] EXCEPT !.session = s].session = s
          BY <3>3 DEF TypeOK, Request
    <3>5. (IF reqs[r].op = "close" THEN "sum" ELSE "write") \in Steps
          BY DEF Steps
    <3> QED BY <1>2, <1>9, <3>1, <3>3, <3>4, <3>5, GotoChosen DEF Find
  <2> QED BY <2>1, <2>2
<1>10. ASSUME NEW r \in Requests, CloseSum(r) PROVE Good
  <2> DEFINE row == sessions[reqs[r].session]
             why == {w \in {"floatless", "reclosed"} :
                       \/ w = "floatless" /\ row.moved["OPENING"] # row.opening
                       \/ w = "reclosed" /\ row.moved["CLOSING"] # 0}
             q   == [reqs[r] EXCEPT !.sum = Balance(row.moved), !.why = why]
  <2>1. reqs[r].session \in Sessions /\ reqs[r].session <= opened /\ reqs[r].session # 0
        BY <1>10, ChosenAt DEF CloseSum, AtWork, Sessions
  <2>2. Goto(r, q, "closing") /\ UNCHANGED <<sessions, opened>>
        BY <1>10 DEF CloseSum
  <2>3. why \subseteq Reasons /\ Balance(row.moved) \in Int
        BY <2>1, CountsInt DEF Reasons
  <2> HIDE DEF why
  <2>4. q \in Request /\ q.session = reqs[r].session
        BY <2>3 DEF TypeOK, Request
  <2> HIDE DEF q
  <2>5. "closing" \in Steps
        BY DEF Steps
  <2> QED BY <1>2, <2>1, <2>2, <2>4, <2>5, GotoChosen
<1>11. ASSUME NEW r \in Requests, CloseUpdate(r) PROVE Good
  <2> DEFINE s   == reqs[r].session
             row == [sessions[s] EXCEPT !.status = "CLOSED", !.expected = reqs[r].sum,
                                        !.why = reqs[r].why]
  <2>1. s \in Sessions /\ s <= opened
        BY <1>11, ChosenAt DEF CloseUpdate, AtWork
  <2>2. sessions' = [sessions EXCEPT ![s] = row] /\ row \in Session /\ row.status = "CLOSED"
    <3>1. sessions[s] \in Session /\ reqs[r].sum \in Int /\ reqs[r].why \in SUBSET Reasons
          BY <2>1 DEF TypeOK, Request
    <3>2. row \in Session /\ row.status = "CLOSED"
          BY <3>1 DEF Session
    <3>3. sessions' = [sessions EXCEPT ![s] = row]
          BY <1>11 DEF CloseUpdate
    <3> QED BY <3>2, <3>3
  <2> HIDE DEF row
  <2>3. \A x \in Requests :
          [reqs[x] EXCEPT !.at = IF x = r THEN "done" ELSE @, !.held = @ \ {s}] \in Request
    <3> TAKE x \in Requests
    <3>1. (IF x = r THEN "done" ELSE reqs[x].at) \in Steps /\ reqs[x].held \ {s} \in SUBSET Sessions
          BY DEF TypeOK, Request, Steps
    <3> QED BY <3>1 DEF TypeOK, Request
  <2>4. reqs' = [x \in Requests |->
                  [reqs[x] EXCEPT !.at = IF x = r THEN "done" ELSE @, !.held = @ \ {s}]]
        BY <1>11 DEF CloseUpdate
  <2>5. TypeOK'
    <3>1. reqs' \in [Requests -> Request]
          BY <2>3, <2>4
    <3>2. sessions' \in [Sessions -> Session]
          BY <2>2 DEF TypeOK
    <3> QED BY <1>11, <3>1, <3>2 DEF CloseUpdate, TypeOK
  <2>6. Fresh'
    <3>0. s \in Nat
          BY <1>0, <2>1 DEF Sessions
    <3>1. opened' = opened
          BY <1>11, Zenon DEF CloseUpdate
    <3>2. \A x \in Sessions : x > opened => x # s /\ sessions'[x] = sessions[x]
          BY <1>0, <2>1, <2>2, <3>0 DEF TypeOK, Sessions
    <3> QED BY <3>1, <3>2 DEF Fresh
  <2>7. \A x \in Requests : /\ reqs'[x].session = reqs[x].session
                            /\ reqs'[x].at \in AtWork => reqs[x].at \in AtWork
        BY <2>4 DEF TypeOK, Request, AtWork
  <2>8. Chosen'
        BY <1>11, <2>7 DEF CloseUpdate, Chosen
  <2> QED BY <2>5, <2>6, <2>8
<1>12. ASSUME NEW r \in Requests, Validate(r) PROVE Good
  <2>1. CASE Goto(r, Idle, "failed")
        BY <1>3, <1>12, <2>1 DEF Validate
  <2>2. CASE Goto(r, [reqs[r] EXCEPT !.held = Fit(reqs[r].branch)], "branch")
    <3> DEFINE q == [reqs[r] EXCEPT !.held = Fit(reqs[r].branch)]
    <3>1. Fit(reqs[r].branch) \subseteq Sessions
          BY DEF Fit, Open
    <3>2. q \in Request /\ q.session = reqs[r].session
          BY <3>1 DEF TypeOK, Request
    <3>3. "branch" \in Steps /\ "branch" \notin AtWork
          BY DEF Steps, AtWork
    <3> HIDE DEF q
    <3>4. q.session <= opened
          BY <3>2 DEF Chosen
    <3> QED BY <1>2, <1>12, <2>2, <3>2, <3>3, <3>4, GotoChosen DEF Validate, q
  <2> QED BY <1>12, <2>1, <2>2 DEF Validate
<1>13. ASSUME NEW r \in Requests, FindBranch(r) PROVE Good
  <2> DEFINE q == IF First(reqs[r].op) = "validate" THEN reqs[r]
                  ELSE [reqs[r] EXCEPT !.held = Fit(reqs[r].branch)]
  <2>1. Fit(reqs[r].branch) \subseteq Sessions
        BY DEF Fit, Open
  <2>2. q \in Request /\ q.session = reqs[r].session
        BY <2>1 DEF TypeOK, Request
  <2>3. UNCHANGED <<sessions, opened>> /\ "fallback" \in Steps /\ "write" \in Steps
        BY <1>13 DEF FindBranch, Steps
  <2>4. \/ \E s \in At(reqs[r].branch) : Goto(r, [q EXCEPT !.session = s], "write")
        \/ Goto(r, q, "fallback")
        BY <1>13 DEF FindBranch
  <2> HIDE DEF q
  <2>5. CASE Goto(r, q, "fallback")
    <3>1. q.session <= opened /\ "fallback" \notin AtWork
          BY <2>2 DEF Chosen, AtWork
    <3> QED BY <1>2, <2>2, <2>3, <2>5, <3>1, GotoChosen
  <2>6. ASSUME NEW s \in At(reqs[r].branch), Goto(r, [q EXCEPT !.session = s], "write") PROVE Good
    <3>1. s \in Sessions /\ sessions[s].status = "OPEN"
          BY DEF At, Open
    <3>2. s \in 0 .. MaxSessions /\ s # 0 /\ s <= opened
          BY <1>0, <3>1 DEF Fresh, Sessions
    <3>3. [q EXCEPT !.session = s] \in Request /\ [q EXCEPT !.session = s].session = s
          BY <2>2, <3>2 DEF Request
    <3> QED BY <1>2, <2>3, <2>6, <3>2, <3>3, GotoChosen
  <2> QED BY <2>4, <2>5, <2>6
<1>14. ASSUME NEW r \in Requests, Fallback(r) PROVE Good
  <2>1. /\ UNCHANGED <<sessions, opened>> /\ "done" \in Steps /\ "write" \in Steps
        /\ \/ \E s \in Open : Goto(r, [reqs[r] EXCEPT !.session = s], "write")
           \/ Goto(r, reqs[r], "done")
        BY <1>14 DEF Fallback, Steps
  <2>2. reqs[r] \in Request
        BY DEF TypeOK
  <2>3. CASE Goto(r, reqs[r], "done")
    <3>1. reqs[r].session <= opened /\ "done" \notin AtWork
          BY DEF Chosen, AtWork
    <3> QED BY <1>2, <2>1, <2>2, <2>3, <3>1, GotoChosen
  <2>4. ASSUME NEW s \in Open, Goto(r, [reqs[r] EXCEPT !.session = s], "write") PROVE Good
    <3>1. s \in 0 .. MaxSessions /\ s # 0 /\ s <= opened
          BY <1>0 DEF Fresh, Sessions, Open
    <3>2. [reqs[r] EXCEPT !.session = s] \in Request /\ [reqs[r] EXCEPT !.session = s].session = s
          BY <2>2, <3>1 DEF Request
    <3> QED BY <1>2, <2>1, <2>4, <3>1, <3>2, GotoChosen
  <2> QED BY <2>1, <2>3, <2>4
<1> HIDE DEF Good
<1>15. Good
       BY <1>1, <1>4, <1>5, <1>6, <1>7, <1>8, <1>9, <1>10, <1>11, <1>12, <1>13, <1>14
       DEF Next, Step
<1> QED BY <1>15 DEF Good

\* Every session and call is of its type, for any calls, cashiers, branches and limits.
THEOREM TypeCorrect == Spec => []TypeOK
<1>1. TypeOK /\ Fresh /\ Chosen /\ [Next]_vars => TypeOK' /\ Fresh' /\ Chosen'
      BY TypeStep
<1> QED BY <1>1, InitType, PTL DEF Spec

LEMMA RowsCorrect == Spec => [](TypeOK /\ Fresh /\ Chosen)
<1>1. TypeOK /\ Fresh /\ Chosen /\ [Next]_vars => TypeOK' /\ Fresh' /\ Chosen'
      BY TypeStep
<1> QED BY <1>1, InitType, PTL DEF Spec

-----------------------------------------------------------------------------
(* What the steps that write a session do.                                 *)

\* What an insertion of a movement leaves.
Inserted(r, s, type, at) ==
  /\ opened' = opened
  /\ \A x \in Sessions : x # s => sessions'[x] = sessions[x]
  /\ /\ sessions'[s].status = sessions[s].status
     /\ sessions'[s].branch = sessions[s].branch
     /\ sessions'[s].alone = sessions[s].alone
     /\ sessions'[s].opening = sessions[s].opening
     /\ sessions'[s].expected = sessions[s].expected
     /\ sessions'[s].moved = [sessions[s].moved EXCEPT ![type] = @ + reqs[r].amount]
     /\ sessions[s].why \subseteq sessions'[s].why
     /\ type # "CLOSING" /\ sessions[s].status = "CLOSED" => "late" \in sessions'[s].why
  /\ reqs'[r] = [reqs[r] EXCEPT !.at = at, !.session = s]
  /\ \A q \in Requests : q # r =>
       /\ \/ reqs'[q] = reqs[q]
          \/ reqs'[q] = [reqs[q] EXCEPT !.why = @ \cup {"late"}]
       /\ type # "CLOSING" /\ Closing(q, s) => "late" \in reqs'[q].why

LEMMA InsertFields ==
  ASSUME TypeOK, NEW r \in Requests, NEW s \in Sessions, NEW type \in Types, NEW at \in Steps,
         Insert(r, s, type, at)
  PROVE  Inserted(r, s, type, at)
<1> DEFINE late == IF type = "CLOSING" THEN {} ELSE {"late"}
           why  == IF sessions[s].status = "CLOSED" THEN sessions[s].why \cup late ELSE sessions[s].why
           moved == [sessions[s].moved EXCEPT ![type] = @ + reqs[r].amount]
           row  == [sessions[s] EXCEPT !.moved = moved, !.why = why]
<1>1. opened' = opened /\ sessions' = [sessions EXCEPT ![s] = row]
      BY DEF Insert
<1>2. row.moved = moved /\ row.why = why /\ row.status = sessions[s].status
      /\ row.branch = sessions[s].branch /\ row.opening = sessions[s].opening
      /\ row.expected = sessions[s].expected /\ row.alone = sessions[s].alone
      BY DEF TypeOK, Session
<1>3. sessions[s].why \subseteq why
      OBVIOUS
<1>4. type # "CLOSING" /\ sessions[s].status = "CLOSED" => "late" \in why
      OBVIOUS
<1>5. sessions'[s] = row /\ \A x \in Sessions : x # s => sessions'[x] = sessions[x]
      BY <1>1 DEF TypeOK
<1>6. reqs' = [q \in Requests |->
          IF q = r THEN [reqs[q] EXCEPT !.at = at, !.session = s]
          ELSE IF Closing(q, s) THEN [reqs[q] EXCEPT !.why = @ \cup late]
          ELSE reqs[q]]
      BY DEF Insert
<1>7. reqs'[r] = [reqs[r] EXCEPT !.at = at, !.session = s]
      BY <1>6
<1>8. ASSUME NEW q \in Requests, q # r
      PROVE  /\ \/ reqs'[q] = reqs[q]
                \/ reqs'[q] = [reqs[q] EXCEPT !.why = @ \cup {"late"}]
             /\ type # "CLOSING" /\ Closing(q, s) => "late" \in reqs'[q].why
  <2>1. CASE type = "CLOSING"
    <3>1. [reqs[q] EXCEPT !.why = @ \cup {}] = reqs[q]
          BY DEF TypeOK, Request
    <3> QED BY <1>6, <1>8, <2>1, <3>1
  <2>2. CASE type # "CLOSING"
    <3>1. "late" \in [reqs[q] EXCEPT !.why = @ \cup {"late"}].why
          BY DEF TypeOK, Request
    <3>2. reqs'[q] = IF Closing(q, s) THEN [reqs[q] EXCEPT !.why = @ \cup {"late"}] ELSE reqs[q]
          BY <1>6, <1>8, <2>2
    <3>3. CASE Closing(q, s)
          BY <3>1, <3>2, <3>3
    <3>4. CASE ~Closing(q, s)
          BY <3>2, <3>4
    <3> QED BY <3>3, <3>4
  <2> QED BY <2>1, <2>2
<1> HIDE DEF row, why, late, moved
<1> QED BY <1>1, <1>2, <1>3, <1>4, <1>5, <1>7, <1>8 DEF moved, Inserted

LEMMA CreateFields ==
  ASSUME TypeOK, NEW r \in Requests, OpenCreate(r)
  PROVE  /\ reqs[r].at = "create"
         /\ opened' = opened + 1 /\ opened + 1 \in Sessions
         /\ \A x \in Sessions : x # opened + 1 => sessions'[x] = sessions[x]
         /\ sessions'[opened + 1].status = "OPEN"
         /\ sessions'[opened + 1].alone = (reqs[r].seen = opened)
         /\ reqs[r].branch # NoBranch => sessions'[opened + 1].branch = reqs[r].branch
         /\ reqs'[r] = [reqs[r] EXCEPT !.session = opened + 1, !.at = "float"]
         /\ \A q \in Requests : q # r => reqs'[q] = reqs[q]
<1>1. opened + 1 \in Sessions /\ opened' = opened + 1 /\ reqs[r].at = "create"
      BY DrawerAssumption DEF OpenCreate, Sessions, TypeOK
<1>2. PICK b \in IF reqs[r].branch = NoBranch THEN Scopes ELSE {reqs[r].branch} :
        sessions' = [sessions EXCEPT ![opened + 1] =
          [NoSession EXCEPT !.status = "OPEN", !.user = reqs[r].user, !.branch = b,
                            !.opening = reqs[r].amount, !.alone = reqs[r].seen = opened]]
      BY Zenon DEF OpenCreate
<1> DEFINE row == [NoSession EXCEPT !.status = "OPEN", !.user = reqs[r].user, !.branch = b,
                            !.opening = reqs[r].amount, !.alone = reqs[r].seen = opened]
<1>3. row.status = "OPEN" /\ row.branch = b
      BY DEF NoSession
<1>4. row.alone = (reqs[r].seen = opened)
      BY Zenon DEF NoSession
<1>5. sessions' = [sessions EXCEPT ![opened + 1] = row]
      BY <1>2
<1> HIDE DEF row
<1>6. sessions'[opened + 1] = row /\ \A x \in Sessions : x # opened + 1 => sessions'[x] = sessions[x]
      BY <1>1, <1>5 DEF TypeOK
<1>7. /\ reqs'[r] = [reqs[r] EXCEPT !.session = opened + 1, !.at = "float"]
      /\ \A q \in Requests : q # r => reqs'[q] = reqs[q]
      BY DEF OpenCreate, Goto, TypeOK
<1>8. reqs[r].branch # NoBranch => b = reqs[r].branch
      BY <1>2
<1> QED BY <1>1, <1>3, <1>4, <1>6, <1>7, <1>8

\* What closeDrawer's update of session s leaves.
Updated(r, s) ==
  /\ opened' = opened /\ reqs[r].at = "update"
  /\ \A x \in Sessions : x # s => sessions'[x] = sessions[x]
  /\ /\ sessions'[s].status = "CLOSED"
     /\ sessions'[s].branch = sessions[s].branch
     /\ sessions'[s].alone = sessions[s].alone
     /\ sessions'[s].opening = sessions[s].opening
     /\ sessions'[s].moved = sessions[s].moved
     /\ sessions'[s].expected = reqs[r].sum
     /\ sessions'[s].why = reqs[r].why
  /\ \A q \in Requests :
       reqs'[q] = [reqs[q] EXCEPT !.at = IF q = r THEN "done" ELSE @, !.held = @ \ {s}]

LEMMA UpdateFields ==
  ASSUME TypeOK, NEW r \in Requests, CloseUpdate(r), NEW s \in Sessions, s = reqs[r].session
  PROVE  Updated(r, s)
<1> DEFINE row == [sessions[s] EXCEPT !.status = "CLOSED", !.expected = reqs[r].sum,
                                      !.why = reqs[r].why]
<1>1. sessions' = [sessions EXCEPT ![s] = row]
      BY DEF CloseUpdate
<1>2. /\ row.status = "CLOSED" /\ row.branch = sessions[s].branch /\ row.alone = sessions[s].alone
      /\ row.opening = sessions[s].opening /\ row.moved = sessions[s].moved
      /\ row.expected = reqs[r].sum /\ row.why = reqs[r].why
      BY DEF TypeOK, Session
<1> HIDE DEF row
<1>3. sessions'[s] = row /\ \A x \in Sessions : x # s => sessions'[x] = sessions[x]
      BY <1>1 DEF TypeOK
<1>4. reqs' = [q \in Requests |->
        [reqs[q] EXCEPT !.at = IF q = r THEN "done" ELSE @, !.held = @ \ {s}]]
      BY DEF CloseUpdate
<1>5. opened' = opened /\ reqs[r].at = "update"
      BY Zenon DEF CloseUpdate
<1> QED BY <1>2, <1>3, <1>4, <1>5 DEF Updated

Quiet(r) == \/ Begin(r) \/ Fail(r) \/ OpenCount(r) \/ Find(r) \/ CloseSum(r)
            \/ Validate(r) \/ FindBranch(r) \/ Fallback(r)

LEMMA QuietFields ==
  ASSUME TypeOK, NEW r \in Requests, Quiet(r)
  PROVE  /\ UNCHANGED <<sessions, opened>>
         /\ \A q \in Requests : q # r => reqs'[q] = reqs[q]
BY DEF Quiet, TypeOK, Begin, Fail, OpenCount, Find, CloseSum, Validate, FindBranch, Fallback, Goto

LEMMA InsertMade ==
  ASSUME TypeOK, Chosen, NEW r \in Requests, OpenFloat(r) \/ CloseMovement(r) \/ Write(r)
  PROVE  /\ reqs[r].session \in Sessions /\ reqs[r].session <= opened
         /\ reqs[r].at \in {"float", "closing", "write"}
         /\ \E type \in Types, at \in {"done", "update"} :
              /\ Insert(r, reqs[r].session, type, at)
              /\ at = "update" => type = "CLOSING" /\ reqs[r].at = "closing"
<1>1. reqs[r].at \in {"float", "closing", "write"} /\ reqs[r].type \in Types
      BY DEF OpenFloat, CloseMovement, Write, TypeOK, Request
<1>2. reqs[r].session \in Sessions /\ reqs[r].session <= opened
      BY <1>1, ChosenAt DEF AtWork
<1>3. "OPENING" \in Types /\ "CLOSING" \in Types
      BY DEF Types
<1>4. CASE OpenFloat(r)
  <2>1. Insert(r, reqs[r].session, "OPENING", "done")
        BY <1>4 DEF OpenFloat
  <2> QED BY <1>1, <1>2, <1>3, <2>1
<1>5. CASE CloseMovement(r)
  <2>1. Insert(r, reqs[r].session, "CLOSING", "update") /\ reqs[r].at = "closing"
        BY <1>5 DEF CloseMovement
  <2> QED BY <1>1, <1>2, <1>3, <2>1
<1>6. CASE Write(r)
  <2>1. Insert(r, reqs[r].session, reqs[r].type, "done")
        BY <1>6 DEF Write
  <2> QED BY <1>1, <1>2, <2>1
<1> QED BY <1>4, <1>5, <1>6

-----------------------------------------------------------------------------
(* The balance of a closed session.                                        *)

\* getReport's figure, from the row alone.
Counted(row) ==
  row.opening + row.moved["SALE"] - row.moved["REFUND"] + row.moved["CASH_IN"]
    - row.moved["CASH_OUT"]

Explained(row) == row.status = "CLOSED" /\ row.why = {} => row.expected = Counted(row)

\* What closeDrawer has summed and not yet stored is what the report says, too.
Sums(q) == q.at \in {"closing", "update"} /\ q.why = {}

Summed ==
  /\ \A q \in Requests : Sums(reqs[q]) => reqs[q].sum = Counted(sessions[reqs[q].session])
  /\ \A s \in Sessions : Explained(sessions[s])

LEMMA CountedSame ==
  ASSUME NEW v, NEW w, v.opening = w.opening, v.moved = w.moved
  PROVE  Counted(v) = Counted(w)
BY DEF Counted

LEMMA CountedClosing ==
  ASSUME NEW v, NEW w \in Session, NEW n, v.opening = w.opening,
         v.moved = [w.moved EXCEPT !["CLOSING"] = @ + n]
  PROVE  Counted(v) = Counted(w)
<1>1. \A t \in {"SALE", "REFUND", "CASH_IN", "CASH_OUT"} : v.moved[t] = w.moved[t]
      BY DEF Session, Types
<1> QED BY <1>1 DEF Counted

\* The two ways of counting agree when the float is there and no CLOSING movement is.
LEMMA SumsAgree ==
  ASSUME NEW w \in Session, w.moved["OPENING"] = w.opening, w.moved["CLOSING"] = 0
  PROVE  Balance(w.moved) = Counted(w)
<1>1. \A t \in Types : w.moved[t] \in Nat
      BY DEF Session
<1>2. /\ w.moved["OPENING"] \in Nat /\ w.moved["SALE"] \in Nat
      /\ w.moved["REFUND"] \in Nat /\ w.moved["CASH_IN"] \in Nat
      /\ w.moved["CASH_OUT"] \in Nat /\ w.moved["CLOSING"] \in Nat
      BY <1>1 DEF Types
<1> QED BY <1>2 DEF Balance, Counted

LEMMA SummedNow ==
  ASSUME TypeOK, Chosen, NEW r \in Requests, CloseSum(r), reqs'[r].why = {}
  PROVE  reqs'[r].sum = Counted(sessions[reqs'[r].session])
<1> DEFINE row == sessions[reqs[r].session]
           why == {w \in {"floatless", "reclosed"} :
                     \/ w = "floatless" /\ row.moved["OPENING"] # row.opening
                     \/ w = "reclosed" /\ row.moved["CLOSING"] # 0}
<1>1. row \in Session
      BY ChosenAt DEF CloseSum, AtWork, TypeOK
<1>2. reqs' = [reqs EXCEPT ![r] = [[reqs[r] EXCEPT !.sum = Balance(row.moved), !.why = why]
                                     EXCEPT !.at = "closing"]]
      BY DEF CloseSum, Goto
<1> HIDE DEF why
<1>3. /\ reqs'[r].sum = Balance(row.moved) /\ reqs'[r].why = why
      /\ reqs'[r].session = reqs[r].session
      BY <1>2 DEF TypeOK, Request
<1>4. "floatless" \notin why /\ "reclosed" \notin why
      BY <1>3
<1>5. row.moved["OPENING"] = row.opening /\ row.moved["CLOSING"] = 0
      BY <1>4 DEF why
<1> QED BY <1>1, <1>3, <1>5, SumsAgree

\* Every step keeps both facts: what it counts, or what it adds, is marked.
LEMMA SummedStep ==
  ASSUME TypeOK, Chosen, Summed, [Next]_vars PROVE Summed'
<1>1. ASSUME UNCHANGED vars PROVE Summed'
      BY <1>1 DEF vars, Summed
<1>2. ASSUME NEW r \in Requests, Quiet(r) PROVE Summed'
  <2>1. sessions' = sessions /\ \A q \in Requests : q # r => reqs'[q] = reqs[q]
        BY <1>2, QuietFields
  <2>2. CASE CloseSum(r)
    <3>1. reqs'[r].why = {} => reqs'[r].sum = Counted(sessions[reqs'[r].session])
          BY <2>2, SummedNow
    <3> QED BY <2>1, <3>1 DEF Summed, Sums
  <2>3. CASE ~CloseSum(r)
    <3>1. reqs'[r].at \notin {"closing", "update"}
      <4>1. CASE Begin(r)
        <5>1. PICK op \in Ops : reqs'[r].at = First(op)
              BY <4>1 DEF Begin, Goto, Idle, TypeOK
        <5> QED BY <5>1 DEF First
      <4>2. CASE Fail(r) \/ OpenCount(r)
            BY <4>2, ZenonT(60) DEF Fail, OpenCount, Goto, Idle, TypeOK, Request
      <4>3. CASE Find(r)
            BY <4>3 DEF Find, Goto, Idle, TypeOK, Request
      <4>4. CASE Validate(r)
            BY <4>4 DEF Validate, Goto, Idle, TypeOK, Request
      <4>5. CASE FindBranch(r)
        <5> DEFINE q == IF First(reqs[r].op) = "validate" THEN reqs[r]
                        ELSE [reqs[r] EXCEPT !.held = Fit(reqs[r].branch)]
        <5>1. \/ \E s \in At(reqs[r].branch) : Goto(r, [q EXCEPT !.session = s], "write")
              \/ Goto(r, q, "fallback")
              BY <4>5 DEF FindBranch
        <5>2. q \in [DOMAIN reqs[r] -> {q[f] : f \in DOMAIN reqs[r]}] /\ "at" \in DOMAIN q
              BY DEF TypeOK, Request
        <5> HIDE DEF q
        <5> QED BY <5>1, <5>2 DEF Goto, TypeOK
      <4>6. CASE Fallback(r)
            BY <4>6, ZenonT(60) DEF Fallback, Goto, TypeOK, Request
      <4> QED BY <1>2, <2>3, <4>1, <4>2, <4>3, <4>4, <4>5, <4>6 DEF Quiet
    <3> QED BY <2>1, <3>1 DEF Summed, Sums
  <2> QED BY <2>2, <2>3
<1>3. ASSUME NEW r \in Requests, OpenFloat(r) \/ CloseMovement(r) \/ Write(r) PROVE Summed'
  <2>0. PICK s \in Sessions : s = reqs[r].session
        BY <1>3, InsertMade
  <2>1. PICK type \in Types, at \in {"done", "update"} :
          /\ Insert(r, s, type, at)
          /\ at = "update" => type = "CLOSING" /\ reqs[r].at = "closing"
        BY <1>3, <2>0, InsertMade
  <2>2. Inserted(r, s, type, at)
        BY <2>1, InsertFields DEF Steps
  <2>3. /\ \A x \in Sessions : x # s => sessions'[x] = sessions[x]
        /\ sessions'[s].status = sessions[s].status
        /\ sessions'[s].opening = sessions[s].opening
        /\ sessions'[s].expected = sessions[s].expected
        /\ sessions'[s].moved = [sessions[s].moved EXCEPT ![type] = @ + reqs[r].amount]
        /\ sessions[s].why \subseteq sessions'[s].why
        /\ type # "CLOSING" /\ sessions[s].status = "CLOSED" => "late" \in sessions'[s].why
        BY <2>2 DEF Inserted
  <2>4. reqs'[r] = [reqs[r] EXCEPT !.at = at, !.session = s]
        BY <2>2 DEF Inserted
  <2>5. \A q \in Requests : q # r =>
              /\ \/ reqs'[q] = reqs[q]
                 \/ reqs'[q] = [reqs[q] EXCEPT !.why = @ \cup {"late"}]
              /\ type # "CLOSING" /\ Closing(q, s) => "late" \in reqs'[q].why
        BY <2>2 DEF Inserted
  <2>6. type = "CLOSING" => Counted(sessions'[s]) = Counted(sessions[s])
        BY <2>3, CountedClosing DEF TypeOK
  <2>7. ASSUME NEW x \in Sessions PROVE Explained(sessions'[x])
    <3>1. CASE x # s
          BY <2>3, <3>1 DEF Summed
    <3>2. CASE x = s
          BY <2>3, <2>6, <3>2 DEF Summed, Explained
    <3> QED BY <3>1, <3>2
  <2>8. ASSUME NEW q \in Requests, Sums(reqs'[q])
        PROVE  reqs'[q].sum = Counted(sessions'[reqs'[q].session])
    <3>1. CASE q = r
      <4>1. /\ reqs'[r].at = at /\ reqs'[r].session = s
            /\ reqs'[r].sum = reqs[r].sum /\ reqs'[r].why = reqs[r].why
            BY <2>4 DEF TypeOK, Request
      <4>2. at = "update" /\ type = "CLOSING" /\ reqs[r].at = "closing"
            BY <2>1, <2>8, <3>1, <4>1 DEF Sums
      <4>3. reqs[r].sum = Counted(sessions[s])
            BY <2>0, <2>8, <3>1, <4>1, <4>2 DEF Summed, Sums
      <4> QED BY <2>6, <3>1, <4>1, <4>2, <4>3
    <3>2. CASE q # r
      <4>0. "late" \in [reqs[q] EXCEPT !.why = @ \cup {"late"}].why
            BY DEF TypeOK, Request
      <4>1. reqs'[q] = reqs[q]
            BY <2>5, <2>8, <3>2, <4>0 DEF Sums
      <4>2. reqs[q].sum = Counted(sessions[reqs[q].session]) /\ reqs[q].session \in Sessions
            BY <2>8, <4>1, ChosenAt DEF Summed, Sums, AtWork
      <4>3. reqs[q].session = s => type = "CLOSING"
            BY <2>5, <2>8, <3>2, <4>1 DEF Closing, Sums
      <4> QED BY <2>3, <2>6, <4>1, <4>2, <4>3
    <3> QED BY <3>1, <3>2
  <2> QED BY <2>7, <2>8 DEF Summed
<1>4. ASSUME NEW r \in Requests, OpenCreate(r) PROVE Summed'
  <2>1. /\ opened + 1 \in Sessions
        /\ \A x \in Sessions : x # opened + 1 => sessions'[x] = sessions[x]
        /\ sessions'[opened + 1].status = "OPEN"
        /\ reqs'[r] = [reqs[r] EXCEPT !.session = opened + 1, !.at = "float"]
        /\ \A q \in Requests : q # r => reqs'[q] = reqs[q]
        BY <1>4, CreateFields
  <2>2. \A x \in Sessions : Explained(sessions'[x])
        BY <2>1 DEF Summed, Explained
  <2>3. reqs'[r].at = "float"
        BY <2>1 DEF TypeOK, Request
  <2>4. ASSUME NEW q \in Requests, Sums(reqs'[q])
        PROVE  reqs'[q].sum = Counted(sessions'[reqs'[q].session])
    <3>1. reqs'[q] = reqs[q]
          BY <2>1, <2>3, <2>4 DEF Sums
    <3>2. reqs[q].session \in Sessions /\ reqs[q].session <= opened /\ opened \in Nat
          BY <2>4, <3>1, ChosenAt, DrawerAssumption DEF Sums, AtWork, TypeOK
    <3>3. reqs[q].session # opened + 1
          BY <3>2, DrawerAssumption DEF Sessions
    <3> QED BY <2>1, <2>4, <3>1, <3>2, <3>3 DEF Summed
  <2> QED BY <2>2, <2>4 DEF Summed
<1>5. ASSUME NEW r \in Requests, CloseUpdate(r) PROVE Summed'
  <2>1. PICK s \in Sessions : s = reqs[r].session
        BY <1>5, ChosenAt DEF CloseUpdate, AtWork
  <2>2. /\ reqs[r].at = "update"
        /\ \A x \in Sessions : x # s => sessions'[x] = sessions[x]
        /\ sessions'[s].opening = sessions[s].opening
        /\ sessions'[s].moved = sessions[s].moved
        /\ sessions'[s].expected = reqs[r].sum
        /\ sessions'[s].why = reqs[r].why
        /\ \A q \in Requests :
             reqs'[q] = [reqs[q] EXCEPT !.at = IF q = r THEN "done" ELSE @, !.held = @ \ {s}]
    <3>1. Updated(r, s)
          BY <1>5, <2>1, UpdateFields
    <3> QED BY <3>1 DEF Updated
  <2>3. \A x \in Sessions : Counted(sessions'[x]) = Counted(sessions[x])
        BY <2>2 DEF Counted
  <2>4. ASSUME NEW x \in Sessions PROVE Explained(sessions'[x])
    <3>1. CASE x # s
          BY <2>2, <3>1 DEF Summed
    <3>2. CASE x = s
          BY <2>1, <2>2, <2>3, <3>2 DEF Summed, Sums, Explained
    <3> QED BY <3>1, <3>2
  <2>5. ASSUME NEW q \in Requests, Sums(reqs'[q])
        PROVE  reqs'[q].sum = Counted(sessions'[reqs'[q].session])
    <3>0. reqs'[q] = [reqs[q] EXCEPT !.at = IF q = r THEN "done" ELSE @, !.held = @ \ {s}]
          BY <2>2
    <3>1. reqs'[q].at = (IF q = r THEN "done" ELSE reqs[q].at)
          BY <3>0 DEF TypeOK, Request
    <3>2. /\ reqs'[q].sum = reqs[q].sum /\ reqs'[q].session = reqs[q].session
          /\ reqs'[q].at = reqs[q].at /\ reqs'[q].why = reqs[q].why
          BY <2>5, <3>0, <3>1 DEF Sums, TypeOK, Request
    <3>3. reqs[q].sum = Counted(sessions[reqs[q].session]) /\ reqs[q].session \in Sessions
          BY <2>5, <3>2, ChosenAt DEF Summed, Sums, AtWork
    <3> QED BY <2>3, <3>2, <3>3
  <2> QED BY <2>4, <2>5 DEF Summed
<1>6. CASE Next
      BY <1>2, <1>3, <1>4, <1>5, <1>6 DEF Next, Step, Quiet
<1> QED BY <1>1, <1>6

\* The stored balance of a closed session is the one its report computes, unless the
\* session records why not.
THEOREM BalanceCorrect == Spec => []BalanceExplained
<1>1. Init => Summed
      BY DEF Init, Summed, Sums, Explained, NoSession, Idle
<1>2. TypeOK /\ Chosen /\ Summed /\ [Next]_vars => Summed'
      BY SummedStep
<1>3. Summed => BalanceExplained
      BY DEF Summed, Explained, BalanceExplained, Counted, Report
<1> QED BY <1>1, <1>2, <1>3, RowsCorrect, PTL DEF Spec

-----------------------------------------------------------------------------
(* Closed sessions wind up.                                                *)

LEMMA InsertedSomewhere ==
  ASSUME TypeOK, Chosen, NEW r \in Requests, OpenFloat(r) \/ CloseMovement(r) \/ Write(r)
  PROVE  \E s \in Sessions, type \in Types, at \in {"done", "update"} :
           /\ s = reqs[r].session /\ s <= opened /\ reqs[r].at \in {"float", "closing", "write"}
           /\ at = "update" => reqs[r].at = "closing"
           /\ Inserted(r, s, type, at)
<1>1. PICK s \in Sessions : s = reqs[r].session /\ s <= opened
      BY InsertMade
<1>2. PICK type \in Types, at \in {"done", "update"} :
        /\ Insert(r, s, type, at)
        /\ at = "update" => type = "CLOSING" /\ reqs[r].at = "closing"
      BY <1>1, InsertMade
<1>3. Inserted(r, s, type, at)
      BY <1>2, InsertFields DEF Steps
<1>4. reqs[r].at \in {"float", "closing", "write"}
      BY InsertMade
<1> QED BY <1>1, <1>2, <1>3, <1>4

\* A call that writes no session keeps the one it chose, or drops it, or picks an open one.
LEMMA QuietChoice ==
  ASSUME TypeOK, NEW r \in Requests, Quiet(r)
  PROVE  \/ reqs'[r].session = 0
         \/ /\ reqs'[r].session = reqs[r].session
            /\ reqs[r].at \notin {"idle", "done", "failed"}
         \/ reqs'[r].session \in Open
<1>1. CASE Begin(r)
  <2>1. PICK op \in Ops, u \in Users, b \in Scopes, n \in Amounts, type \in Manual :
          Goto(r, [Idle EXCEPT !.op = op, !.user = u, !.branch = b, !.amount = n, !.type = type],
               First(op))
        BY <1>1 DEF Begin
  <2> QED BY <2>1 DEF Goto, Idle, TypeOK
<1>2. CASE Fail(r) \/ OpenCount(r)
      BY <1>2, ZenonT(60) DEF Fail, OpenCount, Goto, Idle, TypeOK, Request
<1>3. CASE Find(r)
  <2>1. CASE Goto(r, Idle, "failed")
        BY <2>1 DEF Goto, Idle, TypeOK
  <2>2. ASSUME NEW s \in Newest(Own(r)),
               Goto(r, [reqs[r] EXCEPT !.session = s], IF reqs[r].op = "close" THEN "sum" ELSE "write")
        PROVE  reqs'[r].session \in Open
    <3>1. s \in Open
          BY DEF Newest, Own, At
    <3> QED BY <2>2, <3>1 DEF Goto, TypeOK, Request
  <2> QED BY <1>3, <2>1, <2>2 DEF Find
<1>4. CASE CloseSum(r) \/ Validate(r)
  <2>1. CASE CloseSum(r)
    <3>1. reqs[r].at = "sum" /\ \E x, w :
            Goto(r, [reqs[r] EXCEPT !.sum = x, !.why = w], "closing")
          BY <2>1 DEF CloseSum
    <3> QED BY <3>1 DEF Goto, TypeOK, Request
  <2>2. CASE Validate(r)
    <3>1. reqs[r].at = "validate" /\ \E x :
            Goto(r, Idle, "failed") \/ Goto(r, [reqs[r] EXCEPT !.held = x], "branch")
          BY <2>2 DEF Validate
    <3> QED BY <3>1, ZenonT(60) DEF Goto, TypeOK, Request, Idle
  <2> QED BY <1>4, <2>1, <2>2
<1>5. CASE FindBranch(r)
  <2> DEFINE q == IF First(reqs[r].op) = "validate" THEN reqs[r]
                  ELSE [reqs[r] EXCEPT !.held = Fit(reqs[r].branch)]
  <2>1. /\ reqs[r].at = "branch"
        /\ \/ \E s \in At(reqs[r].branch) : Goto(r, [q EXCEPT !.session = s], "write")
           \/ Goto(r, q, "fallback")
        BY <1>5 DEF FindBranch
  <2>2. q \in Request /\ q.session = reqs[r].session
        BY DEF TypeOK, Request, Fit, Open
  <2> HIDE DEF q
  <2>3. CASE Goto(r, q, "fallback")
        BY <2>1, <2>2, <2>3 DEF Goto, TypeOK, Request
  <2>4. ASSUME NEW s \in At(reqs[r].branch), Goto(r, [q EXCEPT !.session = s], "write")
        PROVE  reqs'[r].session \in Open
        BY <2>2, <2>4 DEF Goto, TypeOK, Request, At
  <2> QED BY <2>1, <2>3, <2>4
<1>6. CASE Fallback(r)
  <2>1. /\ reqs[r].at = "fallback"
        /\ \/ \E s \in Open : Goto(r, [reqs[r] EXCEPT !.session = s], "write")
           \/ Goto(r, reqs[r], "done")
        BY <1>6 DEF Fallback
  <2> QED BY <2>1, ZenonT(60) DEF Goto, TypeOK, Request
<1> QED BY <1>1, <1>2, <1>3, <1>4, <1>5, <1>6 DEF Quiet

Final(s) ==
  /\ sessions'[s].status = "CLOSED"
  /\ Working(s)' \subseteq Working(s)
  /\ Working(s) = {} => sessions'[s] = sessions[s]

LEMMA FinalStep ==
  ASSUME TypeOK, Fresh, Chosen, [Next]_vars, NEW s \in Sessions, sessions[s].status = "CLOSED"
  PROVE  Final(s)
<1>0. s \in Nat /\ s # 0
      BY DrawerAssumption DEF Sessions
<1>1. ASSUME UNCHANGED vars PROVE Final(s)
      BY <1>1 DEF vars, Final, Working
<1>2. ASSUME NEW r \in Requests, Quiet(r) PROVE Final(s)
  <2>1. sessions' = sessions /\ \A q \in Requests : q # r => reqs'[q] = reqs[q]
        BY <1>2, QuietFields
  <2>2. reqs'[r].session = s => r \in Working(s)
        BY <1>0, <1>2, QuietChoice DEF Open, Working
  <2> QED BY <2>1, <2>2 DEF Final, Working
<1>3. ASSUME NEW r \in Requests, OpenFloat(r) \/ CloseMovement(r) \/ Write(r) PROVE Final(s)
  <2>1. PICK t \in Sessions, type \in Types, at \in {"done", "update"} :
           /\ t = reqs[r].session /\ reqs[r].at \in {"float", "closing", "write"}
           /\ Inserted(r, t, type, at)
        BY <1>3, InsertedSomewhere
  <2>2. r \in Working(t)
        BY <2>1 DEF Working
  <2>3. /\ \A x \in Sessions : x # t => sessions'[x] = sessions[x]
        /\ sessions'[t].status = sessions[t].status
        BY <2>1 DEF Inserted
  <2>4. \A q \in Requests : q # r =>
          reqs'[q] = reqs[q] \/ reqs'[q] = [reqs[q] EXCEPT !.why = @ \cup {"late"}]
        BY <2>1 DEF Inserted
  <2>5. reqs'[r].session = t
        BY <2>1 DEF Inserted, TypeOK, Request
  <2>6. \A q \in Requests : q # r => reqs'[q].session = reqs[q].session /\ reqs'[q].at = reqs[q].at
        BY <2>4, ZenonT(60) DEF TypeOK, Request
  <2>7. Working(s)' \subseteq Working(s)
        BY <2>2, <2>5, <2>6 DEF Working
  <2> QED BY <2>2, <2>3, <2>7 DEF Final
<1>4. ASSUME NEW r \in Requests, OpenCreate(r) PROVE Final(s)
  <2>1. /\ opened + 1 \in Sessions
        /\ \A x \in Sessions : x # opened + 1 => sessions'[x] = sessions[x]
        /\ reqs'[r] = [reqs[r] EXCEPT !.session = opened + 1, !.at = "float"]
        /\ \A q \in Requests : q # r => reqs'[q] = reqs[q]
        BY <1>4, CreateFields
  <2>2. opened + 1 > opened
        BY <2>1, DrawerAssumption DEF TypeOK
  <2>3. sessions[opened + 1].status = "NONE"
        BY <2>1, <2>2 DEF Fresh
  <2>4. s # opened + 1
        BY <2>3
  <2>5. reqs'[r].session = opened + 1
        BY <2>1 DEF TypeOK, Request
  <2> QED BY <2>1, <2>4, <2>5 DEF Final, Working
<1>5. ASSUME NEW r \in Requests, CloseUpdate(r) PROVE Final(s)
  <2>1. PICK t \in Sessions : t = reqs[r].session
        BY <1>5, ChosenAt DEF CloseUpdate, AtWork
  <2>2. Updated(r, t)
        BY <1>5, <2>1, UpdateFields
  <2>3. /\ reqs[r].at = "update" /\ sessions'[t].status = "CLOSED"
        /\ \A x \in Sessions : x # t => sessions'[x] = sessions[x]
        BY <2>2 DEF Updated
  <2>4. r \in Working(t)
        BY <2>1, <2>3 DEF Working
  <2>5. \A q \in Requests :
          reqs'[q] = [reqs[q] EXCEPT !.at = IF q = r THEN "done" ELSE @, !.held = @ \ {t}]
        BY <2>2 DEF Updated
  <2>6. \A q \in Requests : /\ reqs'[q].session = reqs[q].session
                            /\ reqs'[q].at = (IF q = r THEN "done" ELSE reqs[q].at)
    <3> TAKE q \in Requests
    <3>1. reqs'[q] = [reqs[q] EXCEPT !.at = IF q = r THEN "done" ELSE @, !.held = @ \ {t}]
          BY <2>5
    <3> QED BY <3>1 DEF TypeOK, Request
  <2>7. Working(s)' \subseteq Working(s)
        BY <2>4, <2>6 DEF Working
  <2> QED BY <2>3, <2>4, <2>7 DEF Final
<1>6. CASE Next
      BY <1>2, <1>3, <1>4, <1>5, <1>6 DEF Next, Step, Quiet
<1> QED BY <1>1, <1>6

\* No call starts to work on a closed session, and once the last is through it is final.
THEOREM FinalCorrect == Spec => ClosedIsFinal
<1>1. TypeOK /\ Fresh /\ Chosen /\ [Next]_vars =>
        [\A s \in Sessions : sessions[s].status = "CLOSED" =>
           /\ sessions'[s].status = "CLOSED"
           /\ Working(s)' \subseteq Working(s)
           /\ Working(s) = {} => sessions'[s] = sessions[s]]_vars
      BY FinalStep DEF Final
<1> QED BY <1>1, RowsCorrect, PTL DEF Spec, ClosedIsFinal

-----------------------------------------------------------------------------
(* Cash finds a session.                                                   *)

Searches == {"sale", "settle", "refund"}

\* What holds of a call that looks for a session, over the sessions S: those it holds are
\* open and fit, those left to its second query have no branch, and what it chose fits.
Fine(q, S) ==
  /\ q.op \in Searches => q.at \in {"validate", "branch", "fallback", "write", "done"}
  /\ q.at \in {"validate", "branch", "fallback"} => q.session = 0
  /\ \A s \in q.held : /\ S[s].status = "OPEN"
                       /\ q.branch = NoBranch \/ S[s].branch \in {q.branch, NoBranch}
  /\ q.at = "fallback" =>
       \A s \in q.held : q.branch # NoBranch /\ S[s].branch = NoBranch
  /\ q.op \in Searches /\ q.session # 0 =>
       q.branch = NoBranch \/ S[q.session].branch \in {q.branch, NoBranch}
  /\ q.op \in Searches /\ q.at = "done" /\ q.session = 0 => q.held = {}

AllFine == \A q \in Requests : Fine(reqs[q], sessions)

LEMMA FineKept ==
  ASSUME NEW q \in Request, NEW v \in Request, NEW S, NEW T, Fine(q, S),
         v.op = q.op, v.branch = q.branch, v.session = q.session, v.held \subseteq q.held,
         \/ v.at = q.at
         \/ v.at \in {"done", "update"} /\ q.session # 0 /\ (v.at = "update" => q.at = "closing")
         \/ v.at = "done" /\ q.at = "update",
         \A s \in v.held : T[s].status = S[s].status /\ T[s].branch = S[s].branch,
         q.session # 0 => T[q.session].branch = S[q.session].branch
  PROVE  Fine(v, T)
BY DEF Fine, Searches

LEMMA FineFit == \A b : Fit(b) \subseteq Sessions
BY DEF Fit, Open

LEMMA FineQuiet ==
  ASSUME TypeOK, AllFine, NEW r \in Requests, Quiet(r)
  PROVE  Fine(reqs'[r], sessions)
<1> DEFINE q == reqs[r]
           v == reqs'[r]
<1>0. q \in Request /\ Fine(q, sessions)
      BY DEF TypeOK, AllFine
<1>1. ASSUME NEW at \in {"failed", "done"}, Goto(r, Idle, at) PROVE Fine(v, sessions)
      BY <1>1 DEF Goto, Idle, TypeOK, Fine, Searches
<1>2. CASE Begin(r)
  <2>1. PICK op \in Ops, u \in Users, b \in Scopes, n \in Amounts, type \in Manual :
          Goto(r, [Idle EXCEPT !.op = op, !.user = u, !.branch = b, !.amount = n, !.type = type],
               First(op))
        BY <1>2 DEF Begin
  <2>2. v.op = op /\ v.at = First(op) /\ v.session = 0 /\ v.held = {}
        BY <2>1 DEF Goto, Idle, TypeOK
  <2>3. First(op) \notin {"fallback", "done"} /\ (op \in Searches => First(op) \in {"validate", "branch"})
        BY DEF First, Searches
  <2> QED BY <2>2, <2>3, SMT DEF Fine
<1>3. CASE Fail(r)
      BY <1>1, <1>3 DEF Fail
<1>4. CASE OpenCount(r)
  <2>1. q.at = "count" /\ (Goto(r, Idle, "failed") \/ Goto(r, [q EXCEPT !.seen = opened], "create"))
        BY <1>4 DEF OpenCount
  <2>2. CASE Goto(r, [q EXCEPT !.seen = opened], "create")
    <3>1. v.at = "create" /\ v.op = q.op /\ v.branch = q.branch /\ v.held = q.held
          BY <2>2 DEF Goto, TypeOK, Request
    <3> QED BY <1>0, <2>1, <3>1 DEF Fine, Searches
  <2> QED BY <1>1, <2>1, <2>2
<1>5. CASE Find(r)
  <2>1. /\ q.at = "find"
        /\ \/ Goto(r, Idle, "failed")
           \/ \E s, at : at \in {"sum", "write"} /\ Goto(r, [q EXCEPT !.session = s], at)
        BY <1>5 DEF Find
  <2>2. ASSUME NEW s, NEW at \in {"sum", "write"}, Goto(r, [q EXCEPT !.session = s], at)
        PROVE  Fine(v, sessions)
    <3>1. v.at = at /\ v.op = q.op /\ v.branch = q.branch /\ v.held = q.held
          BY <2>2 DEF Goto, TypeOK, Request
    <3> QED BY <1>0, <2>1, <3>1 DEF Fine, Searches
  <2> QED BY <1>1, <2>1, <2>2
<1>6. CASE CloseSum(r)
  <2>1. q.at = "sum" /\ \E x, w : Goto(r, [q EXCEPT !.sum = x, !.why = w], "closing")
        BY <1>6 DEF CloseSum
  <2>2. v.at = "closing" /\ v.op = q.op /\ v.branch = q.branch /\ v.held = q.held
        BY <2>1 DEF Goto, TypeOK, Request
  <2> QED BY <1>0, <2>1, <2>2 DEF Fine, Searches
<1>7. CASE Validate(r)
  <2>1. /\ q.at = "validate"
        /\ Goto(r, Idle, "failed") \/ Goto(r, [q EXCEPT !.held = Fit(q.branch)], "branch")
        BY <1>7 DEF Validate
  <2>2. CASE Goto(r, [q EXCEPT !.held = Fit(q.branch)], "branch")
    <3>1. /\ v.at = "branch" /\ v.op = q.op /\ v.branch = q.branch /\ v.held = Fit(q.branch)
          /\ v.session = q.session
          BY <2>2 DEF Goto, TypeOK, Request
    <3> QED BY <1>0, <2>1, <3>1 DEF Fine, Searches, Fit, Open
  <2> QED BY <1>1, <2>1, <2>2
<1>8. CASE FindBranch(r)
  <2> DEFINE w == IF First(q.op) = "validate" THEN q ELSE [q EXCEPT !.held = Fit(q.branch)]
  <2>1. /\ q.at = "branch"
        /\ \/ \E s \in At(q.branch) : Goto(r, [w EXCEPT !.session = s], "write")
           \/ At(q.branch) = {} /\ Goto(r, w, "fallback")
        BY <1>8 DEF FindBranch
  <2>2. /\ w \in Request /\ w.op = q.op /\ w.branch = q.branch /\ w.session = q.session
        /\ w.at = q.at /\ (w.held = q.held \/ w.held = Fit(q.branch))
        BY FineFit DEF TypeOK, Request
  <2> HIDE DEF w
  <2>3. \A s \in w.held : /\ s \in Open
                          /\ q.branch = NoBranch \/ sessions[s].branch \in {q.branch, NoBranch}
        BY <1>0, <2>2 DEF Fine, Fit, Open, Request
  <2>4. ASSUME NEW s \in At(q.branch), Goto(r, [w EXCEPT !.session = s], "write")
        PROVE  Fine(v, sessions)
    <3>1. /\ v.at = "write" /\ v.op = q.op /\ v.branch = q.branch /\ v.held = w.held
          /\ v.session = s
          BY <2>2, <2>4 DEF Goto, TypeOK, Request
    <3> QED BY <2>3, <2>4, <3>1 DEF Fine, At, Open
  <2>5. CASE At(q.branch) = {} /\ Goto(r, w, "fallback")
    <3>1. /\ v.at = "fallback" /\ v.op = q.op /\ v.branch = q.branch /\ v.held = w.held
          /\ v.session = q.session
          BY <2>2, <2>5 DEF Goto, TypeOK, Request
    <3>2. \A s \in w.held : q.branch # NoBranch /\ sessions[s].branch = NoBranch
          BY <2>3, <2>5 DEF At
    <3>3. q.session = 0
          BY <1>0, <2>1 DEF Fine
    <3> QED BY <2>3, <3>1, <3>2, <3>3 DEF Fine, Open
  <2> QED BY <2>1, <2>4, <2>5
<1>9. CASE Fallback(r)
  <2> DEFINE global == {s \in Open : sessions[s].branch = NoBranch}
             found  == IF q.branch # NoBranch THEN global
                       ELSE IF q.op = "refund" THEN {} ELSE Open
  <2>1. /\ q.at = "fallback"
        /\ \/ \E s \in found : Goto(r, [q EXCEPT !.session = s], "write")
           \/ found = {} /\ Goto(r, q, "done")
        BY <1>9 DEF Fallback
  <2>2. ASSUME NEW s \in found, Goto(r, [q EXCEPT !.session = s], "write") PROVE Fine(v, sessions)
    <3>1. /\ v.at = "write" /\ v.op = q.op /\ v.branch = q.branch /\ v.held = q.held
          /\ v.session = s
          BY <2>2 DEF Goto, TypeOK, Request
    <3>2. q.branch # NoBranch => sessions[s].branch = NoBranch
          BY <2>2
    <3> QED BY <1>0, <3>1, <3>2 DEF Fine
  <2>3. CASE found = {} /\ Goto(r, q, "done")
    <3>1. /\ v.at = "done" /\ v.op = q.op /\ v.branch = q.branch /\ v.held = q.held
          /\ v.session = q.session
          BY <2>3 DEF Goto, TypeOK, Request
    <3>2. q.held = {}
      <4>1. \A s \in q.held : q.branch # NoBranch /\ s \in global
            BY <1>0, <2>1 DEF Fine, Open, Request
      <4> QED BY <2>3, <4>1
    <3>3. q.session = 0
          BY <1>0, <2>1 DEF Fine
    <3> QED BY <3>1, <3>2, <3>3 DEF Fine
  <2> QED BY <2>1, <2>2, <2>3
<1> QED BY <1>2, <1>3, <1>4, <1>5, <1>6, <1>7, <1>8, <1>9 DEF Quiet

LEMMA FineStep ==
  ASSUME TypeOK, TypeOK', Fresh, Chosen, AllFine, [Next]_vars PROVE AllFine'
<1>0. \A q \in Requests : /\ reqs[q] \in Request /\ reqs'[q] \in Request /\ Fine(reqs[q], sessions)
                          /\ reqs[q].session # 0 => reqs[q].session \in Sessions
                          /\ reqs[q].session <= opened
                          /\ \A s \in reqs[q].held : s \in Sessions /\ sessions[s].status = "OPEN"
  <2> TAKE q \in Requests
  <2>1. reqs[q] \in Request /\ reqs'[q] \in Request /\ Fine(reqs[q], sessions)
        BY DEF TypeOK, AllFine
  <2>2. reqs[q].session \in 0 .. MaxSessions
        BY <2>1 DEF Request
  <2>3. reqs[q].session # 0 => reqs[q].session \in Sessions
        BY <2>2, DrawerAssumption DEF Sessions
  <2>4. \A s \in reqs[q].held : s \in Sessions /\ sessions[s].status = "OPEN"
        BY <2>1 DEF Fine, Request
  <2> QED BY <2>1, <2>3, <2>4 DEF Chosen
<1>1. ASSUME UNCHANGED vars PROVE AllFine'
      BY <1>1 DEF vars, AllFine
<1>2. ASSUME NEW r \in Requests, Quiet(r) PROVE AllFine'
  <2>1. sessions' = sessions /\ \A q \in Requests : q # r => reqs'[q] = reqs[q]
        BY <1>2, QuietFields
  <2>2. Fine(reqs'[r], sessions)
        BY <1>2, FineQuiet
  <2> QED BY <2>1, <2>2 DEF AllFine
<1>3. ASSUME NEW r \in Requests, OpenFloat(r) \/ CloseMovement(r) \/ Write(r) PROVE AllFine'
  <2>1. PICK t \in Sessions, type \in Types, at \in {"done", "update"} :
           /\ t = reqs[r].session /\ reqs[r].at \in {"float", "closing", "write"}
           /\ at = "update" => reqs[r].at = "closing"
           /\ Inserted(r, t, type, at)
        BY <1>3, InsertedSomewhere
  <2>2. \A s \in Sessions : /\ sessions'[s].status = sessions[s].status
                            /\ sessions'[s].branch = sessions[s].branch
        BY <2>1 DEF Inserted
  <2>3. t # 0
        BY DrawerAssumption DEF Sessions
  <2>4. ASSUME NEW q \in Requests PROVE Fine(reqs'[q], sessions')
    <3>1. CASE q = r
      <4>0. reqs'[q] = [reqs[q] EXCEPT !.at = at, !.session = t]
            BY <2>1, <3>1 DEF Inserted
      <4>1. /\ reqs'[q].op = reqs[q].op /\ reqs'[q].branch = reqs[q].branch
            /\ reqs'[q].session = reqs[q].session /\ reqs'[q].held = reqs[q].held
            /\ reqs'[q].at = at
            BY <1>0, <2>1, <3>1, <4>0 DEF Request
      <4> QED BY <1>0, <2>1, <2>2, <2>3, <3>1, <4>1, FineKept
    <3>2. CASE q # r
      <4>0. reqs'[q] = reqs[q] \/ reqs'[q] = [reqs[q] EXCEPT !.why = @ \cup {"late"}]
            BY <2>1, <3>2 DEF Inserted
      <4>1. /\ reqs'[q].op = reqs[q].op /\ reqs'[q].branch = reqs[q].branch
            /\ reqs'[q].session = reqs[q].session /\ reqs'[q].held = reqs[q].held
            /\ reqs'[q].at = reqs[q].at
            BY <1>0, <4>0 DEF Request
      <4> QED BY <1>0, <2>2, <4>1, FineKept
    <3> QED BY <3>1, <3>2
  <2> QED BY <2>4 DEF AllFine
<1>4. ASSUME NEW r \in Requests, OpenCreate(r) PROVE AllFine'
  <2>1. /\ reqs[r].at = "create" /\ opened + 1 \in Sessions
        /\ \A x \in Sessions : x # opened + 1 => sessions'[x] = sessions[x]
        /\ reqs'[r] = [reqs[r] EXCEPT !.session = opened + 1, !.at = "float"]
        /\ \A q \in Requests : q # r => reqs'[q] = reqs[q]
        BY <1>4, CreateFields
  <2>2. opened \in Nat
        BY DrawerAssumption DEF TypeOK
  <2>3. sessions[opened + 1].status = "NONE"
        BY <2>1, <2>2 DEF Fresh
  <2>4. \A q \in Requests : /\ \A s \in reqs[q].held : sessions'[s] = sessions[s]
                            /\ reqs[q].session # 0 => sessions'[reqs[q].session] = sessions[reqs[q].session]
        BY <1>0, <2>1, <2>2, <2>3
  <2>5. ASSUME NEW q \in Requests PROVE Fine(reqs'[q], sessions')
    <3>1. CASE q = r
      <4>1. /\ reqs'[q].op = reqs[q].op /\ reqs'[q].branch = reqs[q].branch
            /\ reqs'[q].held = reqs[q].held /\ reqs'[q].at = "float"
            BY <1>0, <2>1, <3>1 DEF Request
      <4>2. reqs[q].op \notin Searches
            BY <1>0, <2>1, <3>1 DEF Fine
      <4>3. Fine(reqs[q], sessions)
            BY <1>0
      <4> QED BY <2>4, <4>1, <4>2, <4>3 DEF Fine
    <3>2. CASE q # r
          BY <1>0, <2>1, <2>4, <3>2, FineKept
    <3> QED BY <3>1, <3>2
  <2> QED BY <2>5 DEF AllFine
<1>5. ASSUME NEW r \in Requests, CloseUpdate(r) PROVE AllFine'
  <2>1. PICK t \in Sessions : t = reqs[r].session
        BY <1>5, ChosenAt DEF CloseUpdate, AtWork
  <2>2. Updated(r, t)
        BY <1>5, <2>1, UpdateFields
  <2>3. /\ reqs[r].at = "update" /\ sessions'[t].branch = sessions[t].branch
        /\ \A x \in Sessions : x # t => sessions'[x] = sessions[x]
        BY <2>2 DEF Updated
  <2>4. ASSUME NEW q \in Requests PROVE Fine(reqs'[q], sessions')
    <3>0. reqs'[q] = [reqs[q] EXCEPT !.at = IF q = r THEN "done" ELSE @, !.held = @ \ {t}]
          BY <2>2 DEF Updated
    <3>1. /\ reqs'[q].op = reqs[q].op /\ reqs'[q].branch = reqs[q].branch
          /\ reqs'[q].session = reqs[q].session /\ reqs'[q].held = reqs[q].held \ {t}
          /\ reqs'[q].at = (IF q = r THEN "done" ELSE reqs[q].at)
          BY <1>0, <3>0 DEF Request
    <3>2. reqs'[q].at = reqs[q].at \/ (reqs'[q].at = "done" /\ reqs[q].at = "update")
          BY <2>3, <3>1
    <3>3. \A s \in reqs'[q].held : sessions'[s] = sessions[s]
          BY <1>0, <2>3, <3>1
    <3>4. reqs[q].session # 0 => sessions'[reqs[q].session].branch = sessions[reqs[q].session].branch
          BY <1>0, <2>3
    <3> QED BY <1>0, <3>1, <3>2, <3>3, <3>4, FineKept
  <2> QED BY <2>4 DEF AllFine
<1>6. CASE Next
      BY <1>2, <1>3, <1>4, <1>5, <1>6 DEF Next, Step, Quiet
<1> QED BY <1>1, <1>6

\* Cash goes where it may, and to no drawer only if every fit session was closed meanwhile.
THEOREM SaleCorrect == Spec => []SaleFindsDrawer
<1>1. Init => AllFine
      BY DEF Init, AllFine, Fine, Searches, Idle
<1>2. TypeOK /\ TypeOK' /\ Fresh /\ Chosen /\ AllFine /\ [Next]_vars => AllFine'
      BY FineStep
<1>3. AllFine => SaleFindsDrawer
      BY DEF AllFine, Fine, Searches, SaleFindsDrawer
<1> QED BY <1>1, <1>2, <1>3, RowsCorrect, PTL DEF Spec

-----------------------------------------------------------------------------
(* The limit on open sessions.                                             *)

\* Whoever counted when the last session was already there left room for one.
Room == \A r \in Requests :
  /\ reqs[r].seen <= opened
  /\ \A b \in Scopes : reqs[r].at = "create" /\ reqs[r].seen = opened /\ reqs[r].branch = b
        => Cardinality(At(b)) < MaxPos

Alone(b) == {s \in Open : sessions[s].branch = b /\ sessions[s].alone}

LEMMA Finite == ASSUME NEW S \in SUBSET Sessions PROVE IsFiniteSet(S) /\ Cardinality(S) \in Nat
<1>1. IsFiniteSet(Sessions)
      BY DrawerAssumption, FS_Interval DEF Sessions
<1>2. IsFiniteSet(S)
      BY <1>1, FS_Subset
<1> QED BY <1>2, FS_CardinalityType

LEMMA Fewer ==
  ASSUME NEW S \in SUBSET Sessions, NEW T \in SUBSET S
  PROVE  Cardinality(T) <= Cardinality(S)
BY Finite, FS_Subset

LEMMA RoomKept ==
  ASSUME TypeOK, TypeOK', Room, opened' = opened,
         \A s \in Sessions : /\ sessions'[s].status = "OPEN" => sessions[s].status = "OPEN"
                             /\ sessions'[s].branch = sessions[s].branch
                             /\ sessions'[s].alone = sessions[s].alone,
         \A r \in Requests :
           /\ reqs'[r].seen <= opened
           /\ reqs'[r].at = "create" /\ reqs'[r].seen = opened =>
                \/ /\ reqs[r].at = "create" /\ reqs[r].seen = reqs'[r].seen
                   /\ reqs[r].branch = reqs'[r].branch
                \/ Cardinality(At(reqs[r].branch)) < MaxPos /\ reqs'[r].branch = reqs[r].branch,
         OverLimitRaced
  PROVE  Room' /\ OverLimitRaced'
<1>1. \A b : At(b)' \subseteq At(b) /\ At(b) \subseteq Sessions
      BY DEF At, Open
<1>2. ASSUME NEW b PROVE Cardinality(At(b)') <= Cardinality(At(b))
      BY <1>1, Fewer
<1>3. ASSUME NEW r \in Requests, NEW b \in Scopes,
             reqs'[r].at = "create", reqs'[r].seen = opened, reqs'[r].branch = b
      PROVE  Cardinality(At(b)') < MaxPos
  <2>1. Cardinality(At(b)) < MaxPos
        BY <1>3 DEF Room
  <2>2. At(b) \in SUBSET Sessions /\ At(b)' \in SUBSET Sessions
        BY <1>1, Zenon
  <2>3. Cardinality(At(b)) \in Nat /\ Cardinality(At(b)') \in Nat /\ MaxPos \in Nat
        BY <2>2, Finite, DrawerAssumption
  <2> QED BY <1>2, <2>1, <2>3
<1>4. ASSUME NEW b \in Branches PROVE Cardinality(Alone(b)') <= MaxPos
  <2>1. Alone(b)' \in SUBSET Alone(b) /\ Alone(b) \in SUBSET Sessions
        BY DEF Alone, Open
  <2>2. Cardinality(Alone(b)') <= Cardinality(Alone(b))
        BY <2>1, Fewer
  <2>3. Cardinality(Alone(b)) <= MaxPos
        BY DEF OverLimitRaced, Alone
  <2>4. Cardinality(Alone(b)) \in Nat /\ Cardinality(Alone(b)') \in Nat /\ MaxPos \in Nat
        BY <2>1, Finite, DrawerAssumption
  <2> QED BY <2>2, <2>3, <2>4
<1>5. Room'
      BY <1>3 DEF Room, At, Open
<1> QED BY <1>4, <1>5 DEF OverLimitRaced, Alone

\* A call that writes no session: it is about to create one only if it has counted, or
\* was before.
LEMMA QuietCount ==
  ASSUME TypeOK, Room, NEW r \in Requests, Quiet(r)
  PROVE  /\ reqs'[r].seen <= opened
         /\ reqs'[r].at = "create" =>
              Cardinality(At(reqs[r].branch)) < MaxPos /\ reqs'[r].branch = reqs[r].branch
<1> DEFINE q == reqs[r]
<1>0. q \in Request /\ q.seen <= opened /\ 0 <= opened
      BY DrawerAssumption DEF TypeOK, Room
<1>1. ASSUME NEW at \in {"failed", "done"}, Goto(r, Idle, at)
      PROVE  reqs'[r].seen <= opened /\ reqs'[r].at # "create"
      BY <1>0, <1>1 DEF Goto, Idle, TypeOK
<1>2. ASSUME NEW w \in Request, NEW at, at # "create", w.seen = q.seen, Goto(r, w, at)
      PROVE  reqs'[r].seen <= opened /\ reqs'[r].at # "create"
      BY <1>0, <1>2 DEF Goto, TypeOK, Request
<1>3. CASE Begin(r)
  <2>1. PICK op \in Ops, u \in Users, b \in Scopes, n \in Amounts, type \in Manual :
          Goto(r, [Idle EXCEPT !.op = op, !.user = u, !.branch = b, !.amount = n, !.type = type],
               First(op))
        BY <1>3 DEF Begin
  <2>2. reqs'[r].at = First(op) /\ reqs'[r].seen = 0
        BY <2>1 DEF Goto, Idle, TypeOK
  <2> QED BY <1>0, <2>2 DEF First
<1>4. CASE Fail(r)
      BY <1>1, <1>4 DEF Fail
<1>5. CASE OpenCount(r)
  <2>1. CASE Goto(r, Idle, "failed")
        BY <1>1, <2>1
  <2>2. CASE ~Goto(r, Idle, "failed")
    <3>1. ~(Cardinality(At(q.branch)) >= MaxPos) /\ Goto(r, [q EXCEPT !.seen = opened], "create")
          BY <1>5, <2>2 DEF OpenCount
    <3>2. reqs'[r].seen = opened /\ reqs'[r].branch = q.branch
          BY <3>1 DEF Goto, TypeOK, Request
    <3>3. At(q.branch) \in SUBSET Sessions
          BY DEF At, Open
    <3>4. Cardinality(At(q.branch)) \in Nat /\ MaxPos \in Nat /\ opened \in Nat
          BY <3>3, Finite, DrawerAssumption DEF TypeOK
    <3> QED BY <3>1, <3>2, <3>4
  <2> QED BY <2>1, <2>2
<1>6. CASE Find(r)
  <2>1. \/ Goto(r, Idle, "failed")
        \/ \E s \in Sessions : \E at \in {"sum", "write"} : Goto(r, [q EXCEPT !.session = s], at)
        BY <1>6 DEF Find, Newest, Own, At, Open
  <2>2. ASSUME NEW s \in Sessions PROVE [q EXCEPT !.session = s] \in Request
    <3>1. s \in 0 .. MaxSessions
          BY DrawerAssumption DEF Sessions
    <3> QED BY <1>0, <3>1 DEF Request
  <2>3. \A s : [q EXCEPT !.session = s].seen = q.seen
        BY <1>0 DEF Request
  <2> HIDE DEF q
  <2> QED BY <1>1, <1>2, <2>1, <2>2, <2>3
<1>7. CASE CloseSum(r)
  <2>1. \E x, w : Goto(r, [q EXCEPT !.sum = x, !.why = w], "closing")
        BY <1>7 DEF CloseSum
  <2>2. reqs'[r].at = "closing" /\ reqs'[r].seen = q.seen
        BY <2>1 DEF Goto, TypeOK, Request
  <2> QED BY <1>0, <2>2
<1>8. CASE Validate(r)
  <2>1. Goto(r, Idle, "failed") \/ Goto(r, [q EXCEPT !.held = Fit(q.branch)], "branch")
        BY <1>8 DEF Validate
  <2>2. [q EXCEPT !.held = Fit(q.branch)] \in Request /\ [q EXCEPT !.held = Fit(q.branch)].seen = q.seen
        BY <1>0, FineFit DEF Request
  <2> HIDE DEF q
  <2> QED BY <1>1, <1>2, <2>1, <2>2
<1>9. CASE FindBranch(r)
  <2> DEFINE w == IF First(q.op) = "validate" THEN q ELSE [q EXCEPT !.held = Fit(q.branch)]
  <2>1. \/ \E s \in At(q.branch) : Goto(r, [w EXCEPT !.session = s], "write")
        \/ Goto(r, w, "fallback")
        BY <1>9 DEF FindBranch
  <2>2. w \in Request /\ w.seen = q.seen
        BY <1>0, FineFit DEF Request
  <2> HIDE DEF w
  <2>3. CASE Goto(r, w, "fallback")
        BY <1>2, <2>2, <2>3
  <2>4. ASSUME NEW s \in At(q.branch), Goto(r, [w EXCEPT !.session = s], "write")
        PROVE  reqs'[r].seen <= opened /\ reqs'[r].at # "create"
    <3>1. s \in 0 .. MaxSessions
          BY DrawerAssumption DEF At, Open, Sessions
    <3>2. [w EXCEPT !.session = s] \in Request /\ [w EXCEPT !.session = s].seen = q.seen
          BY <2>2, <3>1 DEF Request
    <3> QED BY <1>2, <2>4, <3>2
  <2> QED BY <2>1, <2>3, <2>4
<1>10. CASE Fallback(r)
  <2>1. \/ \E s \in Open : Goto(r, [q EXCEPT !.session = s], "write")
        \/ Goto(r, q, "done")
        BY <1>10 DEF Fallback
  <2>2. ASSUME NEW s \in Open, Goto(r, [q EXCEPT !.session = s], "write")
        PROVE  reqs'[r].seen <= opened /\ reqs'[r].at # "create"
    <3>1. s \in 0 .. MaxSessions
          BY DrawerAssumption DEF Open, Sessions
    <3>2. [q EXCEPT !.session = s] \in Request /\ [q EXCEPT !.session = s].seen = q.seen
          BY <1>0, <3>1 DEF Request
    <3> QED BY <1>2, <2>2, <3>2
  <2>3. CASE Goto(r, q, "done")
        BY <1>0, <1>2, <2>3
  <2> QED BY <2>1, <2>2, <2>3
<1> QED BY <1>3, <1>4, <1>5, <1>6, <1>7, <1>8, <1>9, <1>10 DEF Quiet

LEMMA RoomStep ==
  ASSUME TypeOK, TypeOK', Fresh, Chosen, Room, OverLimitRaced, [Next]_vars
  PROVE  Room' /\ OverLimitRaced'
<1> DEFINE Good == Room' /\ OverLimitRaced'
<1>0. opened \in Nat /\ \A r \in Requests : reqs[r] \in Request
      BY DrawerAssumption DEF TypeOK
<1>1. ASSUME UNCHANGED vars PROVE Good
      BY <1>1 DEF vars, Room, OverLimitRaced, At, Open
<1>2. ASSUME NEW r \in Requests, Quiet(r) PROVE Good
  <2>1. UNCHANGED <<sessions, opened>> /\ \A q \in Requests : q # r => reqs'[q] = reqs[q]
        BY <1>2, QuietFields
  <2>2. /\ reqs'[r].seen <= opened
        /\ reqs'[r].at = "create" =>
              Cardinality(At(reqs[r].branch)) < MaxPos /\ reqs'[r].branch = reqs[r].branch
        BY <1>2, QuietCount
  <2>3. \A q \in Requests :
           /\ reqs'[q].seen <= opened
           /\ reqs'[q].at = "create" /\ reqs'[q].seen = opened =>
                \/ /\ reqs[q].at = "create" /\ reqs[q].seen = reqs'[q].seen
                   /\ reqs[q].branch = reqs'[q].branch
                \/ Cardinality(At(reqs[q].branch)) < MaxPos /\ reqs'[q].branch = reqs[q].branch
        BY <2>1, <2>2 DEF Room
  <2> QED BY <2>1, <2>3, RoomKept
<1>3. ASSUME NEW r \in Requests, OpenFloat(r) \/ CloseMovement(r) \/ Write(r) PROVE Good
  <2>1. PICK t \in Sessions, type \in Types, at \in {"done", "update"} : Inserted(r, t, type, at)
        BY <1>3, InsertedSomewhere
  <2>2. /\ opened' = opened
        /\ \A s \in Sessions : /\ sessions'[s].status = "OPEN" => sessions[s].status = "OPEN"
                               /\ sessions'[s].branch = sessions[s].branch
                               /\ sessions'[s].alone = sessions[s].alone
        BY <2>1 DEF Inserted
  <2>3. ASSUME NEW q \in Requests
        PROVE  /\ reqs'[q].seen = reqs[q].seen /\ reqs'[q].branch = reqs[q].branch
               /\ reqs'[q].at = "create" => reqs[q].at = "create"
    <3>1. \/ reqs'[q] = reqs[q]
          \/ reqs'[q] = [reqs[q] EXCEPT !.why = @ \cup {"late"}]
          \/ reqs'[q] = [reqs[q] EXCEPT !.at = at, !.session = t]
          BY <2>1 DEF Inserted
    <3> QED BY <1>0, <3>1 DEF Request
  <2>4. \A q \in Requests :
           /\ reqs'[q].seen <= opened
           /\ reqs'[q].at = "create" /\ reqs'[q].seen = opened =>
                \/ /\ reqs[q].at = "create" /\ reqs[q].seen = reqs'[q].seen
                   /\ reqs[q].branch = reqs'[q].branch
                \/ Cardinality(At(reqs[q].branch)) < MaxPos /\ reqs'[q].branch = reqs[q].branch
        BY <2>3 DEF Room
  <2> QED BY <2>2, <2>4, RoomKept
<1>4. ASSUME NEW r \in Requests, CloseUpdate(r) PROVE Good
  <2>1. PICK t \in Sessions : t = reqs[r].session
        BY <1>4, ChosenAt DEF CloseUpdate, AtWork
  <2>2. Updated(r, t)
        BY <1>4, <2>1, UpdateFields
  <2>3. /\ opened' = opened
        /\ \A s \in Sessions : /\ sessions'[s].status = "OPEN" => sessions[s].status = "OPEN"
                               /\ sessions'[s].branch = sessions[s].branch
                               /\ sessions'[s].alone = sessions[s].alone
        BY <2>2 DEF Updated
  <2>4. ASSUME NEW q \in Requests
        PROVE  /\ reqs'[q].seen = reqs[q].seen /\ reqs'[q].branch = reqs[q].branch
               /\ reqs'[q].at = "create" => reqs[q].at = "create"
    <3>1. reqs'[q] = [reqs[q] EXCEPT !.at = IF q = r THEN "done" ELSE @, !.held = @ \ {t}]
          BY <2>2 DEF Updated
    <3> QED BY <1>0, <3>1 DEF Request
  <2>5. \A q \in Requests :
           /\ reqs'[q].seen <= opened
           /\ reqs'[q].at = "create" /\ reqs'[q].seen = opened =>
                \/ /\ reqs[q].at = "create" /\ reqs[q].seen = reqs'[q].seen
                   /\ reqs[q].branch = reqs'[q].branch
                \/ Cardinality(At(reqs[q].branch)) < MaxPos /\ reqs'[q].branch = reqs[q].branch
        BY <2>4 DEF Room
  <2> QED BY <2>3, <2>5, RoomKept
<1>5. ASSUME NEW r \in Requests, OpenCreate(r) PROVE Good
  <2> DEFINE new == opened + 1
  <2>1. /\ reqs[r].at = "create" /\ opened' = opened + 1 /\ new \in Sessions
        /\ \A x \in Sessions : x # new => sessions'[x] = sessions[x]
        /\ sessions'[new].alone = (reqs[r].seen = opened)
        /\ reqs[r].branch # NoBranch => sessions'[new].branch = reqs[r].branch
        /\ reqs'[r] = [reqs[r] EXCEPT !.session = new, !.at = "float"]
        /\ \A q \in Requests : q # r => reqs'[q] = reqs[q]
        BY <1>5, CreateFields
  <2>2. \A q \in Requests : reqs'[q].seen = reqs[q].seen /\ reqs[q].seen <= opened
                            /\ reqs[q].seen \in Nat
    <3> TAKE q \in Requests
    <3>1. reqs'[q].seen = reqs[q].seen
      <4>1. reqs'[q] = reqs[q] \/ reqs'[q] = [reqs[q] EXCEPT !.session = new, !.at = "float"]
            BY <2>1
      <4> QED BY <1>0, <4>1 DEF Request
    <3>2. reqs[q].seen \in Nat
          BY <1>0, DrawerAssumption DEF Request
    <3> QED BY <3>1, <3>2 DEF Room
  <2>3. Room'
        BY <1>0, <2>1, <2>2 DEF Room
  <2>4. ASSUME NEW b \in Branches PROVE Cardinality(Alone(b)') <= MaxPos
    <3>0. Alone(b) \in SUBSET Sessions /\ Alone(b)' \in SUBSET Sessions /\ MaxPos \in Nat
          /\ Cardinality(Alone(b)) <= MaxPos
          BY DrawerAssumption DEF Alone, Open, OverLimitRaced
    <3>1. CASE ~(sessions'[new].alone /\ sessions'[new].branch = b)
      <4>1. Alone(b)' \subseteq Alone(b)
            BY <2>1, <3>1 DEF Alone, Open
      <4>2. Cardinality(Alone(b)') <= Cardinality(Alone(b))
            BY <3>0, <4>1, Fewer
      <4> QED BY <3>0, <4>2, Finite
    <3>2. CASE sessions'[new].alone /\ sessions'[new].branch = b
      <4>1. reqs[r].seen = opened /\ reqs[r].branch \in {b, NoBranch}
            BY <2>1, <3>2
      <4>2. reqs[r].branch \in Scopes
            BY <1>0 DEF Request
      <4>3. Cardinality(At(reqs[r].branch)) < MaxPos
            BY <2>1, <4>1, <4>2 DEF Room
      <4>4. Alone(b) \subseteq At(reqs[r].branch) /\ At(reqs[r].branch) \in SUBSET Sessions
            BY <4>1 DEF Alone, At, Open
      <4>5. Cardinality(Alone(b)) <= Cardinality(At(reqs[r].branch))
            BY <4>4, Fewer
      <4>6. Alone(b)' \subseteq Alone(b) \cup {new} /\ Alone(b) \cup {new} \in SUBSET Sessions
            BY <2>1 DEF Alone, Open
      <4>7. Cardinality(Alone(b)') <= Cardinality(Alone(b) \cup {new})
            BY <4>6, Fewer
      <4>8. /\ IsFiniteSet(Alone(b)) /\ Cardinality(Alone(b)) \in Nat
            /\ Cardinality(Alone(b)') \in Nat /\ Cardinality(At(reqs[r].branch)) \in Nat
            /\ Cardinality(Alone(b) \cup {new}) \in Nat
            BY <3>0, <4>4, <4>6, Finite
      <4>9. Cardinality(Alone(b) \cup {new}) <= Cardinality(Alone(b)) + 1
        <5>1. Cardinality(Alone(b) \cup {new}) \in {Cardinality(Alone(b)), Cardinality(Alone(b)) + 1}
              BY <4>8, FS_AddElement, Zenon
        <5> QED BY <4>8, <5>1
      <4> HIDE DEF new
      <4> QED BY <3>0, <4>3, <4>5, <4>7, <4>8, <4>9
    <3> QED BY <3>1, <3>2
  <2> QED BY <2>3, <2>4 DEF OverLimitRaced, Alone
<1> HIDE DEF Good
<1>6. Good
      BY <1>1, <1>2, <1>3, <1>4, <1>5 DEF Next, Step, Quiet
<1> QED BY <1>6 DEF Good

\* maxPos is exceeded only by sessions whose count another opening overtook.
THEOREM LimitCorrect == Spec => []OverLimitRaced
<1>1. Init => Room /\ OverLimitRaced
  <2> SUFFICES ASSUME Init PROVE Room /\ OverLimitRaced
      OBVIOUS
  <2>1. \A b : Alone(b) = {}
        BY DEF Init, Alone, Open, NoSession
  <2>2. OverLimitRaced
        BY <2>1, FS_EmptySet, DrawerAssumption DEF OverLimitRaced, Alone
  <2>3. Room
        BY DEF Init, Room, Idle
  <2> QED BY <2>2, <2>3
<1>2. TypeOK /\ TypeOK' /\ Fresh /\ Chosen /\ Room /\ OverLimitRaced /\ [Next]_vars
        => Room' /\ OverLimitRaced'
      BY RoomStep
<1> QED BY <1>1, <1>2, RowsCorrect, PTL DEF Spec

=============================================================================
