------------------------------- MODULE Drawer -------------------------------
(***************************************************************************)
(* DrawerService: the cash drawer sessions of one tenant, opened, used and  *)
(* closed by cashiers while OrderService and RefundService look for a       *)
(* session to record cash sales and refunds in.  No handler here runs in a  *)
(* transaction: every await is a step, and a fault may end it at any step.  *)
(*                                                                         *)
(* The Prisma extension adds the branch of the request's context to every   *)
(* query of prisma.client on DrawerSession; recordSaleByTenant and          *)
(* recordRefundByTenant use the plain client and are not filtered.          *)
(***************************************************************************)
EXTENDS Integers, FiniteSets

CONSTANTS
  Requests,      \* calls that may be made, each once
  Users,         \* cashiers
  NoUser,
  Branches,
  NoBranch,      \* no branch in the context, or a session opened without one
  Amounts,       \* floats, counted balances and sums of money
  MaxPos,        \* Tenant.maxPos
  RequireDrawer, \* Settings.requireOpenDrawer
  MaxSessions    \* bound: sessions ever opened

ASSUME DrawerAssumption ==
  /\ NoBranch \notin Branches
  /\ NoUser \notin Users
  /\ Amounts \subseteq Nat \ {0}
  /\ MaxPos \in Nat \ {0}
  /\ RequireDrawer \in BOOLEAN
  /\ MaxSessions \in Nat

Scopes   == Branches \cup {NoBranch}
Sessions == 1 .. MaxSessions   \* in the order of openedAt
Types    == {"OPENING", "SALE", "REFUND", "CASH_IN", "CASH_OUT", "CLOSING"}
Manual   == {"SALE", "REFUND", "CASH_IN", "CASH_OUT"}
Reasons  == {"late", "floatless", "reclosed"}

VARIABLES
  sessions,  \* DrawerSession rows, each with the sum of its movements by type
  opened,    \* how many rows exist
  reqs       \* the calls: where each is and what it has read

vars == <<sessions, opened, reqs>>

Ops   == {"open", "close", "add", "sale", "settle", "refund"}
Steps == {"idle", "count", "create", "float", "find", "sum", "closing", "update",
          "write", "validate", "branch", "fallback", "done", "failed"}

Session ==
  [status: {"NONE", "OPEN", "CLOSED"}, user: Users \cup {NoUser}, branch: Scopes,
   opening: Nat, expected: Int, moved: [Types -> Nat],
   alone: BOOLEAN,       \* history: no session was opened between its count and itself
   why: SUBSET Reasons]  \* history: what expectedBalance may not explain

Request ==
  [op: Ops, at: Steps, user: Users \cup {NoUser}, branch: Scopes, amount: Nat, type: Types,
   session: 0 .. MaxSessions,  \* the session it chose, 0 for none
   sum: Int,                   \* the balance closeDrawer computed
   seen: 0 .. MaxSessions,     \* history: sessions opened before its count
   held: SUBSET Sessions,      \* history: fit for the sale, and open ever since it looks
   why: SUBSET Reasons]        \* history: what the balance it computed misses

TypeOK ==
  /\ sessions \in [Sessions -> Session]
  /\ opened \in 0 .. MaxSessions
  /\ reqs \in [Requests -> Request]

NoSession == [status |-> "NONE", user |-> NoUser, branch |-> NoBranch, opening |-> 0,
              expected |-> 0, moved |-> [t \in Types |-> 0], alone |-> FALSE, why |-> {}]

Idle == [op |-> "open", at |-> "idle", user |-> NoUser, branch |-> NoBranch, amount |-> 0,
         type |-> "SALE", session |-> 0, sum |-> 0, seen |-> 0, held |-> {}, why |-> {}]

Init ==
  /\ sessions = [s \in Sessions |-> NoSession]
  /\ opened = 0
  /\ reqs = [r \in Requests |-> Idle]

-----------------------------------------------------------------------------
Open == {s \in Sessions : sessions[s].status = "OPEN"}

\* Mistaken: sessions in any status.
AtAnyStatus(b) ==
  {s \in Sessions : sessions[s].status # "NONE" /\ (b = NoBranch \/ sessions[s].branch = b)}

\* where: { branchId }; undefined filters nothing.
At(b) == {s \in Open : b = NoBranch \/ sessions[s].branch = b}

\* What recordSaleByTenant and recordRefundByTenant may use for branch b.
Fit(b) == {s \in Open : b = NoBranch \/ sessions[s].branch \in {b, NoBranch}}

\* Open sessions of a user that the context lets the query see.
Own(r) == {s \in At(reqs[r].branch) : sessions[s].user = reqs[r].user}

Newest(S) == {s \in S : \A t \in S : t <= s}

\* Mistaken: refunds count up.
BalanceRefundUp(moved) ==
  moved["OPENING"] + moved["SALE"] + moved["CASH_IN"] + moved["CLOSING"]
    + moved["REFUND"] - moved["CASH_OUT"]

\* closeDrawer's reduce over the movements: two types count down, the others up.
Balance(moved) ==
  moved["OPENING"] + moved["SALE"] + moved["CASH_IN"] + moved["CLOSING"]
    - moved["REFUND"] - moved["CASH_OUT"]

\* getReport's expectedBalance, computed anew from the movements that count.
Report(s) ==
  sessions[s].opening + sessions[s].moved["SALE"] - sessions[s].moved["REFUND"]
    + sessions[s].moved["CASH_IN"] - sessions[s].moved["CASH_OUT"]

\* A closeDrawer that has summed session s and has not written it yet.
Closing(q, s) == reqs[q].at \in {"closing", "update"} /\ reqs[q].session = s

\* r goes to step `at` with its record changed to q.
Goto(r, q, at) == reqs' = [reqs EXCEPT ![r] = [q EXCEPT !.at = at]]

\* Mistaken: money that leaves the drawer is stored as a negative amount.
InsertSigned(r, s, type, at) ==
  /\ sessions' = [sessions EXCEPT ![s].moved[type] =
       IF type \in {"REFUND", "CASH_OUT"} THEN @ - reqs[r].amount ELSE @ + reqs[r].amount]
  /\ reqs' = [reqs EXCEPT ![r].at = at, ![r].session = s]
  /\ UNCHANGED opened

\* r inserts a movement into session s and ends at step `at`.
Insert(r, s, type, at) ==
  LET late == IF type = "CLOSING" THEN {} ELSE {"late"}
  IN /\ sessions' = [sessions EXCEPT
          ![s].moved[type] = @ + reqs[r].amount,
          ![s].why = IF sessions[s].status = "CLOSED" THEN @ \cup late ELSE @]
     /\ reqs' = [q \in Requests |->
          IF q = r THEN [reqs[q] EXCEPT !.at = at, !.session = s]
          ELSE IF Closing(q, s) THEN [reqs[q] EXCEPT !.why = @ \cup late]
          ELSE reqs[q]]
     /\ UNCHANGED opened

-----------------------------------------------------------------------------
First(op) == CASE op = "open" -> "count"
               [] op \in {"close", "add"} -> "find"
               [] op = "sale" /\ RequireDrawer -> "validate"
               [] OTHER -> "branch"

\* A call reaches its handler.  Its branch is that of the context; updateStatus
\* takes the order's when the context has none.
Begin(r) ==
  /\ reqs[r].at = "idle"
  /\ \E op \in Ops, u \in Users, b \in Scopes, n \in Amounts, type \in Manual :
       /\ op = "add" \/ type = IF op = "refund" THEN "REFUND" ELSE "SALE"
       /\ Goto(r, [Idle EXCEPT !.op = op, !.user = u, !.branch = b, !.amount = n, !.type = type],
               First(op))
  /\ UNCHANGED <<sessions, opened>>

\* Any error, or a crash: what was written stays.
Fail(r) ==
  /\ reqs[r].at \notin {"idle", "done", "failed"}
  /\ Goto(r, Idle, "failed")
  /\ UNCHANGED <<sessions, opened>>

-----------------------------------------------------------------------------
(* openDrawer.                                                             *)

\* Mistaken: one more than the limit.
OpenCountOffByOne(r) ==
  /\ reqs[r].at = "count"
  /\ IF Cardinality(At(reqs[r].branch)) > MaxPos
       THEN Goto(r, Idle, "failed")
       ELSE Goto(r, [reqs[r] EXCEPT !.seen = opened], "create")
  /\ UNCHANGED <<sessions, opened>>

\* The count sees the open sessions of the context's branch only; without a branch
\* in the context it sees the tenant's.
OpenCount(r) ==
  /\ reqs[r].at = "count"
  /\ IF Cardinality(At(reqs[r].branch)) >= MaxPos
       THEN Goto(r, Idle, "failed")
       ELSE Goto(r, [reqs[r] EXCEPT !.seen = opened], "create")
  /\ UNCHANGED <<sessions, opened>>

\* The context's branch replaces the one in the request; without a context the
\* session is opened where the request says, or nowhere.
OpenCreate(r) ==
  /\ reqs[r].at = "create"
  /\ opened < MaxSessions
  /\ \E b \in IF reqs[r].branch = NoBranch THEN Scopes ELSE {reqs[r].branch} :
       sessions' = [sessions EXCEPT ![opened + 1] =
         [NoSession EXCEPT !.status = "OPEN", !.user = reqs[r].user, !.branch = b,
                           !.opening = reqs[r].amount, !.alone = reqs[r].seen = opened]]
  /\ opened' = opened + 1
  /\ Goto(r, [reqs[r] EXCEPT !.session = opened + 1], "float")

\* The OPENING movement, a statement of its own.
OpenFloat(r) ==
  /\ reqs[r].at = "float"
  /\ Insert(r, reqs[r].session, "OPENING", "done")

-----------------------------------------------------------------------------
(* closeDrawer and addMovement.                                            *)

\* _requireOpenSession.  Its second query asks without a branch, but the
\* extension puts the context's branch back.
Find(r) ==
  /\ reqs[r].at = "find"
  /\ \/ Own(r) = {} /\ Goto(r, Idle, "failed")
     \/ \E s \in Newest(Own(r)) :
          Goto(r, [reqs[r] EXCEPT !.session = s], IF reqs[r].op = "close" THEN "sum" ELSE "write")
  /\ UNCHANGED <<sessions, opened>>

CloseSum(r) ==
  /\ reqs[r].at = "sum"
  /\ LET row == sessions[reqs[r].session]
     IN Goto(r, [reqs[r] EXCEPT
               !.sum = Balance(row.moved),
               !.why = {w \in {"floatless", "reclosed"} :
                          \/ w = "floatless" /\ row.moved["OPENING"] # row.opening
                          \/ w = "reclosed" /\ row.moved["CLOSING"] # 0}],
             "closing")
  /\ UNCHANGED <<sessions, opened>>

CloseMovement(r) ==
  /\ reqs[r].at = "closing"
  /\ Insert(r, reqs[r].session, "CLOSING", "update")

\* The update names the session by its id alone: a session somebody else closed
\* in between is closed again.  From now on no search can rely on it.
CloseUpdate(r) ==
  /\ reqs[r].at = "update"
  /\ LET s == reqs[r].session
     IN /\ sessions' = [sessions EXCEPT ![s].status = "CLOSED", ![s].expected = reqs[r].sum,
                                        ![s].why = reqs[r].why]
        /\ reqs' = [q \in Requests |->
             [reqs[q] EXCEPT !.at = IF q = r THEN "done" ELSE @, !.held = @ \ {s}]]
  /\ UNCHANGED opened

\* addMovement, and the last step of both searches below.
Write(r) ==
  /\ reqs[r].at = "write"
  /\ Insert(r, reqs[r].session, reqs[r].type, "done")

-----------------------------------------------------------------------------
(* A cash sale or refund looks for a session.                              *)

\* validateShiftAndDrawer: hasOpenSession allows a session without a branch, but
\* the extension asks for the context's.
Validate(r) ==
  /\ reqs[r].at = "validate"
  /\ IF Own(r) = {}
       THEN Goto(r, Idle, "failed")
       ELSE Goto(r, [reqs[r] EXCEPT !.held = Fit(reqs[r].branch)], "branch")
  /\ UNCHANGED <<sessions, opened>>

\* The first query: a session of the branch, any one without a branch.
FindBranch(r) ==
  /\ reqs[r].at = "branch"
  /\ LET q == IF First(reqs[r].op) = "validate" THEN reqs[r]
              ELSE [reqs[r] EXCEPT !.held = Fit(reqs[r].branch)]
     IN \/ \E s \in At(reqs[r].branch) : Goto(r, [q EXCEPT !.session = s], "write")
        \/ At(reqs[r].branch) = {} /\ Goto(r, q, "fallback")
  /\ UNCHANGED <<sessions, opened>>

\* Mistaken: a branch has no fallback.
FallbackAnyOnly(r) ==
  LET found == IF reqs[r].branch = NoBranch /\ reqs[r].op # "refund" THEN Open ELSE {}
  IN /\ reqs[r].at = "fallback"
     /\ \/ \E s \in found : Goto(r, [reqs[r] EXCEPT !.session = s], "write")
        \/ found = {} /\ Goto(r, reqs[r], "done")
     /\ UNCHANGED <<sessions, opened>>

\* The second: a session without a branch; without a branch, a sale asks for any
\* session again and a refund does not ask.
Fallback(r) ==
  LET global == {s \in Open : sessions[s].branch = NoBranch}
      found  == IF reqs[r].branch # NoBranch THEN global
                ELSE IF reqs[r].op = "refund" THEN {} ELSE Open
  IN /\ reqs[r].at = "fallback"
     /\ \/ \E s \in found : Goto(r, [reqs[r] EXCEPT !.session = s], "write")
        \/ found = {} /\ Goto(r, reqs[r], "done")
     /\ UNCHANGED <<sessions, opened>>

-----------------------------------------------------------------------------
Step(r) ==
  \/ OpenCount(r) \/ OpenCreate(r) \/ OpenFloat(r)
  \/ Find(r) \/ CloseSum(r) \/ CloseMovement(r) \/ CloseUpdate(r) \/ Write(r)
  \/ Validate(r) \/ FindBranch(r) \/ Fallback(r)

Next == \E r \in Requests : Begin(r) \/ Step(r) \/ Fail(r)

Spec == Init /\ [][Next]_vars

-----------------------------------------------------------------------------
(* Properties.                                                             *)

\* The balance stored when a session was closed is the one its report computes
\* later, unless a movement came after the close had summed, the float was never
\* recorded, or an earlier close had left its CLOSING movement (closeDrawer and
\* getReport compute the same figure in two ways).
BalanceExplained ==
  \A s \in Sessions :
    sessions[s].status = "CLOSED" /\ sessions[s].why = {} => sessions[s].expected = Report(s)

\* The open sessions of a branch exceed maxPos only through calls that opened one
\* while another was between its count and its insert (openDrawer).
OverLimitRaced ==
  \A b \in Branches :
    Cardinality({s \in Open : sessions[s].branch = b /\ sessions[s].alone}) <= MaxPos

\* Cash goes where the search may put it, and it is in no drawer only if every
\* session fit for it was closed at some time while it looked: a session that
\* stays open is found (recordSaleByTenant, recordRefundByTenant).
SaleFindsDrawer ==
  \A r \in Requests : reqs[r].op \in {"sale", "settle", "refund"} =>
    /\ reqs[r].at = "done" /\ reqs[r].session = 0 => reqs[r].held = {}
    /\ reqs[r].session # 0 =>
         reqs[r].branch = NoBranch
         \/ sessions[reqs[r].session].branch \in {reqs[r].branch, NoBranch}

\* Calls that have chosen session s and not finished with it.
Working(s) ==
  {r \in Requests : reqs[r].session = s /\ reqs[r].at \notin {"idle", "done", "failed"}}

\* A closed session winds up: no call starts to work on it, and once the last that
\* had found it open is through, neither its money nor its report changes again.
ClosedIsFinal ==
  [][\A s \in Sessions : sessions[s].status = "CLOSED" =>
       /\ sessions'[s].status = "CLOSED"
       /\ Working(s)' \subseteq Working(s)
       /\ Working(s) = {} => sessions'[s] = sessions[s]]_vars
=============================================================================
