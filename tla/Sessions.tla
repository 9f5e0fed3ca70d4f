------------------------------- MODULE Sessions -------------------------------
(***************************************************************************)
(* The server side of signing in (AuthService, SessionService,              *)
(* TokenBlacklistService, JwtStrategy) for one user: no query of these      *)
(* services touches the rows of another.                                   *)
(*                                                                         *)
(* A sign-in inserts a UserSession row and mints a pair of tokens that      *)
(* share a jti; a refresh mints the next pair for the same row.  A jti is   *)
(* modelled by its number in the order of minting.  An access token is      *)
(* accepted until its hour is over or its jti is in Redis; the rows are not  *)
(* looked at.  Nothing here runs in a transaction: a call is a sequence of  *)
(* statements, and others run in between.                                  *)
(***************************************************************************)
EXTENDS Naturals, Sequences

CONSTANTS
  Rows,       \* UserSession ids
  Calls,      \* calls to the server
  MaxTokens,  \* bound: jtis minted
  Aging,      \* bound: the jtis whose hour may end
  MaxFaults   \* bound: calls cut off, and times Redis goes away

ASSUME SessionsAssumption == MaxTokens \in Nat \ {0} /\ MaxFaults \in Nat

VARIABLES
  sessions,  \* UserSession
  minted,    \* minted[j]: the row jti j was minted for
  expired,   \* jtis whose access token is past its hour
  listed,    \* the blacklist in Redis
  redis,     \* redis.status is 'ready'
  calls,     \* the calls
  faults,    \* how many faults so far
  stale,     \* history: rows written by a call that had read an older state of them
  unlisted   \* history: jtis not blacklisted because Redis was away

serverVars == <<sessions, minted, expired, listed, redis, calls, faults, stale, unlisted>>

None    == 0
Tokens  == 1 .. MaxTokens
Ops     == {"login", "refresh", "revokeOne", "revokeAll", "reuse", "logout"}
Steps   == {"idle", "start", "list", "rotate", "deactivate", "done", "refused", "lost"}
Running == {"start", "list", "rotate", "deactivate"}

Session   == [jti: {None} \cup Tokens, active: BOOLEAN]
NoSession == [jti |-> None, active |-> FALSE]

Call == [op: Ops, at: Steps,
         jti: {None} \cup Tokens,  \* the token it was given; at the end, the one it returns
         seen: SUBSET Tokens,      \* the jtis of the rows it read
         todo: SUBSET Tokens]      \* those still to blacklist
Idle == [op |-> "login", at |-> "idle", jti |-> None, seen |-> {}, todo |-> {}]

\* Nobody has signed in yet, or there is the session of row r.
ServerInit ==
  /\ \/ /\ sessions = [r \in Rows |-> NoSession]
        /\ minted = <<>>
     \/ \E r \in Rows :
          /\ sessions = [x \in Rows |-> IF x = r THEN [jti |-> 1, active |-> TRUE] ELSE NoSession]
          /\ minted = <<r>>
  /\ expired = {} /\ listed = {} /\ unlisted = {} /\ stale = {}
  /\ redis = TRUE
  /\ calls = [c \in Calls |-> Idle]
  /\ faults = 0

-----------------------------------------------------------------------------
(* Helpers.                                                                *)

Minted     == 1 .. Len(minted)
CanMint    == Len(minted) < MaxTokens
ActiveJtis == {sessions[r].jti : r \in {x \in Rows : sessions[x].active}}

\* JwtStrategy.validate, and expiry: the blacklist is not asked while Redis is away.
Accepted(j) == j # None /\ j \notin expired /\ (redis => j \notin listed)

Goto(c, step)       == calls' = [calls EXCEPT ![c].at = step]
End(c, step)        == calls' = [calls EXCEPT ![c] = [Idle EXCEPT !.at = step]]   \* nobody reads it again
Give(c, op, j)      == calls' = [calls EXCEPT ![c] = [Idle EXCEPT !.op = op, !.jti = j, !.at = "start"]]
Read(c, step, jtis) == calls' = [calls EXCEPT ![c].at = step, ![c].seen = jtis, ![c].todo = jtis]

-----------------------------------------------------------------------------
(* Signing in, rotating.                                                   *)

\* signToken for a new session.
Login(c) ==
  /\ calls[c].op = "login" /\ calls[c].at = "start"
  /\ CanMint
  /\ \E r \in {x \in Rows : sessions[x] = NoSession} :
       /\ sessions' = [sessions EXCEPT ![r] = [jti |-> Len(minted) + 1, active |-> TRUE]]
       /\ minted' = Append(minted, r)
  /\ calls' = [calls EXCEPT ![c].at = "done", ![c].jti = Len(minted) + 1]
  /\ UNCHANGED <<expired, listed, redis, faults, stale, unlisted>>

\* Mistaken: the rotation leaves the old jti as good as it was.
FindByJtiKeepsOld(c) ==
  LET j == calls[c].jti
      s == sessions[minted[j]]
  IN /\ calls[c].op = "refresh" /\ calls[c].at = "start"
     /\ \/ s.jti # j /\ Goto(c, "refused")
        \/ s.jti = j /\ ~s.active /\ Give(c, "reuse", j)
        \/ s.jti = j /\ s.active /\ Read(c, "rotate", {j})
     /\ UNCHANGED <<sessions, minted, expired, listed, redis, faults, stale, unlisted>>

\* refreshToken looks the session up by the jti in the token.  A row found inactive is
\* taken for reuse and every session revoked; a jti that was rotated away is in no row.
FindByJti(c) ==
  LET j == calls[c].jti
      s == sessions[minted[j]]
  IN /\ calls[c].op = "refresh" /\ calls[c].at = "start"
     /\ \/ s.jti # j /\ Goto(c, "refused")
        \/ s.jti = j /\ ~s.active /\ Give(c, "reuse", j)
        \/ s.jti = j /\ s.active /\ Read(c, "list", {j})
     /\ UNCHANGED <<sessions, minted, expired, listed, redis, faults, stale, unlisted>>

\* Mistaken: the row gets its jti, the tokens are not signed.
RotateUnsigned(c) ==
  /\ calls[c].at = "rotate"
  /\ CanMint
  /\ sessions' = [sessions EXCEPT ![minted[calls[c].jti]].jti = Len(minted) + 1]
  /\ calls' = [calls EXCEPT ![c].at = "done", ![c].jti = Len(minted) + 1]
  /\ UNCHANGED <<minted, expired, listed, redis, faults, stale, unlisted>>

\* signToken for an existing session: the row is written by id, whatever it says by now.
Rotate(c) ==
  LET r == minted[calls[c].jti]
  IN /\ calls[c].at = "rotate"
     /\ CanMint
     /\ sessions' = [sessions EXCEPT ![r].jti = Len(minted) + 1]
     /\ minted' = Append(minted, r)
     /\ stale' = IF sessions[r] = [jti |-> calls[c].jti, active |-> TRUE]
                   THEN stale ELSE stale \cup {r}
     /\ calls' = [calls EXCEPT ![c].at = "done", ![c].jti = Len(minted) + 1]
     /\ UNCHANGED <<expired, listed, redis, faults, unlisted>>

-----------------------------------------------------------------------------
(* Revoking.                                                               *)

FindOne(c) ==
  LET j == calls[c].jti
      s == sessions[minted[j]]
  IN /\ calls[c].op = "revokeOne" /\ calls[c].at = "start"
     /\ \/ s.jti = j /\ s.active /\ Read(c, "deactivate", {j})
        \/ ~(s.jti = j /\ s.active) /\ End(c, "done")
     /\ UNCHANGED <<sessions, minted, expired, listed, redis, faults, stale, unlisted>>

\* The row goes first, by id; its token is blacklisted after.
DeactivateOne(c) ==
  LET r == minted[calls[c].jti]
  IN /\ calls[c].op = "revokeOne" /\ calls[c].at = "deactivate"
     /\ sessions' = [sessions EXCEPT ![r].active = FALSE]
     /\ stale' = IF sessions[r].jti = calls[c].jti THEN stale ELSE stale \cup {r}
     /\ Goto(c, "list")
     /\ UNCHANGED <<minted, expired, listed, redis, faults, unlisted>>

FindActive(c) ==
  /\ calls[c].op \in {"revokeAll", "reuse"} /\ calls[c].at = "start"
  /\ Read(c, IF ActiveJtis = {} THEN "deactivate" ELSE "list", ActiveJtis)
  /\ UNCHANGED <<sessions, minted, expired, listed, redis, faults, stale, unlisted>>

\* One updateMany; a refresh that found a revoked session then answers 401.
DeactivateAll(c) ==
  /\ calls[c].op \in {"revokeAll", "reuse"} /\ calls[c].at = "deactivate"
  /\ sessions' = [r \in Rows |-> [sessions[r] EXCEPT !.active = FALSE]]
  /\ stale' = stale \cup {r \in Rows : sessions[r].active /\ sessions[r].jti \notin calls[c].seen}
  /\ IF calls[c].op = "reuse" THEN Goto(c, "refused") ELSE End(c, "done")
  /\ UNCHANGED <<minted, expired, listed, redis, faults, unlisted>>

\* logout: behind the JWT guard, and the row stays as it is.
Logout(c) ==
  LET j == calls[c].jti
  IN /\ calls[c].op = "logout" /\ calls[c].at = "start"
     /\ \/ Accepted(j) /\ Read(c, "list", {j})
        \/ ~Accepted(j) /\ End(c, "refused")
     /\ UNCHANGED <<sessions, minted, expired, listed, redis, faults, stale, unlisted>>

\* What a call does once its last jti is blacklisted.
AfterList(c) ==
  CASE calls[c].op = "refresh"                -> calls' = [calls EXCEPT ![c].at = "rotate", ![c].todo = {}]
    [] calls[c].op \in {"revokeAll", "reuse"} -> calls' = [calls EXCEPT ![c].at = "deactivate", ![c].todo = {}]
    [] OTHER                                  -> End(c, "done")

\* TokenBlacklistService.blacklist: nothing, and no error, while Redis is away.
Blacklist(c) ==
  /\ calls[c].at = "list"
  /\ \E j \in calls[c].todo :
       /\ listed' = IF redis THEN listed \cup {j} ELSE listed
       /\ unlisted' = IF redis THEN unlisted ELSE unlisted \cup {j}
       /\ IF calls[c].todo = {j} THEN AfterList(c) ELSE calls' = [calls EXCEPT ![c].todo = @ \ {j}]
  /\ UNCHANGED <<sessions, minted, expired, redis, faults, stale>>

-----------------------------------------------------------------------------
(* The surroundings.                                                       *)

Expire(j) ==
  /\ j \in (Aging \cap Minted) \ expired
  /\ expired' = expired \cup {j}
  /\ UNCHANGED <<sessions, minted, listed, redis, calls, faults, stale, unlisted>>

Fault == faults < MaxFaults /\ faults' = faults + 1

RedisAway ==
  /\ redis /\ Fault
  /\ redis' = FALSE
  /\ UNCHANGED <<sessions, minted, expired, listed, calls, stale, unlisted>>

RedisBack ==
  /\ ~redis
  /\ redis' = TRUE
  /\ UNCHANGED <<sessions, minted, expired, listed, calls, faults, stale, unlisted>>

\* The database, the process or the network fails: the call goes no further, or its
\* answer is lost.
Lose(c) ==
  /\ calls[c].at \in Running \cup {"done"}
  /\ Fault
  /\ Goto(c, "lost")
  /\ UNCHANGED <<sessions, minted, expired, listed, redis, stale, unlisted>>

\* Calls that do not come from the till: other devices revoke, other clients log out.
Arrive(c) ==
  /\ calls[c].at = "idle"
  /\ \E op \in {"revokeOne", "revokeAll", "logout"}, j \in Minted : Give(c, op, j)
  /\ UNCHANGED <<sessions, minted, expired, listed, redis, faults, stale, unlisted>>

Serve(c) ==
  \/ Login(c) \/ FindByJti(c) \/ Rotate(c)
  \/ FindOne(c) \/ DeactivateOne(c) \/ FindActive(c) \/ DeactivateAll(c) \/ Logout(c)
  \/ Blacklist(c)

Surroundings == RedisAway \/ RedisBack \/ \E j \in Tokens : Expire(j)

\* A call of any client: a sign-in, or one with a token that somebody was given.
Receive(c) ==
  /\ calls[c].at = "idle"
  /\ UNCHANGED <<sessions, minted, expired, listed, redis, faults, stale, unlisted>>
  /\ \/ Give(c, "login", None)
     \/ \E op \in Ops \ {"login", "reuse"}, j \in Minted : Give(c, op, j)

ServerNext == Surroundings \/ \E c \in Calls : Receive(c) \/ Serve(c) \/ Lose(c)

\* The server by itself: its clients may send anything, in any order, once per call.  What
\* the pages of lib/api.ts and the other devices do to it is such a behaviour: a request
\* posts at most one refresh, whatever it went through, and only a token that was given.
ServerSpec == ServerInit /\ [][ServerNext]_serverVars

-----------------------------------------------------------------------------
(* Properties.                                                             *)

ServerTypeOK ==
  /\ sessions \in [Rows -> Session]
  /\ minted \in Seq(Rows) /\ Len(minted) <= MaxTokens
  /\ expired \subseteq Minted /\ listed \subseteq Minted /\ unlisted \subseteq Minted
  /\ stale \subseteq Rows
  /\ redis \in BOOLEAN
  /\ calls \in [Calls -> Call]
  /\ faults \in 0 .. MaxFaults

\* The jtis of a row that are still good for an hour, Redis being there.
Live(r) == {j \in Minted : minted[j] = r} \ (expired \cup listed \cup unlisted)

\* A call that revokes the row alone has not blacklisted its token, or never will.
Closing(r) == \E c \in Calls : /\ calls[c].op = "revokeOne" /\ calls[c].at \in {"list", "lost"}
                               /\ calls[c].todo # {} /\ minted[calls[c].jti] = r

\* A session has at most one usable access token, its current one, and a revoked one
\* none, however many calls ran: unless one of them wrote the row having read an older
\* state of it, Redis missed a blacklisting, or a revocation is only half done.
OneLiveToken ==
  \A r \in Rows \ stale :
    Live(r) \subseteq IF sessions[r].active \/ Closing(r) THEN {sessions[r].jti} ELSE {}
=============================================================================
