------------------------------ MODULE WebClient ------------------------------
(***************************************************************************)
(* The web client's side of the session (lib/api.ts and the pages that set  *)
(* and drop the tokens) on one device, over the server of Sessions.         *)
(*                                                                         *)
(* The tabs share the cookies and localStorage; isRefreshing and            *)
(* failedQueue are variables of a page, so each tab has its own and a full  *)
(* page load resets them.  A request that a tab has made and not settled is  *)
(* held by the tab's interceptors; its own refresh, or its sign-in, is the   *)
(* server call of the same name.                                           *)
(***************************************************************************)
EXTENDS Sessions

CONSTANTS
  Tabs,
  MaxRequests   \* bound: requests the tabs make

Requests == 1 .. MaxRequests   \* in the order they are made

\* The other calls come from elsewhere.
ASSUME WebClientAssumption ==
  /\ MaxRequests \in Nat
  /\ Requests \subseteq Calls
  /\ "none" \notin Tabs

VARIABLES
  cookies,  \* the cookies token and refresh_token
  storage,  \* localStorage.token
  tabs,     \* page, isRefreshing
  reqs      \* the requests and where their promises stand

clientVars == <<cookies, storage, tabs, reqs>>
vars == <<serverVars, clientVars>>

Pages   == {"app", "login", "leaving"}
Places  == {"idle", "sent", "denied", "queued", "refreshing", "signing", "settled", "gone"}
Waiting == {"sent", "denied", "queued", "refreshing", "signing"}

Tab == [page: Pages, refreshing: BOOLEAN,
        jammed: BOOLEAN]   \* history: a sign-in was refused when no refresh cookie was there

NoTab == "none"

Request == [at: Places, tab: Tabs \cup {NoTab}, token: {None} \cup Tokens,
            wrong: BOOLEAN,   \* it is a sign-in with a wrong password
            retry: BOOLEAN]   \* _retry

NewTab(page) == [page |-> page, refreshing |-> FALSE, jammed |-> FALSE]
NoCookies    == [access |-> None, refresh |-> None]

\* A device where nobody has signed in yet, or that holds the session there is.
Init ==
  /\ ServerInit
  /\ reqs = [q \in Requests |-> [at |-> "idle", tab |-> NoTab, token |-> None,
                                 wrong |-> FALSE, retry |-> FALSE]]
  /\ \/ /\ minted = <<>>
        /\ cookies = NoCookies
        /\ tabs = [t \in Tabs |-> NewTab("login")]
     \/ /\ minted # <<>>
        /\ cookies = [access |-> 1, refresh |-> 1]
        /\ tabs = [t \in Tabs |-> NewTab("app")]
  /\ storage = cookies.access

-----------------------------------------------------------------------------
(* Helpers.                                                                *)

\* The request interceptor, which a retry passes too.
Bearer == IF cookies.access # None THEN cookies.access ELSE storage

TabOf(q)         == reqs[q].tab
Done(q)          == [reqs[q] EXCEPT !.at = "settled", !.token = None, !.wrong = FALSE]
Settled(q)       == reqs' = [reqs EXCEPT ![q] = Done(q)]
Place(q, step)   == reqs' = [reqs EXCEPT ![q].at = step]
Queued(t)        == {p \in Requests : reqs[p].at = "queued" /\ TabOf(p) = t}
SetTab(t, field) == tabs' = [tabs EXCEPT ![t] = field]

\* Both tokens are stored, in the cookies and in localStorage.
Store(j) == cookies' = [access |-> j, refresh |-> j] /\ storage' = j

-----------------------------------------------------------------------------
(* The tabs.                                                               *)

InTurn(q) == reqs[q].at = "idle" /\ \A p \in 1 .. q - 1 : reqs[p].at # "idle"

Send(q, t) ==
  /\ InTurn(q) /\ tabs[t].page = "app"
  /\ reqs' = [reqs EXCEPT ![q] = [@ EXCEPT !.at = "sent", !.tab = t, !.token = Bearer]]
  /\ UNCHANGED <<serverVars, cookies, storage, tabs>>

\* Bound: one sign-in at a time, while there are rows.
CanSignIn == /\ \E r \in Rows : sessions[r] = NoSession
             /\ \A q \in Requests : reqs[q].at # "signing"

\* The sign-in form.  With the right password the answer is a pair of tokens.
SignIn(q, t) ==
  /\ InTurn(q) /\ tabs[t].page = "login"
  /\ \/ /\ CanSignIn
        /\ reqs' = [reqs EXCEPT ![q] = [@ EXCEPT !.at = "signing", !.tab = t]]
        /\ Give(q, "login", None)
     \/ /\ reqs' = [reqs EXCEPT ![q] = [@ EXCEPT !.at = "sent", !.tab = t, !.wrong = TRUE]]
        /\ calls' = calls
  /\ UNCHANGED <<sessions, minted, expired, listed, redis, faults, stale, unlisted>>
  /\ UNCHANGED <<cookies, storage, tabs>>

\* The side bar's handleLogout leaves refresh_token where it is and tells the server
\* nothing.
SignOut(t) ==
  /\ tabs[t].page = "app"
  /\ cookies' = [cookies EXCEPT !.access = None]
  /\ storage' = None
  /\ SetTab(t, [tabs[t] EXCEPT !.page = "leaving"])
  /\ UNCHANGED <<serverVars, reqs>>

\* window.location.href takes effect: a new page, the old one's promises are gone.  The
\* middleware sends whoever has the token cookie to the dashboard.
Leave(t) ==
  /\ tabs[t].page = "leaving"
  /\ SetTab(t, NewTab(IF cookies.access = None THEN "login" ELSE "app"))
  /\ reqs' = [q \in Requests |-> IF TabOf(q) = t /\ reqs[q].at \in Waiting
                                   THEN [Done(q) EXCEPT !.at = "gone"] ELSE reqs[q]]
  /\ UNCHANGED <<serverVars, cookies, storage>>

-----------------------------------------------------------------------------
(* A request.                                                              *)

\* The server's guard decides; a wrong password is refused whatever token came along.
Decide(q) ==
  /\ reqs[q].at = "sent"
  /\ IF ~reqs[q].wrong /\ Accepted(reqs[q].token) THEN Settled(q) ELSE Place(q, "denied")
  /\ UNCHANGED <<serverVars, cookies, storage, tabs>>

\* A 401 for a retried request is the caller's.
GiveUp(q) ==
  /\ reqs[q].at = "denied" /\ reqs[q].retry
  /\ Settled(q)
  /\ UNCHANGED <<serverVars, cookies, storage, tabs>>

\* A 401 while the tab refreshes waits in failedQueue.
Enqueue(q) ==
  /\ reqs[q].at = "denied" /\ ~reqs[q].retry /\ tabs[TabOf(q)].refreshing
  /\ Place(q, "queued")
  /\ UNCHANGED <<serverVars, cookies, storage, tabs>>

\* Mistaken: every 401 posts it, whether the tab refreshes or not.
RefreshEach(q) ==
  /\ reqs[q].at = "denied" /\ ~reqs[q].retry
  /\ cookies.refresh # None
  /\ reqs' = [reqs EXCEPT ![q].at = "refreshing", ![q].retry = TRUE]
  /\ SetTab(TabOf(q), [tabs[TabOf(q)] EXCEPT !.refreshing = TRUE])
  /\ Give(q, "refresh", cookies.refresh)
  /\ UNCHANGED <<sessions, minted, expired, listed, redis, faults, stale, unlisted>>
  /\ UNCHANGED <<cookies, storage>>

\* The first 401 posts the refresh cookie.  A request that left the queue is not marked
\* _retry, so it may come here in its turn.
Refresh(q) ==
  /\ reqs[q].at = "denied" /\ ~reqs[q].retry /\ ~tabs[TabOf(q)].refreshing
  /\ cookies.refresh # None
  /\ reqs' = [reqs EXCEPT ![q].at = "refreshing", ![q].retry = TRUE]
  /\ SetTab(TabOf(q), [tabs[TabOf(q)] EXCEPT !.refreshing = TRUE])
  /\ Give(q, "refresh", cookies.refresh)
  /\ UNCHANGED <<sessions, minted, expired, listed, redis, faults, stale, unlisted>>
  /\ UNCHANGED <<cookies, storage>>

\* Without that cookie isRefreshing is set all the same, and nothing resets it but a
\* page load, which a refused sign-in does not cause.
NoRefresh(q) ==
  LET t == TabOf(q)
  IN /\ reqs[q].at = "denied" /\ ~reqs[q].retry /\ ~tabs[t].refreshing
     /\ cookies.refresh = None
     /\ reqs' = [reqs EXCEPT ![q] = [Done(q) EXCEPT !.retry = TRUE]]
     /\ SetTab(t, IF reqs[q].wrong
                    THEN [tabs[t] EXCEPT !.refreshing = TRUE, !.jammed = TRUE]
                    ELSE [tabs[t] EXCEPT !.refreshing = TRUE, !.page = "leaving"])
     /\ UNCHANGED <<serverVars, cookies, storage>>

\* Mistaken: isRefreshing stays set.
RefreshedKeepsFlag(q) ==
  LET t == TabOf(q)
      j == calls[q].jti
  IN /\ reqs[q].at = "refreshing" /\ calls[q].at = "done"
     /\ Store(j)
     /\ reqs' = [p \in Requests |-> IF p \in Queued(t) \cup {q}
                                      THEN [reqs[p] EXCEPT !.at = "sent", !.token = j] ELSE reqs[p]]
     /\ UNCHANGED <<serverVars, tabs>>

\* processQueue(null, token), and the request itself again.
Refreshed(q) ==
  LET t == TabOf(q)
      j == calls[q].jti
  IN /\ reqs[q].at = "refreshing" /\ calls[q].at = "done"
     /\ Store(j)
     /\ reqs' = [p \in Requests |-> IF p \in Queued(t) \cup {q}
                                      THEN [reqs[p] EXCEPT !.at = "sent", !.token = j] ELSE reqs[p]]
     /\ SetTab(t, [tabs[t] EXCEPT !.refreshing = FALSE])
     /\ UNCHANGED serverVars

\* processQueue(error): any failure, of the network too, drops the cookies and leaves.
RefreshFailed(q) ==
  LET t == TabOf(q)
  IN /\ reqs[q].at = "refreshing" /\ calls[q].at \in {"refused", "lost"}
     /\ cookies' = NoCookies
     /\ reqs' = [p \in Requests |-> IF p \in Queued(t) \cup {q}
                                      THEN Done(p) ELSE reqs[p]]
     /\ SetTab(t, [tabs[t] EXCEPT !.refreshing = FALSE, !.page = "leaving"])
     /\ UNCHANGED <<serverVars, storage>>

\* handleLogin stores the tokens and pushes the dashboard: the page is the same one.
SignedIn(q) ==
  LET t == TabOf(q)
  IN /\ reqs[q].at = "signing" /\ calls[q].at = "done"
     /\ Store(calls[q].jti)
     /\ Settled(q)
     /\ SetTab(t, [tabs[t] EXCEPT !.page = IF @ = "login" THEN "app" ELSE @])
     /\ UNCHANGED serverVars

SignInFailed(q) ==
  /\ reqs[q].at = "signing" /\ calls[q].at = "lost"
  /\ Settled(q)
  /\ UNCHANGED <<serverVars, cookies, storage, tabs>>

Settle(q) ==
  \/ Decide(q) \/ GiveUp(q) \/ Enqueue(q) \/ Refresh(q) \/ NoRefresh(q)
  \/ Refreshed(q) \/ RefreshFailed(q) \/ SignedIn(q) \/ SignInFailed(q)

Server ==
  /\ \/ \E c \in Calls : Serve(c)
     \/ \E c \in Calls \ Requests : Arrive(c) \/ (calls[c].at # "done" /\ Lose(c))
     \/ \E q \in Requests : reqs[q].at \in {"refreshing", "signing"} /\ Lose(q)
     \/ Surroundings
  /\ UNCHANGED clientVars

Next ==
  \/ \E t \in Tabs : SignOut(t) \/ Leave(t) \/ \E q \in Requests : Send(q, t) \/ SignIn(q, t)
  \/ \E q \in Requests : Settle(q)
  \/ Server

Spec == Init /\ [][Next]_vars

-----------------------------------------------------------------------------
(* Properties.                                                             *)

TypeOK ==
  /\ ServerTypeOK
  /\ cookies \in [access: {None} \cup Minted, refresh: {None} \cup Minted]
  /\ storage \in {None} \cup Minted
  /\ tabs \in [Tabs -> Tab]
  /\ reqs \in [Requests -> Request]

\* Why a refresh may fail: it was cut off, the same token was sent by another tab or by
\* a page that went away before the answer came, the session is revoked, or two
\* refreshes of it had crossed before.
Cause(q) ==
  \/ calls[q].at = "lost"
  \/ \E p \in Requests : /\ TabOf(p) # TabOf(q) \/ reqs[p].at = "gone"
                         /\ reqs[p].retry /\ calls[q].jti \in calls[p].seen
  \/ ~sessions[minted[calls[q].jti]].active
  \/ minted[calls[q].jti] \in stale

\* The device is signed out by its own refresh only for such a cause: not by an answer
\* that comes late, nor by requests of one tab that are refused together.
StaysSignedIn ==
  [][\A q \in Requests : RefreshFailed(q) => Cause(q)]_vars

\* A request waits in failedQueue only while another of its tab is refreshing, which
\* empties the queue, or the page is about to go; except in a tab that saw a sign-in
\* refused before it had a refresh cookie.
QueueHasOwner ==
  \A q \in Requests :
    reqs[q].at = "queued" =>
      \/ \E p \in Requests : reqs[p].at = "refreshing" /\ TabOf(p) = TabOf(q)
      \/ tabs[TabOf(q)].page = "leaving"
      \/ tabs[TabOf(q)].jammed
=============================================================================
