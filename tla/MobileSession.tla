----------------------------- MODULE MobileSession -----------------------------
(* The mobile app's session: the axios interceptors of mobile/lib/api.ts, the *)
(* auth store of mobile/lib/auth-store.ts, the login screen, signing out, and *)
(* the AuthGate of mobile/app/_layout.tsx.  The tokens live twice: in three   *)
(* keys of SecureStore, one asynchronous operation each, and in the zustand   *)
(* store.  The interceptor only touches the keys, the screens only the store. *)
(*                                                                            *)
(* A token pair is the number under which the server issued it, 0 is "none".  *)
(* A handler runs to its next await in one step; the app may be killed        *)
(* between any two.  SecureStore itself is taken not to fail.                 *)
EXTENDS Naturals

CONSTANTS Requests,   \* calls made by screens
          LoginCall,  \* POST /auth/login
          MeCall,     \* GET /auth/me of the login screen
          MaxPairs    \* bound: token pairs the server issues

Calls == Requests \union {LoginCall, MeCall}
None == "none"

ASSUME SessionAssumption == LoginCall # MeCall /\ MaxPairs \in Nat \ {0}

VARIABLES
    disk,          \* SecureStore: TOKEN_KEY, REFRESH_TOKEN_KEY, USER_KEY
    mem,           \* useAuthStore
    hydrated,      \* isHydrated: the app is up
    screen,        \* the route group: (auth) or the app
    issued, valid, \* server: pairs issued, refresh tokens not revoked
    expiredTo,     \* access tokens up to this one have expired
    st, req,       \* calls: where they are, and what they carry
    isRefreshing, failedQueue,   \* module variables of lib/api.ts
    refresh,       \* the interceptor's silent refresh under way
    leaving,       \* logout() of lib/api.ts: how far, 0 for not isLoggingOut
    login,         \* handleLogin: how far, with which pair
    clearing,      \* clearAuth: how far, 0 for not at all
    presented,     \* history: refresh tokens sent, see FreshTokenPerRefresh
    signedOut      \* history: signing out, or done so undisturbed since the last login

serverVars == <<issued, valid, expiredTo>>
callVars == <<st, req, isRefreshing, failedQueue, refresh>>
flowVars == <<leaving, login, clearing>>
vars == <<disk, mem, hydrated, screen, serverVars, callVars, flowVars, presented, signedOut>>

Users == {"none", "stub", "me"}   \* "stub": the placeholder with role client
Store == [token : 0..MaxPairs, refresh : 0..MaxPairs, user : Users]
Empty == [token |-> 0, refresh |-> 0, user |-> "none"]
NewRequest == [carried |-> 0, retry |-> FALSE, pair |-> 0]
NoRefresh == [phase |-> None, owner |-> None, token |-> 0, pair |-> 0]
NoLogin == [pc |-> "idle", key |-> 1, pair |-> 0]

TypeOK ==
    /\ disk \in Store /\ mem \in Store
    /\ hydrated \in BOOLEAN /\ screen \in {"auth", "app"}
    /\ issued \in 0..MaxPairs /\ valid \subseteq 1..issued /\ expiredTo \in 0..issued
    /\ st \in [Calls -> {"idle", "sent", "queued", "refreshing", "leaving",
                         "ok", "error"}]
    /\ \A c \in Calls : req[c].carried \in 0..issued /\ req[c].pair \in 0..issued
    /\ isRefreshing \in BOOLEAN /\ failedQueue \subseteq Calls
    /\ refresh.phase \in {None, "reading", "posting", "rotated", "stored", "refused"}
    /\ refresh.token \in 0..issued /\ refresh.pair \in 0..issued
    /\ leaving \in 0..4 /\ clearing \in 0..3
    /\ login.pc \in {"idle", "login", "stub", "me", "user"} /\ login.key \in 1..3
    /\ presented \subseteq 1..issued /\ signedOut \in {"no", "clearing", "yes"}

\* A fresh install, or an app that was signed in before, starting up.
Init ==
    /\ \/ disk = Empty /\ issued = 0
       \/ disk = [token |-> 1, refresh |-> 1, user |-> "me"] /\ issued = 1
    /\ valid = 1..issued /\ expiredTo = 0
    /\ mem = Empty /\ hydrated = FALSE /\ screen = "app"
    /\ st = [c \in Calls |-> "idle"] /\ req = [c \in Calls |-> NewRequest]
    /\ isRefreshing = FALSE /\ failedQueue = {} /\ refresh = NoRefresh
    /\ leaving = 0 /\ login = NoLogin /\ clearing = 0
    /\ presented = {} /\ signedOut = "no"

\* A key is written while the user is signing out.
Disturb == signedOut' = IF signedOut = "clearing" THEN "no" ELSE signedOut

--------------------------------------------------------------------------------
(* Calls.                                                                     *)

\* The request interceptor reads TOKEN_KEY whenever a call goes out.
Send(cs) ==
    /\ st' = [c \in Calls |-> IF c \in cs THEN "sent" ELSE st[c]]
    /\ req' = [c \in Calls |-> IF c \in cs
                  THEN [req[c] EXCEPT !.carried = disk'.token] ELSE req[c]]

\* A settled call of a screen is done with; the login screen awaits its own.
After(c, how) == IF c \in Requests THEN "idle" ELSE how

Settle(cs, how) ==
    /\ st' = [c \in Calls |-> IF c \in cs THEN After(c, how) ELSE st[c]]
    /\ req' = [c \in Calls |-> IF c \in cs
                  THEN NewRequest ELSE req[c]]

\* A screen calls the API; the screens of the app are shown with a token in
\* memory or until the AuthGate's effect has run.
Issue(r) ==
    /\ hydrated /\ screen = "app" /\ st[r] = "idle"
    /\ disk' = disk
    /\ Send({r})
    /\ UNCHANGED <<mem, hydrated, screen, serverVars, isRefreshing, failedQueue,
                   refresh, flowVars, presented, signedOut>>

\* The answer of the server, which is external, and what the interceptor does
\* with it are one step: a token that is refused stays refused while the answer
\* travels.  A login issues a pair.
Accepted(c) == c # LoginCall /\ req[c].carried > expiredTo

Succeeds(c) ==
    /\ st[c] = "sent"
    /\ \/ /\ Accepted(c) /\ Settle({c}, "ok")
          /\ UNCHANGED <<issued, valid>>
       \/ /\ c = LoginCall /\ issued < MaxPairs
          /\ issued' = issued + 1 /\ valid' = valid \union {issued + 1}
          /\ st' = [st EXCEPT ![c] = "ok"]
          /\ req' = [req EXCEPT ![c] = [NewRequest EXCEPT !.pair = issued + 1]]
    /\ UNCHANGED <<disk, mem, hydrated, screen, expiredTo, isRefreshing, failedQueue,
                   refresh, flowVars, presented, signedOut>>

\* A timeout or an error of the server, and a 401 on a call already retried.
Fails(c) ==
    /\ st[c] = "sent" /\ Settle({c}, "error")
    /\ UNCHANGED <<disk, mem, hydrated, screen, serverVars, isRefreshing, failedQueue,
                   refresh, flowVars, presented, signedOut>>

\* A first 401, for the token or for a wrong password: wait for the refresh
\* under way, or start one by awaiting the refresh token from SecureStore.
Unauthorized(c) ==
    /\ st[c] = "sent" /\ ~Accepted(c) /\ ~req[c].retry
    /\ IF isRefreshing
       THEN /\ st' = [st EXCEPT ![c] = "queued"]
            /\ req' = [req EXCEPT ![c] = NewRequest]
            /\ failedQueue' = failedQueue \union {c}
            /\ UNCHANGED <<isRefreshing, refresh>>
       ELSE /\ st' = [st EXCEPT ![c] = "refreshing"]
            /\ req' = [req EXCEPT ![c] = [NewRequest EXCEPT !.retry = TRUE]]
            /\ isRefreshing' = TRUE
            /\ refresh' = [NoRefresh EXCEPT !.phase = "reading", !.owner = c]
            /\ UNCHANGED failedQueue
    /\ UNCHANGED <<disk, mem, hydrated, screen, serverVars, flowVars, presented, signedOut>>

--------------------------------------------------------------------------------
(* The silent refresh and logout() of lib/api.ts.                             *)

\* `await logout()` and then reject the call that asked for the refresh, and
\* the others in cs at once; a logout already under way is not awaited.
LogoutAndReject(cs) ==
    LET owner == refresh.owner IN
    /\ leaving' = IF leaving = 0 THEN 1 ELSE leaving
    /\ st' = [c \in Calls |-> IF c = owner
                 THEN IF leaving = 0 THEN "leaving" ELSE After(c, "error")
                 ELSE IF c \in cs THEN After(c, "error") ELSE st[c]]
    /\ req' = [c \in Calls |-> IF c = owner \/ c \in cs THEN NewRequest ELSE req[c]]
    /\ refresh' = NoRefresh

\* No refresh token: logout, and isRefreshing stays TRUE.
ReadRefreshToken ==
    /\ refresh.phase = "reading"
    /\ IF disk.refresh = 0
       THEN LogoutAndReject({}) /\ UNCHANGED presented
       ELSE /\ refresh' = [refresh EXCEPT !.phase = "posting", !.token = disk.refresh]
            /\ presented' = presented \union {disk.refresh}
            /\ UNCHANGED <<st, req, leaving>>
    /\ UNCHANGED <<disk, mem, hydrated, screen, serverVars, isRefreshing, failedQueue,
                   login, clearing, signedOut>>

\* External: POST /auth/refresh rotates a valid token, or refuses any token.
\* That a revoked one revokes its whole family is left out: fewer pairs would
\* be valid, and a refresh may be refused anyhow.
RefreshCommit ==
    /\ refresh.phase = "posting"
    /\ \/ /\ refresh' = [refresh EXCEPT !.phase = "refused"]
          /\ UNCHANGED <<issued, valid>>
       \/ /\ refresh.token \in valid /\ issued < MaxPairs
          /\ issued' = issued + 1
          /\ valid' = (valid \ {refresh.token}) \union {issued + 1}
          /\ refresh' = [refresh EXCEPT !.phase = "rotated", !.pair = issued + 1]
    /\ UNCHANGED <<disk, mem, hydrated, screen, expiredTo, st, req, isRefreshing,
                   failedQueue, flowVars, presented, signedOut>>

\* The first of two writes.
StoreAccess ==
    /\ refresh.phase = "rotated"
    /\ disk' = [disk EXCEPT !.token = refresh.pair]
    /\ refresh' = [refresh EXCEPT !.phase = "stored"]
    /\ Disturb
    /\ UNCHANGED <<mem, hydrated, screen, serverVars, st, req, isRefreshing,
                   failedQueue, flowVars, presented>>

\* Mutants: the new refresh token is not stored; the queue is not resolved.
Mutant_KeepRefreshToken ==
    /\ refresh.phase = "stored"
    /\ disk' = disk
    /\ Send(failedQueue \union {refresh.owner})
    /\ isRefreshing' = FALSE /\ failedQueue' = {} /\ refresh' = NoRefresh
    /\ Disturb
    /\ UNCHANGED <<mem, hydrated, screen, serverVars, flowVars, presented>>
Mutant_QueueForgotten ==
    /\ refresh.phase = "stored"
    /\ disk' = [disk EXCEPT !.refresh = refresh.pair]
    /\ Send({refresh.owner})
    /\ isRefreshing' = FALSE /\ refresh' = NoRefresh
    /\ Disturb
    /\ UNCHANGED <<mem, hydrated, screen, serverVars, failedQueue, flowVars, presented>>

\* The second, then processQueue(null) and the original request again.
StoreRefresh ==
    /\ refresh.phase = "stored"
    /\ disk' = [disk EXCEPT !.refresh = refresh.pair]
    /\ Send(failedQueue \union {refresh.owner})
    /\ isRefreshing' = FALSE /\ failedQueue' = {} /\ refresh' = NoRefresh
    /\ Disturb
    /\ UNCHANGED <<mem, hydrated, screen, serverVars, flowVars, presented>>

\* Refused, or the connection breaks on the way in or out.
RefreshFails ==
    /\ refresh.phase \in {"posting", "rotated", "refused"}
    /\ LogoutAndReject(failedQueue)
    /\ isRefreshing' = FALSE /\ failedQueue' = {}
    /\ presented' = presented \ {refresh.token}
    /\ UNCHANGED <<disk, mem, hydrated, screen, serverVars, login, clearing, signedOut>>

\* What deleting the n-th of the three keys leaves.
Deleted(n) == CASE n = 1 -> [disk EXCEPT !.token = 0]
                [] n = 2 -> [disk EXCEPT !.refresh = 0]
                [] n = 3 -> [disk EXCEPT !.user = "none"]

\* logout(): three deletions and the login screen; the store keeps its token.
LeaveStep ==
    /\ leaving \in 1..3
    /\ disk' = Deleted(leaving) /\ leaving' = leaving + 1
    /\ IF leaving = 3
       THEN /\ screen' = "auth"
            /\ Settle({c \in Calls : st[c] = "leaving"}, "error")
       ELSE UNCHANGED <<screen, st, req>>
    /\ UNCHANGED <<mem, hydrated, serverVars, isRefreshing, failedQueue, refresh,
                   login, clearing, presented, signedOut>>

\* The two-second timer that resets isLoggingOut.
LeaveTimer ==
    /\ leaving = 4 /\ leaving' = 0
    /\ UNCHANGED <<disk, mem, hydrated, screen, serverVars, callVars, login, clearing,
                   presented, signedOut>>

--------------------------------------------------------------------------------
(* Screens: signing in and out, and the gate.                                 *)

\* handleLogin: the button is disabled while it runs.
StartLogin ==
    /\ hydrated /\ screen = "auth" /\ login.pc = "idle" /\ issued < MaxPairs
    /\ login' = [NoLogin EXCEPT !.pc = "login"]
    /\ disk' = disk /\ Send({LoginCall})
    /\ signedOut' = "no"
    /\ UNCHANGED <<mem, hydrated, screen, serverVars, isRefreshing, failedQueue,
                   refresh, leaving, clearing, presented>>

\* The login call has settled, or getMe has: go on to setAuth, or give up.
\* After a failed getMe the placeholder session stays.
LoginSettled ==
    LET c == IF login.pc = "login" THEN LoginCall ELSE MeCall IN
    /\ login.pc \in {"login", "me"} /\ st[c] \in {"ok", "error"}
    /\ login' = IF st[c] = "error" THEN NoLogin
                ELSE IF c = LoginCall THEN [pc |-> "stub", key |-> 1, pair |-> req[c].pair]
                ELSE [login EXCEPT !.pc = "user"]
    /\ st' = [st EXCEPT ![c] = "idle"] /\ req' = [req EXCEPT ![c] = NewRequest]
    /\ UNCHANGED <<disk, mem, hydrated, screen, serverVars, isRefreshing, failedQueue,
                   refresh, leaving, clearing, presented, signedOut>>

\* setAuth, first with the placeholder, then with the user: three writes and
\* the store, always with the pair of the login, even if getMe has rotated it.
SetAuth ==
    LET n == login.pair
        user == IF login.pc = "stub" THEN "stub" ELSE "me"
        last == login.key = 3 IN
    /\ login.pc \in {"stub", "user"}
    /\ disk' = CASE login.key = 1 -> [disk EXCEPT !.token = n]
                 [] login.key = 2 -> [disk EXCEPT !.refresh = n]
                 [] login.key = 3 -> [disk EXCEPT !.user = user]
    /\ presented' = IF login.key = 2 THEN presented \ {n} ELSE presented
    /\ mem' = IF last THEN [token |-> n, refresh |-> n, user |-> user] ELSE mem
    /\ login' = IF ~last THEN [login EXCEPT !.key = @ + 1]
                ELSE IF login.pc = "stub" THEN [login EXCEPT !.pc = "me", !.key = 1]
                ELSE NoLogin
    /\ IF last /\ login.pc = "stub" THEN Send({MeCall}) ELSE UNCHANGED <<st, req>>
    /\ screen' = IF last /\ login.pc = "user" THEN "app" ELSE screen
    /\ Disturb
    /\ UNCHANGED <<hydrated, serverVars, isRefreshing, failedQueue, refresh, leaving,
                   clearing>>

\* handleLogout of the settings screen.  It tells the server nothing.
StartLogout ==
    /\ hydrated /\ screen = "app" /\ clearing = 0
    /\ clearing' = 1 /\ signedOut' = "clearing"
    /\ UNCHANGED <<disk, mem, hydrated, screen, serverVars, callVars, leaving, login,
                   presented>>

\* Nothing has written the keys meanwhile, no refresh or login is about to.
Done == IF signedOut = "clearing" /\ refresh.phase = None /\ login.pc = "idle"
        THEN "yes" ELSE "no"

\* Mutant: the refresh token is left behind.
Mutant_KeepKey ==
    /\ clearing \in 1..3
    /\ disk' = IF clearing = 2 THEN disk ELSE Deleted(clearing)
    /\ clearing' = IF clearing = 3 THEN 0 ELSE clearing + 1
    /\ IF clearing = 3
       THEN mem' = Empty /\ screen' = "auth" /\ signedOut' = Done
       ELSE UNCHANGED <<mem, screen, signedOut>>
    /\ UNCHANGED <<hydrated, serverVars, callVars, leaving, login, presented>>

\* Mutant: the store is cleared and the keys go on being counted.
Mutant_NeverDone ==
    /\ clearing \in 1..3
    /\ disk' = Deleted(clearing) /\ clearing' = clearing + 1
    /\ IF clearing = 3
       THEN mem' = Empty /\ screen' = "auth" /\ signedOut' = Done
       ELSE UNCHANGED <<mem, screen, signedOut>>
    /\ UNCHANGED <<hydrated, serverVars, callVars, leaving, login, presented>>

\* clearAuth: three deletions, then the store, then the login screen.
ClearAuth ==
    /\ clearing \in 1..3
    /\ disk' = Deleted(clearing)
    /\ clearing' = IF clearing = 3 THEN 0 ELSE clearing + 1
    /\ IF clearing = 3
       THEN mem' = Empty /\ screen' = "auth" /\ signedOut' = Done
       ELSE UNCHANGED <<mem, screen, signedOut>>
    /\ UNCHANGED <<hydrated, serverVars, callVars, leaving, login, presented>>

\* The AuthGate looks at the token in memory only.
AuthGate ==
    /\ hydrated
    /\ \/ mem.token = 0 /\ screen = "app" /\ screen' = "auth"
       \/ mem.token # 0 /\ screen = "auth" /\ screen' = "app"
    /\ UNCHANGED <<disk, mem, hydrated, serverVars, callVars, flowVars, presented, signedOut>>

\* initialize: hydrate from SecureStore; nothing else runs before it is done.
Hydrate ==
    /\ ~hydrated
    /\ mem' = disk /\ hydrated' = TRUE
    /\ UNCHANGED <<disk, screen, serverVars, callVars, flowVars, presented,
                   signedOut>>

\* The app is killed.  A refresh on its way may still reach the server.
Crash ==
    /\ hydrated
    /\ valid' \in {valid, IF refresh.phase = "posting" THEN valid \ {refresh.token}
                          ELSE valid}
    /\ mem' = Empty /\ hydrated' = FALSE /\ screen' = "app"
    /\ st' = [c \in Calls |-> "idle"] /\ req' = [c \in Calls |-> NewRequest]
    /\ isRefreshing' = FALSE /\ failedQueue' = {} /\ refresh' = NoRefresh
    /\ leaving' = 0 /\ login' = NoLogin /\ clearing' = 0 /\ presented' = {}
    /\ Disturb
    /\ UNCHANGED <<disk, issued, expiredTo>>

\* External: time passes.
AccessExpires ==
    /\ expiredTo < issued /\ expiredTo' = expiredTo + 1
    /\ UNCHANGED <<disk, mem, hydrated, screen, issued, valid, callVars, flowVars,
                   presented, signedOut>>

Answered(c) == Succeeds(c) \/ Fails(c) \/ Unauthorized(c)
Refreshing == ReadRefreshToken \/ StoreRefresh
RefreshAnswered == StoreAccess \/ RefreshFails

Next ==
    \/ \E r \in Requests : Issue(r)
    \/ \E c \in Calls : Answered(c)
    \/ Refreshing \/ RefreshCommit \/ RefreshAnswered \/ LeaveStep \/ LeaveTimer
    \/ StartLogin \/ LoginSettled \/ SetAuth \/ StartLogout \/ ClearAuth
    \/ AuthGate \/ Hydrate \/ Crash \/ AccessExpires

\* Calls made with the api instance time out after 30 seconds, promises run on,
\* effects and timers run; users, time and the system killing the app owe
\* nothing.  Nor does the refresh, posted with axios itself, which has no
\* timeout: its answer, or its failure, may never come.
Spec ==
    /\ Init /\ [][Next]_vars
    /\ \A c \in Calls : WF_vars(Answered(c))
    /\ WF_vars(Refreshing) /\ WF_vars(LeaveStep) /\ WF_vars(LeaveTimer)
    /\ WF_vars(LoginSettled) /\ WF_vars(SetAuth) /\ WF_vars(ClearAuth)
    /\ WF_vars(AuthGate) /\ WF_vars(Hydrate)

--------------------------------------------------------------------------------
(* The interceptor never presents a refresh token twice: what it stores is    *)
(* what it presents next.  Exceptions are a refresh that failed, an app       *)
(* killed before both writes, and the login screen storing its own pair again *)
(* after getMe has rotated it (lib/api.ts, response interceptor).             *)
FreshTokenPerRefresh ==
    [][(refresh'.phase = "posting" /\ refresh.phase # "posting")
          => refresh'.token \notin presented]_vars

(* The flag that no refresh owns any more: the refresh-token lookup came back *)
(* empty, and that branch of the interceptor returns without resetting it.    *)
Wedged == isRefreshing /\ refresh.phase = None

(* The refresh is out, and nothing bounds the wait for its answer.            *)
Unanswered == refresh.phase \in {"posting", "rotated", "refused"}

(* Every call settles or dies with the app, except one queued behind a flag   *)
(* left up by the branch without a refresh token, and those that wait, from   *)
(* some moment on, for a refresh that is never answered.                      *)
CallsSettleUnlessWedged ==
    \A c \in Calls :
        \/ st[c] \in {"sent", "queued", "refreshing", "leaving"}
              ~> (st[c] \in {"idle", "ok", "error"} \/ (Wedged /\ st[c] = "queued"))
        \/ <>[](Unanswered /\ st[c] \in {"queued", "refreshing"})

(* After signing out, with no refresh or login under way, nothing brings the  *)
(* session back before the next login: not the 401s of calls still out, not   *)
(* an interrupted logout() of the interceptor, not a restart.                 *)
SignedOutStaysOut == signedOut = "yes" => disk = Empty /\ mem = Empty
================================================================================
