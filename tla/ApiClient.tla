------------------------------- MODULE ApiClient -------------------------------
(* The web client's authenticated transport: the axios response interceptor   *)
(* of frontend/src/lib/api.ts (silent refresh on 401 behind one isRefreshing  *)
(* flag and one failedQueue per tab, step-up re-authentication), the step-up  *)
(* store and modal it waits on, and the sign-in state of the auth provider.   *)
(* Tabs of one browser share the cookies and nothing else.  The server is     *)
(* external: rotating refresh tokens in families, a revoked token presented   *)
(* again revokes its family, and a gated endpoint asks for a step-up token    *)
(* that covers its action.                                                    *)
(*                                                                            *)
(* A token pair (access and refresh cookie) is the number under which it was  *)
(* issued; 0 is "no cookie".  Cookies are attached when a call is sent, the   *)
(* server answers later, and the answer is handled later still.               *)
EXTENDS Naturals, Sequences, FiniteSets

CONSTANTS Tabs,      \* tabs of one browser
          Requests,  \* calls made by pages
          Mints,     \* POST /auth/step-up calls made by the modal
          TabOf,     \* the tab a call is made in
          ActionOf,  \* the step-up action the endpoint of a request demands
          None,      \* no action, no call
          MaxPairs   \* bound: token pairs the server issues

Calls == Requests \union Mints
Actions == {ActionOf[r] : r \in Requests} \ {None}

ASSUME CallsAssumption ==
    /\ Requests \intersect Mints = {}
    /\ None \notin Calls
    /\ TabOf \in [Calls -> Tabs]
    /\ DOMAIN ActionOf = Requests
    /\ MaxPairs \in Nat \ {0}

VARIABLES
    jar,            \* the pair in the browser's cookies
    family,         \* family[n]: the sign-in the n-th pair descends from
    valid,          \* refresh tokens that are not revoked
    expiredTo,      \* access tokens up to this one have expired
    st,             \* where a call is
    req,            \* a call's AxiosRequestConfig flags, cookies and reply
    isRefreshing,   \* module variable of lib/api.ts, one per tab
    failedQueue,    \* module variable of lib/api.ts, one per tab
    refresh,        \* the POST /auth/refresh a tab has under way
    logouts,        \* POST /auth/logout calls under way
    user,           \* the auth provider has a user
    tokens,         \* step-up store: actions with a cached token
    pendingAction,  \* step-up store
    resolvePrompt,  \* step-up store: the call whose promise the prompt resolves
    submitting,     \* step-up modal
    scope,          \* the action a mint was submitted for
    presented       \* history: refresh tokens a tab has sent, failed ones aside

serverVars == <<family, valid, expiredTo>>
promptVars == <<tokens, pendingAction, resolvePrompt, submitting, scope>>
vars == <<jar, serverVars, st, req, isRefreshing, failedQueue, refresh,
          logouts, user, promptVars, presented>>

Pairs == 1..MaxPairs
issued == Len(family)

States == {"idle", "sent", "replied", "queued", "refreshing", "prompted",
           "ok", "error"}
Replies == {"none", "ok", "unauthorized", "stepup", "failed"}
Request == [carried : 0..MaxPairs, reply : Replies, retry : BOOLEAN,
            stepUpRetry : BOOLEAN, header : Actions \union {None}]
Refresh == [phase : {"none", "sent", "read", "rotated", "refused"},
            owner : Calls \union {None}, token : 0..MaxPairs,
            revoked : BOOLEAN, pair : 0..MaxPairs]
NewRequest == [carried |-> 0, reply |-> "none", retry |-> FALSE,
               stepUpRetry |-> FALSE, header |-> None]
NoRefresh == [phase |-> "none", owner |-> None, token |-> 0,
              revoked |-> FALSE, pair |-> 0]

TypeOK ==
    /\ jar \in 0..MaxPairs
    /\ family \in Seq(Nat) /\ issued <= MaxPairs
    /\ valid \subseteq Pairs
    /\ expiredTo \in 0..MaxPairs
    /\ st \in [Calls -> States]
    /\ req \in [Calls -> Request]
    /\ isRefreshing \in [Tabs -> BOOLEAN]
    /\ failedQueue \in [Tabs -> SUBSET Calls]
    /\ refresh \in [Tabs -> Refresh]
    /\ logouts \subseteq [token : 0..MaxPairs, done : BOOLEAN]
    /\ user \in [Tabs -> BOOLEAN]
    /\ tokens \in [Tabs -> SUBSET Actions]
    /\ pendingAction \in [Tabs -> Actions \union {None}]
    /\ resolvePrompt \in [Tabs -> Calls \union {None}]
    /\ submitting \in [Tabs -> BOOLEAN]
    /\ scope \in [Mints -> Actions \union {None}]
    /\ presented \in [Tabs -> SUBSET Pairs]

(* One sign-in has happened: every tab has loaded with a user.                *)
Init ==
    /\ jar = 1 /\ family = <<1>> /\ valid = {1} /\ expiredTo = 0
    /\ st = [c \in Calls |-> "idle"]
    /\ req = [c \in Calls |-> NewRequest]
    /\ isRefreshing = [t \in Tabs |-> FALSE]
    /\ failedQueue = [t \in Tabs |-> {}]
    /\ refresh = [t \in Tabs |-> NoRefresh]
    /\ logouts = {}
    /\ user = [t \in Tabs |-> TRUE]
    /\ tokens = [t \in Tabs |-> {}]
    /\ pendingAction = [t \in Tabs |-> None]
    /\ resolvePrompt = [t \in Tabs |-> None]
    /\ submitting = [t \in Tabs |-> FALSE]
    /\ scope = [m \in Mints |-> None]
    /\ presented = [t \in Tabs |-> {}]

--------------------------------------------------------------------------------
(* What the client does with calls.  Several calls can move in one step: the  *)
(* handler runs to its next await, and what it resolves runs right after it.  *)

\* api(originalRequest): the browser attaches the cookies it has now.
Send(cs) ==
    /\ st' = [c \in Calls |-> IF c \in cs THEN "sent" ELSE st[c]]
    /\ req' = [c \in Calls |-> IF c \in cs
                  THEN [req[c] EXCEPT !.carried = jar', !.reply = "none"]
                  ELSE req[c]]

\* The modal's catch: an error of its mint re-enables the Confirm button.
AfterFailing(cs) ==
    [t \in Tabs |-> submitting[t] /\ \A m \in cs \intersect Mints : TabOf[m] # t]

\* The calls' promises settle; their configs are garbage from here on.
Settle(cs, how) ==
    /\ st' = [c \in Calls |-> IF c \in cs THEN how ELSE st[c]]
    /\ req' = [c \in Calls |-> IF c \in cs THEN NewRequest ELSE req[c]]

Reject(cs) ==
    /\ Settle(cs, "error")
    /\ submitting' = AfterFailing(cs)
    /\ UNCHANGED <<tokens, pendingAction, resolvePrompt, scope>>

\* fulfillPrompt: closes the prompt and resolves the last promise made for it.
ClosePrompt(t) ==
    /\ pendingAction' = [pendingAction EXCEPT ![t] = None]
    /\ resolvePrompt' = [resolvePrompt EXCEPT ![t] = None]

Resolved(t) == {resolvePrompt[t]} \ {None}

\* A page calls the API while its tab shows a signed-in user.
Issue(r) ==
    /\ st[r] = "idle" /\ user[TabOf[r]]
    /\ jar' = jar
    /\ Send({r})
    /\ UNCHANGED <<serverVars, isRefreshing, failedQueue, refresh, logouts,
                   user, promptVars, presented>>

\* External: the server's answer.  An expired access token is a plain 401; a
\* gated endpoint answers step_up_required unless the header covers its action
\* and has not expired; a mint with a wrong password is a plain 401.  Or the
\* answer never comes and axios times out.
Answers(c) ==
    {"failed"} \union
    IF req[c].carried <= expiredTo THEN {"unauthorized"}
    ELSE IF c \in Mints THEN {"ok", "unauthorized"}
    ELSE IF ActionOf[c] = None THEN {"ok"}
    ELSE IF req[c].header = ActionOf[c] THEN {"ok", "stepup"}
    ELSE {"stepup"}

ServerAnswers(c) ==
    /\ st[c] = "sent"
    /\ \E reply \in Answers(c) : req' = [req EXCEPT ![c].reply = reply]
    /\ st' = [st EXCEPT ![c] = "replied"]
    /\ UNCHANGED <<jar, serverVars, isRefreshing, failedQueue, refresh, logouts,
                   user, promptVars, presented>>

--------------------------------------------------------------------------------
(* The response interceptor.                                                  *)

\* A request's answer is delivered; so is an error the interceptor passes on.
PassOn(c) ==
    /\ st[c] = "replied"
    /\ \/ /\ req[c].reply = "ok" /\ c \in Requests
          /\ Settle({c}, "ok")
          /\ UNCHANGED promptVars
       \/ /\ \/ req[c].reply = "failed"
             \/ req[c].reply \in {"unauthorized", "stepup"} /\ req[c].retry
                /\ (req[c].reply = "stepup" => req[c].stepUpRetry)
          /\ Reject({c})
    /\ UNCHANGED <<jar, serverVars, isRefreshing, failedQueue, refresh, logouts,
                   user, presented>>

\* step_up_required: a cached token is replayed at once; otherwise requestToken
\* takes over the one prompt of the tab, whoever was waiting on it.
StepUp(c) ==
    /\ st[c] = "replied" /\ req[c].reply = "stepup" /\ ~req[c].stepUpRetry
    /\ LET t == TabOf[c]
           a == ActionOf[c] IN
       IF a \in tokens[t]
       THEN /\ st' = [st EXCEPT ![c] = "sent"]
            /\ req' = [req EXCEPT ![c].carried = jar, ![c].reply = "none",
                                  ![c].stepUpRetry = TRUE, ![c].header = a]
            /\ UNCHANGED promptVars
       ELSE /\ st' = [st EXCEPT ![c] = "prompted"]
            /\ req' = [req EXCEPT ![c].carried = 0, ![c].reply = "none"]
            /\ submitting' = [submitting EXCEPT ![t] = @ /\ pendingAction[t] = a]
            /\ pendingAction' = [pendingAction EXCEPT ![t] = a]
            /\ resolvePrompt' = [resolvePrompt EXCEPT ![t] = c]
            /\ UNCHANGED <<tokens, scope>>
    /\ UNCHANGED <<jar, serverVars, isRefreshing, failedQueue, refresh, logouts,
                   user, presented>>

\* Mutant: the refresh in progress is not looked at.
Mutant_AlwaysRefresh(c) ==
    /\ st[c] = "replied" /\ req[c].reply = "unauthorized" /\ ~req[c].retry
    /\ st' = [st EXCEPT ![c] = "refreshing"]
    /\ req' = [req EXCEPT ![c].carried = 0, ![c].reply = "none", ![c].retry = TRUE]
    /\ isRefreshing' = [isRefreshing EXCEPT ![TabOf[c]] = TRUE]
    /\ refresh' = [refresh EXCEPT ![TabOf[c]] =
          [NoRefresh EXCEPT !.phase = "sent", !.owner = c, !.token = jar]]
    /\ presented' = [presented EXCEPT ![TabOf[c]] = @ \union ({jar} \ {0})]
    /\ UNCHANGED <<jar, serverVars, failedQueue, logouts, user, promptVars>>

\* A 401 not yet retried: wait for the refresh under way in this tab, or start
\* one.  A step-up 401 on a call already retried with a step-up token gets
\* here too.
Unauthorized(c) ==
    /\ st[c] = "replied" /\ ~req[c].retry
    /\ \/ req[c].reply = "unauthorized"
       \/ req[c].reply = "stepup" /\ req[c].stepUpRetry
    /\ LET t == TabOf[c] IN
       IF isRefreshing[t]
       THEN /\ st' = [st EXCEPT ![c] = "queued"]
            /\ req' = [req EXCEPT ![c].carried = 0, ![c].reply = "none"]
            /\ failedQueue' = [failedQueue EXCEPT ![t] = @ \union {c}]
            /\ UNCHANGED <<isRefreshing, refresh, presented>>
       ELSE /\ st' = [st EXCEPT ![c] = "refreshing"]
            /\ req' = [req EXCEPT ![c].carried = 0, ![c].reply = "none",
                                  ![c].retry = TRUE]
            /\ isRefreshing' = [isRefreshing EXCEPT ![t] = TRUE]
            /\ refresh' = [refresh EXCEPT ![t] =
                  [NoRefresh EXCEPT !.phase = "sent", !.owner = c, !.token = jar]]
            /\ presented' = [presented EXCEPT ![t] = @ \union ({jar} \ {0})]
            /\ UNCHANGED failedQueue
    /\ UNCHANGED <<jar, serverVars, logouts, user, promptVars>>

\* External: POST /auth/refresh reads the presented token's row ...
RefreshRead(t) ==
    /\ refresh[t].phase = "sent"
    /\ refresh' = [refresh EXCEPT ![t].phase = "read",
                                  ![t].revoked = refresh[t].token \notin valid]
    /\ UNCHANGED <<jar, serverVars, st, req, isRefreshing, failedQueue, logouts,
                   user, promptVars, presented>>

SameFamily(n) == {k \in 1..issued : family[k] = family[n]}

\* ... and commits: rotation, or 401.  A revoked token (and an idle family)
\* takes the whole family with it.  No row is locked between the two steps.
RefreshCommit(t) ==
    LET n == refresh[t].token
        refuse == refresh' = [refresh EXCEPT ![t].phase = "refused"] IN
    /\ refresh[t].phase = "read"
    /\ \/ /\ n = 0
          /\ refuse /\ UNCHANGED <<valid, family>>
       \/ /\ n # 0
          /\ refuse /\ valid' = valid \ SameFamily(n) /\ UNCHANGED family
       \/ /\ n # 0 /\ ~refresh[t].revoked /\ issued < MaxPairs
          /\ family' = Append(family, family[n])
          /\ valid' = (valid \ {n}) \union {issued + 1}
          /\ refresh' = [refresh EXCEPT ![t].phase = "rotated",
                                        ![t].pair = issued + 1]
    /\ UNCHANGED <<jar, expiredTo, st, req, isRefreshing, failedQueue, logouts,
                   user, promptVars, presented>>

\* Mutant: the flag is reset before the queue is resolved, which then is not.
Mutant_QueueForgotten(t) ==
    /\ refresh[t].phase = "rotated"
    /\ jar' = refresh[t].pair
    /\ Send({refresh[t].owner})
    /\ isRefreshing' = [isRefreshing EXCEPT ![t] = FALSE]
    /\ refresh' = [refresh EXCEPT ![t] = NoRefresh]
    /\ UNCHANGED <<serverVars, failedQueue, logouts, user, promptVars, presented>>

\* The refresh's answer: the browser stores the new pair, processQueue(null)
\* replays every queued call, and the call that started the refresh is replayed.
RefreshSucceeds(t) ==
    /\ refresh[t].phase = "rotated"
    /\ jar' = refresh[t].pair
    /\ Send(failedQueue[t] \union {refresh[t].owner})
    /\ isRefreshing' = [isRefreshing EXCEPT ![t] = FALSE]
    /\ failedQueue' = [failedQueue EXCEPT ![t] = {}]
    /\ refresh' = [refresh EXCEPT ![t] = NoRefresh]
    /\ UNCHANGED <<serverVars, logouts, user, promptVars, presented>>

\* Mutant: the flag stays up when the refresh fails.
Mutant_FlagStaysUp(t) ==
    /\ refresh[t].phase \in {"sent", "rotated", "refused"}
    /\ Reject(failedQueue[t] \union {refresh[t].owner})
    /\ failedQueue' = [failedQueue EXCEPT ![t] = {}]
    /\ refresh' = [refresh EXCEPT ![t] = NoRefresh]
    /\ logouts' = logouts \union {[token |-> jar, done |-> FALSE]}
    /\ user' = [user EXCEPT ![t] = FALSE]
    /\ presented' = [presented EXCEPT ![t] = @ \ {refresh[t].token}]
    /\ UNCHANGED <<jar, serverVars, isRefreshing>>

\* Refused, timed out, or answered and the answer lost: every waiting call is
\* rejected, and logout() posts /auth/logout and clears the provider's user.
RefreshFails(t) ==
    /\ refresh[t].phase \in {"sent", "rotated", "refused"}
    /\ Reject(failedQueue[t] \union {refresh[t].owner})
    /\ isRefreshing' = [isRefreshing EXCEPT ![t] = FALSE]
    /\ failedQueue' = [failedQueue EXCEPT ![t] = {}]
    /\ refresh' = [refresh EXCEPT ![t] = NoRefresh]
    /\ logouts' = logouts \union {[token |-> jar, done |-> FALSE]}
    /\ user' = [user EXCEPT ![t] = FALSE]
    /\ presented' = [presented EXCEPT ![t] = @ \ {refresh[t].token}]
    /\ UNCHANGED <<jar, serverVars>>

--------------------------------------------------------------------------------
(* Step-up store and modal.                                                   *)

\* The user confirms: a mint for the action the modal shows at this moment.
Submit(m) ==
    LET t == TabOf[m] IN
    /\ pendingAction[t] # None /\ ~submitting[t] /\ st[m] = "idle"
    /\ scope' = [scope EXCEPT ![m] = pendingAction[t]]
    /\ submitting' = [submitting EXCEPT ![t] = TRUE]
    /\ jar' = jar
    /\ Send({m})
    /\ UNCHANGED <<serverVars, isRefreshing, failedQueue, refresh, logouts, user,
                   tokens, pendingAction, resolvePrompt, presented>>

\* Mutant: the token is cached for the action of the prompt open now.
Mutant_CachesOpenPrompt(m) ==
    LET t == TabOf[m] IN
    /\ st[m] = "replied" /\ req[m].reply = "ok"
    /\ tokens' = [tokens EXCEPT ![t] = @ \union {pendingAction[t]}]
    /\ ClosePrompt(t)
    /\ Settle({m} \union Resolved(t), "ok")
    /\ UNCHANGED <<jar, serverVars, isRefreshing, failedQueue, refresh, logouts,
                   user, submitting, scope, presented>>

\* The mint's answer: cacheToken, then fulfillPrompt with its token, whichever
\* prompt is open by now; the call that prompt is for is retried with it.
Minted(m) ==
    LET t == TabOf[m] IN
    /\ st[m] = "replied" /\ req[m].reply = "ok"
    /\ tokens' = [tokens EXCEPT ![t] = @ \union {scope[m]}]
    /\ ClosePrompt(t)
    /\ st' = [c \in Calls |-> IF c = m THEN "ok"
                              ELSE IF c \in Resolved(t) THEN "sent" ELSE st[c]]
    /\ req' = [c \in Calls |-> IF c \in Resolved(t)
                 THEN [req[c] EXCEPT !.carried = jar, !.reply = "none",
                          !.stepUpRetry = TRUE, !.header = scope[m]]
                 ELSE IF c = m THEN NewRequest ELSE req[c]]
    /\ UNCHANGED <<jar, serverVars, isRefreshing, failedQueue, refresh, logouts,
                   user, submitting, scope, presented>>

\* The dialog is closed: the waiting call gets null and rejects.
Cancel(t) ==
    /\ pendingAction[t] # None
    /\ ClosePrompt(t)
    /\ Settle(Resolved(t), "error")
    /\ UNCHANGED <<jar, serverVars, isRefreshing, failedQueue, refresh,
                   logouts, user, tokens, submitting, scope, presented>>

\* getValidToken no longer returns an entry within SKEW_SECONDS of its expiry.
StepUpExpires(t, a) ==
    /\ a \in tokens[t]
    /\ tokens' = [tokens EXCEPT ![t] = @ \ {a}]
    /\ UNCHANGED <<jar, serverVars, st, req, isRefreshing, failedQueue, refresh,
                   logouts, user, pendingAction, resolvePrompt, submitting,
                   scope, presented>>

--------------------------------------------------------------------------------
(* Sign-out and sign-in.                                                      *)

\* The provider's logout: fire-and-forget POST, user cleared.
Logout(t) ==
    /\ user[t]
    /\ logouts' = logouts \union {[token |-> jar, done |-> FALSE]}
    /\ user' = [user EXCEPT ![t] = FALSE]
    /\ UNCHANGED <<jar, serverVars, st, req, isRefreshing, failedQueue, refresh,
                   promptVars, presented>>

\* External: the logout endpoint revokes the token it was sent.
LogoutCommit(l) ==
    /\ ~l.done
    /\ valid' = valid \ {l.token}
    /\ logouts' = (logouts \ {l}) \union {[token |-> 0, done |-> TRUE]}
    /\ UNCHANGED <<jar, family, expiredTo, st, req, isRefreshing, failedQueue,
                   refresh, user, promptVars, presented>>

\* Its answer clears the browser's cookies, whatever they hold by then; or it
\* is lost and nothing is cleared.
LogoutEnds(l) ==
    /\ \/ l.done /\ jar' = 0
       \/ jar' = jar
    /\ logouts' = logouts \ {l}
    /\ UNCHANGED <<serverVars, st, req, isRefreshing, failedQueue, refresh, user,
                   promptVars, presented>>

\* The provider's login: a new family and new cookies, then getCurrentUser,
\* whose failure leaves the cookies without a user; one step, since pages call
\* nothing until there is a user.
Login(t) ==
    /\ ~user[t] /\ issued < MaxPairs
    /\ family' = Append(family, issued + 1)
    /\ valid' = valid \union {issued + 1}
    /\ jar' = issued + 1
    /\ \E found \in BOOLEAN : user' = [user EXCEPT ![t] = found]
    /\ UNCHANGED <<expiredTo, st, req, isRefreshing, failedQueue, refresh,
                   logouts, promptVars, presented>>

\* External: time passes.
AccessExpires ==
    /\ expiredTo < issued
    /\ expiredTo' = expiredTo + 1
    /\ UNCHANGED <<jar, family, valid, st, req, isRefreshing, failedQueue,
                   refresh, logouts, user, promptVars, presented>>

Interceptor(c) == PassOn(c) \/ StepUp(c) \/ Unauthorized(c)
RefreshClient(t) == RefreshSucceeds(t) \/ RefreshFails(t)

Next ==
    \/ \E r \in Requests : Issue(r)
    \/ \E m \in Mints : Submit(m) \/ Minted(m)
    \/ \E c \in Calls : ServerAnswers(c) \/ Interceptor(c)
    \/ \E t \in Tabs : \/ RefreshRead(t) \/ RefreshCommit(t) \/ RefreshClient(t)
                       \/ Cancel(t) \/ Logout(t) \/ Login(t)
                       \/ \E a \in Actions : StepUpExpires(t, a)
    \/ \E l \in logouts : LogoutCommit(l) \/ LogoutEnds(l)
    \/ AccessExpires

\* Every call ends within axios' timeout, an answer is handled when it comes,
\* and the user does not leave the modal open for ever.
Fairness ==
    /\ \A c \in Calls : WF_vars(ServerAnswers(c)) /\ WF_vars(Interceptor(c))
    /\ \A m \in Mints : WF_vars(Minted(m))
    /\ \A t \in Tabs : /\ WF_vars(RefreshRead(t)) /\ WF_vars(RefreshCommit(t))
                       /\ WF_vars(RefreshClient(t)) /\ WF_vars(Cancel(t))

Spec == Init /\ [][Next]_vars /\ Fairness

--------------------------------------------------------------------------------
(* A tab's isRefreshing flag is up exactly while one of its calls awaits a    *)
(* refresh, failedQueue holds exactly the calls that wait for it, and nobody  *)
(* waits when the flag is down: no 401 handler can leave a call parked behind *)
(* a refresh that is not there (lib/api.ts, refresh branch).                  *)
RefreshHasOwner ==
    \A t \in Tabs :
        /\ isRefreshing[t] <=> refresh[t].phase # "none"
        /\ isRefreshing[t] => /\ refresh[t].owner \in Calls
                              /\ TabOf[refresh[t].owner] = t
        /\ {c \in Calls : TabOf[c] = t /\ st[c] = "refreshing"}
              = IF isRefreshing[t] THEN {refresh[t].owner} ELSE {}
        /\ failedQueue[t] = {c \in Calls : TabOf[c] = t /\ st[c] = "queued"}
        /\ failedQueue[t] # {} => isRefreshing[t]

(* The 401s of one tab share its refresh: a tab presents a refresh token it    *)
(* has presented before only after that earlier attempt ended in the catch    *)
(* branch (lib/api.ts 177-182).  It says nothing about the server's reuse     *)
(* detection, which an attempt whose answer was lost, a logout or another tab *)
(* can still trip.                                                            *)
FreshTokenPerRefresh ==
    [][\A t \in Tabs :
          (refresh'[t].phase = "sent" /\ refresh'[t] # refresh[t])
             => refresh'[t].token \notin presented[t]]_vars

(* A call that was sent settles, or is a step-up prompt another call has      *)
(* taken over: requestToken overwrites resolvePrompt, and the promise it      *)
(* replaces is never resolved.                                                *)
Overwritten(c) == st[c] = "prompted" /\ resolvePrompt[TabOf[c]] # c

EveryCallSettles ==
    \A c \in Calls :
        st[c] # "idle" ~> (st[c] \in {"ok", "error"} \/ Overwritten(c))
================================================================================
