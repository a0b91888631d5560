-------------------------- MODULE MobileSessionProofs --------------------------
(* The mobile session for any number of screens' calls and token pairs: who   *)
(* has signed out stays out, and a refresh token is presented once.           *)
EXTENDS MobileSession, TLAPS

--------------------------------------------------------------------------------
(* Types, with the token pairs that are around bounded by those issued.       *)

StoreUpTo(k) == [token : 0 .. k, refresh : 0 .. k, user : Users]
RequestUpTo(k) == [carried : 0 .. k, retry : BOOLEAN, pair : 0 .. k]
RefreshUpTo(k) ==
    [phase : {None, "reading", "posting", "rotated", "stored", "refused"},
     owner : Calls \union {None}, token : 0 .. k, pair : 0 .. k]
LoginUpTo(k) ==
    [pc : {"idle", "login", "stub", "me", "user"}, key : 1 .. 3, pair : 0 .. k]
CallStates == {"idle", "sent", "queued", "refreshing", "leaving", "ok", "error"}

Keys == disk \in StoreUpTo(issued) /\ mem \in StoreUpTo(issued)
App == /\ hydrated \in BOOLEAN /\ screen \in {"auth", "app"}
       /\ leaving \in 0 .. 4 /\ clearing \in 0 .. 3
       /\ signedOut \in {"no", "clearing", "yes"}
Server == /\ issued \in 0 .. MaxPairs
          /\ valid \subseteq 1 .. issued /\ presented \subseteq 1 .. issued
          /\ expiredTo \in 0 .. issued
Traffic == /\ st \in [Calls -> CallStates]
           /\ req \in [Calls -> RequestUpTo(issued)]
           /\ isRefreshing \in BOOLEAN /\ failedQueue \subseteq Calls
Flows == refresh \in RefreshUpTo(issued) /\ login \in LoginUpTo(issued)

Types == Keys /\ App /\ Server /\ Traffic /\ Flows

(* What signing out has deleted stays deleted until it is done, unless the    *)
(* writer of a key has ended the claim; afterwards nothing that could write a *)
(* key is under way.  A refresh that was only asked for is harmless: it will  *)
(* find no refresh token.                                                     *)
Out ==
    /\ signedOut = "clearing" =>
          /\ clearing \in 1 .. 3
          /\ clearing > 1 => disk.token = 0
          /\ clearing > 2 => disk.refresh = 0
    /\ signedOut = "yes" =>
          /\ disk = Empty /\ mem = Empty
          /\ refresh.phase \in {None, "reading"} /\ login.pc = "idle"

(* A stored refresh token that was presented belongs to the refresh under     *)
(* way, of which there is one at a time; the pair it has brought is new.      *)
Unspent ==
    /\ refresh.phase # None => isRefreshing /\ refresh.owner \in Calls
    /\ disk.refresh \in presented =>
          refresh.phase \notin {None, "reading"} /\ refresh.token = disk.refresh
    /\ refresh.phase \in {"rotated", "stored"} =>
          refresh.pair # 0 /\ refresh.pair \notin presented

SessionInv == Types /\ Out /\ Unspent

USE SessionAssumption

(* More token pairs only widen the types.                                     *)
LEMMA Wider ==
    ASSUME NEW k \in Nat
    PROVE  /\ StoreUpTo(k) \subseteq StoreUpTo(k + 1)
           /\ RequestUpTo(k) \subseteq RequestUpTo(k + 1)
           /\ [Calls -> RequestUpTo(k)] \subseteq [Calls -> RequestUpTo(k + 1)]
           /\ RefreshUpTo(k) \subseteq RefreshUpTo(k + 1)
           /\ LoginUpTo(k) \subseteq LoginUpTo(k + 1)
<1>1. 0 .. k \subseteq 0 .. (k + 1)
    OBVIOUS
<1>2. RequestUpTo(k) \subseteq RequestUpTo(k + 1)
    BY <1>1 DEF RequestUpTo
<1>3. StoreUpTo(k) \subseteq StoreUpTo(k + 1)
    BY <1>1 DEF StoreUpTo
<1>4. RefreshUpTo(k) \subseteq RefreshUpTo(k + 1) /\ LoginUpTo(k) \subseteq LoginUpTo(k + 1)
    BY <1>1 DEF RefreshUpTo, LoginUpTo
<1> QED  BY <1>2, <1>3, <1>4

(* What a call carries after a 401 or a login.                                *)
LEMMA NewRequestTypes ==
    ASSUME NEW k \in Nat
    PROVE  /\ NewRequest \in RequestUpTo(k)
           /\ [NewRequest EXCEPT !.retry = TRUE] \in RequestUpTo(k)
           /\ \A n \in 0 .. k : [NewRequest EXCEPT !.pair = n] \in RequestUpTo(k)
<1>1. NewRequest \in RequestUpTo(k)
    BY DEF NewRequest, RequestUpTo
<1>2. \A q \in RequestUpTo(k) : /\ [q EXCEPT !.retry = TRUE] \in RequestUpTo(k)
                                /\ \A n \in 0 .. k : [q EXCEPT !.pair = n] \in RequestUpTo(k)
    BY DEF RequestUpTo
<1> QED  BY <1>1, <1>2

(* The calls that go out carry the stored token.                              *)
LEMMA SendTypes ==
    ASSUME Types, NEW cs, Send(cs), disk'.token \in 0 .. issued
    PROVE  st' \in [Calls -> CallStates] /\ req' \in [Calls -> RequestUpTo(issued)]
<1>1. \A c \in Calls : [req[c] EXCEPT !.carried = disk'.token] \in RequestUpTo(issued)
    BY DEF Types, Traffic, RequestUpTo
<1>2. st' \in [Calls -> CallStates]
    BY DEF Send, Types, Traffic, CallStates
<1> QED  BY <1>1, <1>2 DEF Send, Types, Traffic

(* A call that has settled carries nothing.                                   *)
LEMMA SettleTypes ==
    ASSUME Types, NEW cs, NEW how \in {"ok", "error"}, Settle(cs, how)
    PROVE  st' \in [Calls -> CallStates] /\ req' \in [Calls -> RequestUpTo(issued)]
<1>1. NewRequest \in RequestUpTo(issued)
    BY DEF Types, Server, NewRequest, RequestUpTo
<1>2. st' \in [Calls -> CallStates]
    BY DEF Settle, After, Types, Traffic, CallStates
<1> QED  BY <1>1, <1>2 DEF Settle, Types, Traffic

(* So does the call whose refresh ends in logout(), and the others with it.   *)
LEMMA LogoutTypes ==
    ASSUME Types, NEW cs, LogoutAndReject(cs)
    PROVE  /\ st' \in [Calls -> CallStates] /\ req' \in [Calls -> RequestUpTo(issued)]
           /\ refresh' = NoRefresh /\ NoRefresh \in RefreshUpTo(issued)
           /\ leaving' \in 0 .. 4
<1>1. NewRequest \in RequestUpTo(issued)
    BY DEF Types, Server, NewRequest, RequestUpTo
<1>2. st' \in [Calls -> CallStates]
    BY DEF LogoutAndReject, After, Types, Traffic, CallStates
<1>3. req' \in [Calls -> RequestUpTo(issued)]
    BY <1>1 DEF LogoutAndReject, Types, Traffic
<1>4. NoRefresh \in RefreshUpTo(issued)
    BY DEF NoRefresh, RefreshUpTo, Types, Server
<1> QED  BY <1>2, <1>3, <1>4 DEF LogoutAndReject, Types, App

(* A fresh install, or an app that was signed in before.                      *)
LEMMA InitSession == Init => SessionInv
<1> SUFFICES ASSUME Init PROVE SessionInv
    OBVIOUS
<1>1. issued \in 0 .. MaxPairs /\ disk \in StoreUpTo(issued)
    BY DEF Init, Empty, StoreUpTo, Users
<1>2. Keys /\ App /\ Server
    <2>1. Empty \in StoreUpTo(issued)
        BY <1>1 DEF Empty, StoreUpTo, Users
    <2>2. Keys
        BY <1>1, <2>1 DEF Init, Keys
    <2>3. App
        <3>1. 0 \in 0 .. 4 /\ 0 \in 0 .. 3
            OBVIOUS
        <3> QED  BY <3>1, Zenon DEF Init, App
    <2>4. Server
        BY <1>1 DEF Init, Server
    <2> QED  BY <2>2, <2>3, <2>4
<1>3. NewRequest \in RequestUpTo(issued)
    BY <1>1 DEF NewRequest, RequestUpTo
<1>4. Traffic
    BY <1>3 DEF Init, Traffic, CallStates
<1>5. Flows
    BY <1>1 DEF Init, Flows, NoRefresh, NoLogin, RefreshUpTo, LoginUpTo
<1>6. Out
    BY DEF Init, Out
<1>7. Unspent
    BY DEF Init, Unspent, NoRefresh, None
<1> QED  BY <1>2, <1>4, <1>5, <1>6, <1>7 DEF SessionInv, Types

--------------------------------------------------------------------------------
(* The steps, one lemma for each.                                             *)

(* What a step leaves alone keeps its type.                                   *)
LEMMA Framed ==
    ASSUME Types, UNCHANGED issued
    PROVE  /\ UNCHANGED <<disk, mem>> => Keys'
           /\ UNCHANGED <<hydrated, screen, leaving, clearing, signedOut>> => App'
           /\ UNCHANGED <<valid, presented, expiredTo>> => Server'
           /\ UNCHANGED <<st, req, isRefreshing, failedQueue>> => Traffic'
           /\ UNCHANGED <<refresh, login>> => Flows'
    BY DEF Types, Keys, App, Server, Traffic, Flows

(* A step that writes neither keys nor store, and leaves the refresh and the  *)
(* histories alone, keeps what is claimed of them if the login does not start *)
(* while somebody is signed out.                                              *)
LEMMA NotTheirs ==
    ASSUME Out, Unspent,
           UNCHANGED <<disk, mem, refresh, isRefreshing, presented, clearing, signedOut>>,
           signedOut = "yes" => login'.pc = login.pc
    PROVE  Out' /\ Unspent'
    BY DEF Out, Unspent

(* A screen calls the API.                                                    *)
LEMMA IssueSession ==
    ASSUME SessionInv, NEW r \in Requests, Issue(r) PROVE SessionInv'
<1>1. Types /\ Out /\ Unspent /\ disk'.token \in 0 .. issued
    BY DEF SessionInv, Types, Keys, StoreUpTo, Issue
<1>2. st' \in [Calls -> CallStates] /\ req' \in [Calls -> RequestUpTo(issued)]
    BY <1>1, SendTypes DEF Issue
<1>3. /\ UNCHANGED <<disk, mem, hydrated, screen, issued, valid, expiredTo, leaving, login,
                     clearing, isRefreshing, failedQueue, refresh, presented, signedOut>>
    BY DEF Issue, serverVars, flowVars
<1>4. Traffic'
    BY <1>1, <1>2, <1>3 DEF Types, Traffic
<1> QED  BY <1>1, <1>3, <1>4, Framed, NotTheirs DEF SessionInv, Types

(* The server answers: a call is done, or a login brings a pair.              *)
LEMMA SucceedsSession ==
    ASSUME SessionInv, NEW c \in Calls, Succeeds(c) PROVE SessionInv'
<1>1. Types /\ Out /\ Unspent /\ issued \in Nat
    BY DEF SessionInv, Types, Server
<1>2. UNCHANGED <<disk, mem, hydrated, screen, expiredTo, isRefreshing, failedQueue,
                  refresh, leaving, login, clearing, presented, signedOut>>
    BY DEF Succeeds, flowVars
<1>3. CASE UNCHANGED <<issued, valid>> /\ Settle({c}, "ok")
    <2>1. st' \in [Calls -> CallStates] /\ req' \in [Calls -> RequestUpTo(issued)]
        BY <1>1, <1>3, SettleTypes
    <2>2. Traffic'
        BY <1>1, <1>2, <1>3, <2>1 DEF Types, Traffic
    <2> QED  BY <1>1, <1>2, <1>3, <2>2, Framed, NotTheirs DEF SessionInv, Types
<1>4. CASE /\ issued < MaxPairs
           /\ issued' = issued + 1 /\ valid' = valid \union {issued + 1}
           /\ st' = [st EXCEPT ![c] = "ok"]
           /\ req' = [req EXCEPT ![c] = [NewRequest EXCEPT !.pair = issued + 1]]
    <2>1. Keys' /\ Flows' /\ req \in [Calls -> RequestUpTo(issued + 1)]
        BY <1>1, <1>2, <1>4, Wider DEF Types, Keys, Flows, Traffic
    <2>2. Server'
        BY <1>1, <1>2, <1>4 DEF Types, Server
    <2>3. [NewRequest EXCEPT !.pair = issued + 1] \in RequestUpTo(issued + 1)
        <3>1. issued + 1 \in Nat /\ issued + 1 \in 0 .. (issued + 1)
            BY <1>1
        <3> QED  BY <3>1, NewRequestTypes
    <2>4. Traffic'
        BY <1>1, <1>2, <1>4, <2>1, <2>3 DEF Types, Traffic, CallStates
    <2>5. App'
        BY <1>1, <1>2 DEF Types, App
    <2> QED  BY <1>1, <1>2, <2>1, <2>2, <2>4, <2>5, NotTheirs DEF SessionInv, Types
<1> QED  BY <1>3, <1>4 DEF Succeeds

(* A call fails.                                                              *)
LEMMA FailsSession == ASSUME SessionInv, NEW c \in Calls, Fails(c) PROVE SessionInv'
<1>1. Types /\ Out /\ Unspent
    BY DEF SessionInv
<1>2. /\ Settle({c}, "error")
      /\ UNCHANGED <<disk, mem, hydrated, screen, issued, valid, expiredTo, isRefreshing,
                     failedQueue, refresh, leaving, login, clearing, presented, signedOut>>
    BY DEF Fails, serverVars, flowVars
<1>3. st' \in [Calls -> CallStates] /\ req' \in [Calls -> RequestUpTo(issued)]
    BY <1>1, <1>2, SettleTypes
<1>4. Traffic'
    BY <1>1, <1>2, <1>3 DEF Types, Traffic
<1> QED  BY <1>1, <1>2, <1>4, Framed, NotTheirs DEF SessionInv, Types

(* A 401 waits for the refresh under way; only without one it starts another, *)
(* which has presented nothing yet.                                           *)
LEMMA UnauthorizedSession ==
    ASSUME SessionInv, NEW c \in Calls, Unauthorized(c) PROVE SessionInv'
<1>1. Types /\ Out /\ Unspent /\ issued \in Nat
    BY DEF SessionInv, Types, Server
<1>2. UNCHANGED <<disk, mem, hydrated, screen, issued, valid, expiredTo, leaving, login,
                  clearing, presented, signedOut>>
    BY DEF Unauthorized, serverVars, flowVars
<1>3. /\ NewRequest \in RequestUpTo(issued)
      /\ [NewRequest EXCEPT !.retry = TRUE] \in RequestUpTo(issued)
    BY <1>1, NewRequestTypes
<1>4. CASE isRefreshing
    <2>1. /\ st' = [st EXCEPT ![c] = "queued"] /\ req' = [req EXCEPT ![c] = NewRequest]
          /\ failedQueue' = failedQueue \union {c}
          /\ UNCHANGED <<isRefreshing, refresh>>
        BY <1>4 DEF Unauthorized
    <2>2. Traffic'
        BY <1>1, <1>2, <1>3, <2>1 DEF Types, Traffic, CallStates
    <2> QED  BY <1>1, <1>2, <2>1, <2>2, Framed, NotTheirs DEF SessionInv, Types
<1>5. CASE ~isRefreshing
    <2>1. /\ st' = [st EXCEPT ![c] = "refreshing"]
          /\ req' = [req EXCEPT ![c] = [NewRequest EXCEPT !.retry = TRUE]]
          /\ isRefreshing' = TRUE /\ failedQueue' = failedQueue
          /\ refresh' = [phase |-> "reading", owner |-> c, token |-> 0, pair |-> 0]
        BY <1>5 DEF Unauthorized, NoRefresh
    <2>2. Traffic'
        BY <1>1, <1>2, <1>3, <2>1 DEF Types, Traffic, CallStates
    <2>3. Flows'
        BY <1>1, <1>2, <2>1 DEF Types, Flows, RefreshUpTo
    <2>4. Out'
        BY <1>1, <1>2, <2>1 DEF Out
    <2>5. Unspent'
        BY <1>1, <1>2, <1>5, <2>1 DEF Unspent, None
    <2> QED  BY <1>1, <1>2, <2>2, <2>3, <2>4, <2>5, Framed DEF SessionInv, Types
<1> QED  BY <1>4, <1>5

(* The refresh presents the stored token, or finds none and logs out.         *)
LEMMA ReadRefreshTokenSession ==
    ASSUME SessionInv, ReadRefreshToken PROVE SessionInv'
<1>1. Types /\ Out /\ Unspent /\ issued \in Nat
    BY DEF SessionInv, Types, Server
<1>2. UNCHANGED <<disk, mem, hydrated, screen, issued, valid, expiredTo, isRefreshing,
                  failedQueue, login, clearing, signedOut>>
    BY DEF ReadRefreshToken, serverVars
<1>3. refresh.phase = "reading"
    BY DEF ReadRefreshToken
<1>4. CASE disk.refresh = 0
    <2>1. LogoutAndReject({}) /\ presented' = presented
        BY <1>4 DEF ReadRefreshToken
    <2>2. /\ st' \in [Calls -> CallStates] /\ req' \in [Calls -> RequestUpTo(issued)]
          /\ refresh' = NoRefresh /\ NoRefresh \in RefreshUpTo(issued)
          /\ leaving' \in 0 .. 4
        BY <1>1, <2>1, LogoutTypes
    <2>3. Traffic' /\ Flows'
        BY <1>1, <1>2, <2>2 DEF Types, Traffic, Flows
    <2>4. App'
        BY <1>1, <1>2, <2>2 DEF Types, App
    <2>5. Out'
        BY <1>1, <1>2, <2>2 DEF Out, NoRefresh
    <2>6. Unspent'
        BY <1>1, <1>2, <1>3, <2>1, <2>2 DEF Unspent, NoRefresh, None
    <2> QED  BY <1>1, <1>2, <2>1, <2>3, <2>4, <2>5, <2>6, Framed DEF SessionInv, Types
<1>5. CASE disk.refresh # 0
    <2>1. /\ refresh' = [refresh EXCEPT !.phase = "posting", !.token = disk.refresh]
          /\ presented' = presented \union {disk.refresh}
          /\ UNCHANGED <<st, req, leaving>>
        BY <1>5 DEF ReadRefreshToken
    <2>2. disk.refresh \in 1 .. issued
        BY <1>1, <1>5 DEF Types, Keys, StoreUpTo
    <2>3. /\ refresh' \in RefreshUpTo(issued) /\ refresh'.phase = "posting"
          /\ refresh'.token = disk.refresh /\ refresh'.owner = refresh.owner
        <3> DEFINE r == [refresh EXCEPT !.phase = "posting"]
        <3>1. r \in RefreshUpTo(issued) /\ r.phase = "posting" /\ r.owner = refresh.owner
            BY <1>1 DEF Types, Flows, RefreshUpTo
        <3>2. refresh' = [r EXCEPT !.token = disk.refresh]
            BY <2>1
        <3> HIDE DEF r
        <3> QED  BY <2>2, <3>1, <3>2 DEF RefreshUpTo
    <2>4. Flows'
        BY <1>1, <1>2, <2>3 DEF Types, Flows
    <2>5. Server'
        BY <1>1, <1>2, <2>1, <2>2 DEF Types, Server
    <2>6. Out'
        BY <1>1, <1>2, <1>5, <2>1 DEF Out, Empty
    <2>7. Unspent'
        BY <1>1, <1>2, <1>3, <2>3 DEF Unspent, None
    <2> QED  BY <1>1, <1>2, <2>1, <2>4, <2>5, <2>6, <2>7, Framed DEF SessionInv, Types
<1> QED  BY <1>4, <1>5

(* The server refuses the token or rotates it into a pair never seen before.  *)
LEMMA RefreshCommitSession == ASSUME SessionInv, RefreshCommit PROVE SessionInv'
<1>1. Types /\ Out /\ Unspent /\ issued \in Nat
    BY DEF SessionInv, Types, Server
<1>2. UNCHANGED <<disk, mem, hydrated, screen, expiredTo, st, req, isRefreshing,
                  failedQueue, leaving, login, clearing, presented, signedOut>>
    BY DEF RefreshCommit, flowVars
<1>3. refresh.phase = "posting"
    BY DEF RefreshCommit
<1>4. CASE refresh' = [refresh EXCEPT !.phase = "refused"] /\ UNCHANGED <<issued, valid>>
    <2>1. /\ refresh' \in RefreshUpTo(issued) /\ refresh'.phase = "refused"
          /\ refresh'.token = refresh.token /\ refresh'.owner = refresh.owner
        BY <1>1, <1>4 DEF Types, Flows, RefreshUpTo
    <2>2. Flows'
        BY <1>1, <1>2, <1>4, <2>1 DEF Types, Flows
    <2>3. Out'
        BY <1>1, <1>2, <1>3 DEF Out, None
    <2>4. Unspent'
        BY <1>1, <1>2, <1>3, <2>1 DEF Unspent, None
    <2> QED  BY <1>1, <1>2, <1>4, <2>2, <2>3, <2>4, Framed DEF SessionInv, Types
<1>5. CASE /\ issued < MaxPairs /\ issued' = issued + 1
           /\ valid' = (valid \ {refresh.token}) \union {issued + 1}
           /\ refresh' = [refresh EXCEPT !.phase = "rotated", !.pair = issued + 1]
    <2>1. refresh \in RefreshUpTo(issued + 1)
        BY <1>1, Wider DEF Types, Flows
    <2>2. /\ refresh' \in RefreshUpTo(issued + 1) /\ refresh'.phase = "rotated"
          /\ refresh'.token = refresh.token /\ refresh'.owner = refresh.owner
          /\ refresh'.pair = issued + 1
        <3> DEFINE r == [refresh EXCEPT !.phase = "rotated"]
        <3>1. /\ r \in RefreshUpTo(issued + 1) /\ r.phase = "rotated"
              /\ r.owner = refresh.owner /\ r.token = refresh.token
            BY <2>1 DEF RefreshUpTo
        <3>2. refresh' = [r EXCEPT !.pair = issued + 1]
            BY <1>5
        <3> HIDE DEF r
        <3> QED  BY <1>1, <3>1, <3>2 DEF RefreshUpTo
    <2>3. Keys' /\ Flows' /\ Traffic'
        BY <1>1, <1>2, <1>5, <2>2, Wider DEF Types, Keys, Flows, Traffic
    <2>4. Server' /\ issued + 1 \notin presented
        BY <1>1, <1>2, <1>5 DEF Types, Server
    <2>5. App'
        BY <1>1, <1>2 DEF Types, App
    <2>6. Out'
        BY <1>1, <1>2, <1>3 DEF Out, None
    <2>7. Unspent'
        BY <1>1, <1>2, <1>3, <2>2, <2>4 DEF Unspent, None
    <2> QED  BY <2>3, <2>4, <2>5, <2>6, <2>7 DEF SessionInv, Types
<1> QED  BY <1>4, <1>5 DEF RefreshCommit

(* A write of a key ends the claim of who is signing out; it cannot happen    *)
(* once somebody has signed out.                                              *)
LEMMA DisturbSession ==
    ASSUME Types, Disturb, signedOut # "yes"
    PROVE  signedOut' = "no"
    BY DEF Types, App, Disturb

(* The interceptor stores the access token.                                   *)
LEMMA StoreAccessSession == ASSUME SessionInv, StoreAccess PROVE SessionInv'
<1>1. Types /\ Out /\ Unspent
    BY DEF SessionInv
<1>2. /\ refresh.phase = "rotated"
      /\ disk' = [disk EXCEPT !.token = refresh.pair]
      /\ refresh' = [refresh EXCEPT !.phase = "stored"]
      /\ UNCHANGED <<mem, hydrated, screen, issued, valid, expiredTo, st, req, isRefreshing,
                     failedQueue, leaving, login, clearing, presented>>
    BY DEF StoreAccess, serverVars, flowVars
<1>3. signedOut' = "no"
    BY <1>1, <1>2, DisturbSession DEF StoreAccess, Out, None
<1>4. /\ disk' \in StoreUpTo(issued) /\ disk'.refresh = disk.refresh
      /\ refresh' \in RefreshUpTo(issued) /\ refresh'.phase = "stored"
      /\ refresh'.token = refresh.token /\ refresh'.owner = refresh.owner
      /\ refresh'.pair = refresh.pair
    BY <1>1, <1>2 DEF Types, Keys, Flows, StoreUpTo, RefreshUpTo
<1>5. Keys' /\ Flows'
    BY <1>1, <1>2, <1>4 DEF Types, Keys, Flows
<1>6. App'
    BY <1>1, <1>2, <1>3 DEF Types, App
<1>7. Out'
    BY <1>3 DEF Out
<1>8. Unspent'
    BY <1>1, <1>2, <1>4 DEF Unspent, None
<1> QED  BY <1>1, <1>2, <1>5, <1>6, <1>7, <1>8, Framed DEF SessionInv, Types

(* The refresh token of the new pair replaces the one that was presented.     *)
LEMMA StoreRefreshSession == ASSUME SessionInv, StoreRefresh PROVE SessionInv'
<1>1. Types /\ Out /\ Unspent
    BY DEF SessionInv
<1>2. /\ refresh.phase = "stored"
      /\ disk' = [disk EXCEPT !.refresh = refresh.pair]
      /\ Send(failedQueue \union {refresh.owner})
      /\ isRefreshing' = FALSE /\ failedQueue' = {} /\ refresh' = NoRefresh
      /\ UNCHANGED <<mem, hydrated, screen, issued, valid, expiredTo, leaving, login,
                     clearing, presented>>
    BY DEF StoreRefresh, serverVars, flowVars
<1>3. signedOut' = "no"
    BY <1>1, <1>2, DisturbSession DEF StoreRefresh, Out, None
<1>4. disk' \in StoreUpTo(issued) /\ disk'.refresh = refresh.pair
    BY <1>1, <1>2 DEF Types, Keys, Flows, StoreUpTo, RefreshUpTo
<1>5. st' \in [Calls -> CallStates] /\ req' \in [Calls -> RequestUpTo(issued)]
    <2>1. disk'.token \in 0 .. issued
        BY <1>4 DEF StoreUpTo
    <2> QED  BY <1>1, <1>2, <2>1, SendTypes
<1>6. refresh' \in RefreshUpTo(issued) /\ refresh'.phase = None
    BY <1>1, <1>2 DEF Types, Server, NoRefresh, RefreshUpTo
<1>7. Keys' /\ Flows'
    BY <1>1, <1>2, <1>4, <1>6 DEF Types, Keys, Flows
<1>8. Traffic'
    BY <1>2, <1>5 DEF Traffic
<1>9. App'
    BY <1>1, <1>2, <1>3 DEF Types, App
<1>10. Out'
    BY <1>3 DEF Out
<1>11. Unspent'
    BY <1>1, <1>2, <1>4, <1>6 DEF Unspent, None
<1> QED  BY <1>1, <1>2, <1>7, <1>8, <1>9, <1>10, <1>11, Framed DEF SessionInv, Types

(* A failed refresh gives its token back: it may be presented once more.      *)
LEMMA RefreshFailsSession == ASSUME SessionInv, RefreshFails PROVE SessionInv'
<1>1. Types /\ Out /\ Unspent
    BY DEF SessionInv
<1>2. /\ LogoutAndReject(failedQueue)
      /\ isRefreshing' = FALSE /\ failedQueue' = {}
      /\ presented' = presented \ {refresh.token}
      /\ UNCHANGED <<disk, mem, hydrated, screen, issued, valid, expiredTo, login,
                     clearing, signedOut>>
    BY DEF RefreshFails, serverVars
<1>3. /\ st' \in [Calls -> CallStates] /\ req' \in [Calls -> RequestUpTo(issued)]
      /\ refresh' = NoRefresh /\ NoRefresh \in RefreshUpTo(issued)
      /\ leaving' \in 0 .. 4
    BY <1>1, <1>2, LogoutTypes
<1>4. Traffic' /\ Flows'
    BY <1>1, <1>2, <1>3 DEF Types, Traffic, Flows
<1>5. App'
    BY <1>1, <1>2, <1>3 DEF Types, App
<1>6. Server'
    BY <1>1, <1>2 DEF Types, Server
<1>7. Out'
    BY <1>1, <1>2, <1>3 DEF Out, NoRefresh
<1>8. Unspent'
    BY <1>1, <1>2, <1>3 DEF Unspent, NoRefresh, None
<1> QED  BY <1>1, <1>2, <1>4, <1>5, <1>6, <1>7, <1>8, Framed DEF SessionInv, Types

(* A deletion empties one key and touches no other.                           *)
LEMMA DeletedKey ==
    ASSUME Types, NEW n \in 1 .. 3
    PROVE  /\ Deleted(n) \in StoreUpTo(issued)
           /\ Deleted(n).token = IF n = 1 THEN 0 ELSE disk.token
           /\ Deleted(n).refresh = IF n = 2 THEN 0 ELSE disk.refresh
           /\ Deleted(n).user = IF n = 3 THEN "none" ELSE disk.user
<1>1. disk \in StoreUpTo(issued) /\ issued \in Nat
    BY DEF Types, Keys, Server
<1>2. CASE n = 1
    BY <1>1, <1>2 DEF Deleted, StoreUpTo, Users
<1>3. CASE n = 2
    BY <1>1, <1>3 DEF Deleted, StoreUpTo, Users
<1>4. CASE n = 3
    BY <1>1, <1>4 DEF Deleted, StoreUpTo, Users
<1> QED  BY <1>2, <1>3, <1>4

(* A store is empty when its three keys are.                                  *)
LEMMA EmptyKeys ==
    ASSUME NEW k, NEW x \in StoreUpTo(k), x.token = 0, x.refresh = 0, x.user = "none"
    PROVE  x = Empty
    BY DEF StoreUpTo, Empty

(* Neither logout() nor clearAuth can bring a key back.                       *)
LEMMA DeletingKeepsOut ==
    ASSUME Types, NEW n \in 1 .. 3, disk' = Deleted(n)
    PROVE  /\ disk' \in StoreUpTo(issued)
           /\ disk.token = 0 => disk'.token = 0
           /\ disk.refresh = 0 => disk'.refresh = 0
           /\ disk = Empty => disk' = Empty
           /\ disk'.refresh \in {0, disk.refresh}
<1>1. /\ disk' \in StoreUpTo(issued)
      /\ disk'.token \in {0, disk.token} /\ disk'.refresh \in {0, disk.refresh}
      /\ disk'.user \in {"none", disk.user}
    BY DeletedKey
<1>2. disk = Empty => disk.token = 0 /\ disk.refresh = 0 /\ disk.user = "none"
    BY DEF Empty
<1>3. disk = Empty => disk' = Empty
    BY <1>1, <1>2, EmptyKeys
<1> QED  BY <1>1, <1>3

(* logout() of the interceptor deletes a key.                                 *)
LEMMA LeaveStepSession == ASSUME SessionInv, LeaveStep PROVE SessionInv'
<1>1. Types /\ Out /\ Unspent
    BY DEF SessionInv
<1>2. /\ leaving \in 1 .. 3 /\ disk' = Deleted(leaving) /\ leaving' = leaving + 1
      /\ UNCHANGED <<mem, hydrated, issued, valid, expiredTo, isRefreshing, failedQueue,
                     refresh, login, clearing, presented, signedOut>>
    BY DEF LeaveStep, serverVars
<1>3. /\ screen' \in {screen, "auth"}
      /\ st' \in [Calls -> CallStates] /\ req' \in [Calls -> RequestUpTo(issued)]
    <2>1. CASE leaving = 3
        BY <1>1, <2>1, SettleTypes DEF LeaveStep
    <2>2. CASE leaving # 3
        BY <1>1, <2>2 DEF LeaveStep, Types, Traffic
    <2> QED  BY <2>1, <2>2
<1>4. /\ disk' \in StoreUpTo(issued)
      /\ disk.token = 0 => disk'.token = 0
      /\ disk.refresh = 0 => disk'.refresh = 0
      /\ disk = Empty => disk' = Empty
      /\ disk'.refresh \in {0, disk.refresh}
    BY <1>1, <1>2, DeletingKeepsOut
<1>5. Keys'
    BY <1>1, <1>2, <1>4 DEF Types, Keys
<1>6. Traffic'
    BY <1>1, <1>2, <1>3 DEF Types, Traffic
<1>7. App'
    BY <1>1, <1>2, <1>3 DEF Types, App
<1>8. Out'
    BY <1>1, <1>2, <1>4 DEF Out
<1>9. Unspent'
    <2>1. 0 \notin presented
        BY <1>1 DEF Types, Server
    <2> QED  BY <1>1, <1>2, <1>4, <2>1 DEF Unspent
<1> QED  BY <1>1, <1>2, <1>5, <1>6, <1>7, <1>8, <1>9, Framed DEF SessionInv, Types

(* Steps that only move the app along: the timer of logout(), the AuthGate,   *)
(* an access token that expires.                                              *)
LEMMA QuietSession ==
    ASSUME SessionInv, LeaveTimer \/ AuthGate \/ AccessExpires PROVE SessionInv'
<1>1. Types /\ Out /\ Unspent
    BY DEF SessionInv
<1>2. /\ UNCHANGED <<disk, mem, hydrated, issued, valid, st, req, isRefreshing, failedQueue,
                     refresh, login, clearing, presented, signedOut>>
      /\ screen' \in {"auth", "app"} /\ leaving' \in 0 .. 4 /\ expiredTo' \in 0 .. issued
    <2>1. CASE LeaveTimer
        BY <1>1, <2>1 DEF LeaveTimer, serverVars, callVars, Types, App, Server
    <2>2. CASE AuthGate
        BY <1>1, <2>2 DEF AuthGate, serverVars, callVars, flowVars, Types, App, Server
    <2>3. CASE AccessExpires
        BY <1>1, <2>3 DEF AccessExpires, callVars, flowVars, Types, App, Server
    <2> QED  BY <2>1, <2>2, <2>3
<1>3. App'
    BY <1>1, <1>2 DEF Types, App
<1>4. Server'
    BY <1>1, <1>2 DEF Types, Server
<1> QED  BY <1>1, <1>2, <1>3, <1>4, Framed, NotTheirs DEF SessionInv, Types

(* The user signs in: whoever was signed out is not any more.                 *)
LEMMA StartLoginSession == ASSUME SessionInv, StartLogin PROVE SessionInv'
<1>1. Types /\ Out /\ Unspent
    BY DEF SessionInv
<1>2. /\ login' = [NoLogin EXCEPT !.pc = "login"] /\ disk' = disk /\ Send({LoginCall})
      /\ signedOut' = "no"
      /\ UNCHANGED <<mem, hydrated, screen, issued, valid, expiredTo, isRefreshing,
                     failedQueue, refresh, leaving, clearing, presented>>
    BY DEF StartLogin, serverVars
<1>3. st' \in [Calls -> CallStates] /\ req' \in [Calls -> RequestUpTo(issued)]
    <2>1. disk'.token \in 0 .. issued
        BY <1>1, <1>2 DEF Types, Keys, StoreUpTo
    <2> QED  BY <1>1, <1>2, <2>1, SendTypes
<1>4. Traffic'
    BY <1>1, <1>2, <1>3 DEF Types, Traffic
<1>5. Flows'
    <2>1. login' = [pc |-> "login", key |-> 1, pair |-> 0]
        BY <1>2 DEF NoLogin
    <2>2. login' \in LoginUpTo(issued)
        BY <1>1, <2>1 DEF Types, Server, LoginUpTo
    <2> QED  BY <1>1, <1>2, <2>2 DEF Types, Flows
<1>6. App'
    BY <1>1, <1>2 DEF Types, App
<1>7. Out'
    BY <1>2 DEF Out
<1>8. Unspent'
    BY <1>1, <1>2 DEF Unspent
<1> QED  BY <1>1, <1>2, <1>4, <1>5, <1>6, <1>7, <1>8, Framed DEF SessionInv, Types

(* The login or getMe has settled.                                            *)
LEMMA LoginSettledSession == ASSUME SessionInv, LoginSettled PROVE SessionInv'
<1> DEFINE c == IF login.pc = "login" THEN LoginCall ELSE MeCall
<1>1. Types /\ Out /\ Unspent /\ issued \in Nat /\ c \in Calls
    BY DEF SessionInv, Types, Server, Calls
<1>2. /\ login.pc \in {"login", "me"}
      /\ st' = [st EXCEPT ![c] = "idle"] /\ req' = [req EXCEPT ![c] = NewRequest]
      /\ UNCHANGED <<disk, mem, hydrated, screen, issued, valid, expiredTo, isRefreshing,
                     failedQueue, refresh, leaving, clearing, presented, signedOut>>
      /\ \/ login' = NoLogin
         \/ login' = [pc |-> "stub", key |-> 1, pair |-> req[c].pair]
         \/ login' = [login EXCEPT !.pc = "user"]
    BY DEF LoginSettled, serverVars
<1> HIDE DEF c
<1>3. login' \in LoginUpTo(issued)
    <2>1. req[c].pair \in 0 .. issued
        BY <1>1 DEF Types, Traffic, RequestUpTo
    <2>2. NoLogin \in LoginUpTo(issued)
        BY <1>1 DEF NoLogin, LoginUpTo
    <2>3. [login EXCEPT !.pc = "user"] \in LoginUpTo(issued)
        BY <1>1 DEF Types, Flows, LoginUpTo
    <2>4. [pc |-> "stub", key |-> 1, pair |-> req[c].pair] \in LoginUpTo(issued)
        BY <2>1 DEF LoginUpTo
    <2> QED  BY <1>2, <2>2, <2>3, <2>4
<1>4. Flows'
    BY <1>1, <1>2, <1>3 DEF Types, Flows
<1>5. Traffic'
    BY <1>1, <1>2, NewRequestTypes DEF Types, Traffic, CallStates
<1>6. Out'
    BY <1>1, <1>2 DEF Out
<1>7. Unspent'
    BY <1>1, <1>2 DEF Unspent
<1> QED  BY <1>1, <1>2, <1>4, <1>5, <1>6, <1>7, Framed DEF SessionInv, Types

(* setAuth writes a key, or the store with the last of them.                  *)
LEMMA SetAuthSession == ASSUME SessionInv, SetAuth PROVE SessionInv'
<1> DEFINE n == login.pair
           user == IF login.pc = "stub" THEN "stub" ELSE "me"
<1>1. /\ Types /\ Out /\ Unspent /\ issued \in Nat
      /\ login \in LoginUpTo(issued) /\ disk \in StoreUpTo(issued)
    BY DEF SessionInv, Types, Server, Flows, Keys
<1>2. /\ login.pc \in {"stub", "user"} /\ Disturb
      /\ presented' = IF login.key = 2 THEN presented \ {n} ELSE presented
      /\ UNCHANGED <<hydrated, issued, valid, expiredTo, isRefreshing, failedQueue, refresh,
                     leaving, clearing>>
    BY DEF SetAuth, serverVars
<1>3. signedOut' = "no"
    BY <1>1, <1>2, DisturbSession DEF Out
<1>4. n \in 0 .. issued /\ login.key \in 1 .. 3 /\ user \in Users
    BY <1>1 DEF LoginUpTo, Users
<1>5. /\ disk' \in StoreUpTo(issued)
      /\ disk'.refresh = IF login.key = 2 THEN n ELSE disk.refresh
    <2>1. CASE login.key = 1
        <3>1. disk' = [disk EXCEPT !.token = n]
            BY <2>1 DEF SetAuth
        <3> QED  BY <1>1, <1>4, <2>1, <3>1 DEF StoreUpTo
    <2>2. CASE login.key = 2
        <3>1. disk' = [disk EXCEPT !.refresh = n]
            BY <2>2 DEF SetAuth
        <3> QED  BY <1>1, <1>4, <2>2, <3>1 DEF StoreUpTo
    <2>3. CASE login.key = 3
        <3>1. disk' = [disk EXCEPT !.user = user]
            BY <2>3 DEF SetAuth
        <3> HIDE DEF user
        <3> QED  BY <1>1, <1>4, <2>3, <3>1 DEF StoreUpTo
    <2> QED  BY <1>4, <2>1, <2>2, <2>3
<1>6. mem' \in StoreUpTo(issued)
    <2>1. mem' = IF login.key = 3 THEN [token |-> n, refresh |-> n, user |-> user] ELSE mem
        BY DEF SetAuth
    <2>2. [token |-> n, refresh |-> n, user |-> user] \in StoreUpTo(issued)
        <3> HIDE DEF n, user
        <3> QED  BY <1>4 DEF StoreUpTo
    <2> QED  BY <1>1, <2>1, <2>2 DEF Types, Keys
<1>7. login' \in LoginUpTo(issued)
    <2>1. CASE login.key # 3
        <3>1. login' = [login EXCEPT !.key = login.key + 1] /\ login.key + 1 \in 1 .. 3
            BY <1>4, <2>1 DEF SetAuth
        <3> QED  BY <1>1, <3>1 DEF LoginUpTo
    <2>2. CASE login.key = 3 /\ login.pc = "stub"
        <3> DEFINE l == [login EXCEPT !.pc = "me"]
        <3>1. l \in LoginUpTo(issued)
            BY <1>1 DEF LoginUpTo
        <3>2. login' = [l EXCEPT !.key = 1]
            BY <2>2 DEF SetAuth
        <3> HIDE DEF l
        <3> QED  BY <3>1, <3>2 DEF LoginUpTo
    <2>3. CASE login.key = 3 /\ login.pc # "stub"
        BY <1>1, <2>3 DEF SetAuth, NoLogin, LoginUpTo
    <2> QED  BY <2>1, <2>2, <2>3
<1>8. st' \in [Calls -> CallStates] /\ req' \in [Calls -> RequestUpTo(issued)]
    <2>1. CASE Send({MeCall})
        <3>1. disk'.token \in 0 .. issued
            BY <1>5 DEF StoreUpTo
        <3> QED  BY <1>1, <2>1, <3>1, SendTypes
    <2>2. CASE UNCHANGED <<st, req>>
        BY <1>1, <2>2 DEF Types, Traffic
    <2> QED  BY <2>1, <2>2 DEF SetAuth
<1>9. screen' \in {screen, "app"}
    BY DEF SetAuth
<1> HIDE DEF n, user
<1>10. Keys' /\ Flows'
    BY <1>1, <1>2, <1>5, <1>6, <1>7 DEF Types, Keys, Flows
<1>11. Traffic'
    BY <1>1, <1>2, <1>8 DEF Types, Traffic
<1>12. App'
    BY <1>1, <1>2, <1>3, <1>9 DEF Types, App
<1>13. Server'
    BY <1>1, <1>2 DEF Types, Server
<1>14. Out'
    BY <1>3 DEF Out
<1>15. Unspent'
    BY <1>1, <1>2, <1>5 DEF Unspent
<1> QED  BY <1>10, <1>11, <1>12, <1>13, <1>14, <1>15 DEF SessionInv, Types

(* The user asks to be signed out.                                            *)
LEMMA StartLogoutSession == ASSUME SessionInv, StartLogout PROVE SessionInv'
<1>1. Types /\ Out /\ Unspent
    BY DEF SessionInv
<1>2. /\ clearing' = 1 /\ signedOut' = "clearing"
      /\ UNCHANGED <<disk, mem, hydrated, screen, issued, valid, expiredTo, st, req,
                     isRefreshing, failedQueue, refresh, leaving, login, presented>>
    BY DEF StartLogout, serverVars, callVars
<1>3. App'
    BY <1>1, <1>2 DEF Types, App
<1>4. Out'
    BY <1>2 DEF Out
<1>5. Unspent'
    BY <1>1, <1>2 DEF Unspent
<1> QED  BY <1>1, <1>2, <1>3, <1>4, <1>5, Framed DEF SessionInv, Types

(* clearAuth deletes a key, with the last one the store; it then knows the    *)
(* keys it has deleted before to be gone still.                               *)
LEMMA ClearAuthSession == ASSUME SessionInv, ClearAuth PROVE SessionInv'
<1>1. Types /\ Out /\ Unspent /\ issued \in Nat
    BY DEF SessionInv, Types, Server
<1>2. /\ clearing \in 1 .. 3 /\ disk' = Deleted(clearing)
      /\ clearing' = IF clearing = 3 THEN 0 ELSE clearing + 1
      /\ clearing = 3 => mem' = Empty /\ screen' = "auth" /\ signedOut' = Done
      /\ clearing # 3 => UNCHANGED <<mem, screen, signedOut>>
      /\ UNCHANGED <<hydrated, issued, valid, expiredTo, st, req, isRefreshing, failedQueue,
                     refresh, leaving, login, presented>>
    BY DEF ClearAuth, serverVars, callVars
<1>3. /\ disk' \in StoreUpTo(issued)
      /\ disk.token = 0 => disk'.token = 0
      /\ disk.refresh = 0 => disk'.refresh = 0
      /\ disk = Empty => disk' = Empty
      /\ disk'.refresh \in {0, disk.refresh}
    BY <1>1, <1>2, DeletingKeepsOut
<1>4. /\ clearing = 1 => disk'.token = 0
      /\ clearing = 2 => disk'.refresh = 0
      /\ clearing = 3 => disk'.user = "none"
    BY <1>1, <1>2, DeletedKey
<1>5. Keys'
    <2>1. Empty \in StoreUpTo(issued)
        BY <1>1 DEF Empty, StoreUpTo, Users
    <2> QED  BY <1>1, <1>2, <1>3, <2>1 DEF Types, Keys
<1>6. App'
    BY <1>1, <1>2 DEF Types, App, Done
<1>7. Out'
    <2>1. CASE clearing # 3
        BY <1>1, <1>2, <1>3, <1>4, <2>1 DEF Out
    <2>2. CASE clearing = 3 /\ signedOut' = "yes"
        <3>1. signedOut = "clearing" /\ refresh.phase = None /\ login.pc = "idle"
            BY <1>2, <2>2 DEF Done
        <3>2. disk' = Empty
            BY <1>1, <1>3, <1>4, <2>2, <3>1, EmptyKeys DEF Out
        <3> QED  BY <1>2, <2>2, <3>1, <3>2 DEF Out
    <2>3. CASE clearing = 3 /\ signedOut' = "no"
        BY <2>3 DEF Out
    <2> QED  BY <1>2, <2>1, <2>2, <2>3 DEF Done
<1>8. Unspent'
    <2>1. 0 \notin presented
        BY <1>1 DEF Types, Server
    <2> QED  BY <1>1, <1>2, <1>3, <2>1 DEF Unspent
<1> QED  BY <1>1, <1>2, <1>5, <1>6, <1>7, <1>8, Framed DEF SessionInv, Types

(* The app starts up with what is stored.                                     *)
LEMMA HydrateSession == ASSUME SessionInv, Hydrate PROVE SessionInv'
<1>1. Types /\ Out /\ Unspent
    BY DEF SessionInv
<1>2. /\ mem' = disk /\ hydrated' = TRUE
      /\ UNCHANGED <<disk, screen, issued, valid, expiredTo, st, req, isRefreshing,
                     failedQueue, refresh, leaving, login, clearing, presented, signedOut>>
    BY DEF Hydrate, serverVars, callVars, flowVars
<1>3. Keys'
    BY <1>1, <1>2 DEF Types, Keys
<1>4. App'
    BY <1>1, <1>2 DEF Types, App
<1>5. Out'
    BY <1>1, <1>2 DEF Out
<1>6. Unspent'
    BY <1>1, <1>2 DEF Unspent
<1> QED  BY <1>1, <1>2, <1>3, <1>4, <1>5, <1>6, Framed DEF SessionInv, Types

(* The app is killed: what was under way is gone, what is stored stays.       *)
LEMMA CrashSession == ASSUME SessionInv, Crash PROVE SessionInv'
<1>1. Types /\ Out /\ Unspent /\ issued \in Nat
    BY DEF SessionInv, Types, Server
<1>2. /\ valid' \subseteq valid /\ mem' = Empty /\ hydrated' = FALSE /\ screen' = "app"
      /\ st' = [c \in Calls |-> "idle"] /\ req' = [c \in Calls |-> NewRequest]
      /\ isRefreshing' = FALSE /\ failedQueue' = {} /\ refresh' = NoRefresh
      /\ leaving' = 0 /\ login' = NoLogin /\ clearing' = 0 /\ presented' = {}
      /\ UNCHANGED <<disk, issued, expiredTo>>
    BY DEF Crash
<1>3. signedOut' \in {"no", "yes"} /\ (signedOut' = "yes" => signedOut = "yes")
    BY <1>1 DEF Crash, Disturb, Types, App
<1>4. Keys'
    <2>1. Empty \in StoreUpTo(issued)
        BY <1>1 DEF Empty, StoreUpTo, Users
    <2> QED  BY <1>1, <1>2, <2>1 DEF Types, Keys
<1>5. App'
    <2>1. 0 \in 0 .. 4 /\ 0 \in 0 .. 3
        OBVIOUS
    <2> QED  BY <1>2, <1>3, <2>1, Zenon DEF App
<1>6. Server'
    BY <1>1, <1>2 DEF Types, Server
<1>7. Traffic'
    BY <1>1, <1>2, NewRequestTypes DEF Traffic, CallStates
<1>8. Flows'
    <2>1. NoRefresh \in RefreshUpTo(issued) /\ NoLogin \in LoginUpTo(issued)
        BY <1>1 DEF NoRefresh, NoLogin, RefreshUpTo, LoginUpTo
    <2> QED  BY <1>2, <2>1 DEF Flows
<1>9. Out'
    BY <1>1, <1>2, <1>3 DEF Out, NoRefresh, NoLogin
<1>10. Unspent'
    <2>1. refresh'.phase = None /\ presented' = {}
        BY <1>2 DEF NoRefresh
    <2> QED  BY <2>1 DEF Unspent, None
<1> QED  BY <1>4, <1>5, <1>6, <1>7, <1>8, <1>9, <1>10 DEF SessionInv, Types

(* Every step preserves the invariant.                                        *)
LEMMA NextSession == SessionInv /\ [Next]_vars => SessionInv'
<1> SUFFICES ASSUME SessionInv, [Next]_vars PROVE SessionInv'
    OBVIOUS
<1>1. ASSUME NEW r \in Requests, Issue(r) PROVE SessionInv'
    BY <1>1, IssueSession
<1>2. ASSUME NEW c \in Calls, Answered(c) PROVE SessionInv'
    BY <1>2, SucceedsSession, FailsSession, UnauthorizedSession DEF Answered
<1>3. CASE Refreshing \/ RefreshCommit \/ RefreshAnswered
    BY <1>3, ReadRefreshTokenSession, StoreAccessSession, StoreRefreshSession,
       RefreshFailsSession, RefreshCommitSession DEF Refreshing, RefreshAnswered
<1>4. CASE LeaveStep \/ LeaveTimer \/ AuthGate \/ AccessExpires
    BY <1>4, LeaveStepSession, QuietSession
<1>5. CASE StartLogin \/ LoginSettled \/ SetAuth
    BY <1>5, StartLoginSession, LoginSettledSession, SetAuthSession
<1>6. CASE StartLogout \/ ClearAuth \/ Hydrate \/ Crash
    BY <1>6, StartLogoutSession, ClearAuthSession, HydrateSession, CrashSession
<1>7. CASE UNCHANGED vars
    <2>1. Types /\ Out /\ Unspent
        BY DEF SessionInv
    <2> QED  BY <1>7, <2>1, Framed, NotTheirs
             DEF SessionInv, Types, vars, serverVars, callVars, flowVars
<1> QED  BY <1>1, <1>2, <1>3, <1>4, <1>5, <1>6, <1>7 DEF Next

--------------------------------------------------------------------------------
(* The session's promises.                                                    *)

(* Every token pair around was issued, and every variable has its type.       *)
THEOREM SessionTypes == Spec => []TypeOK
<1>1. SessionInv => TypeOK
    <2> SUFFICES ASSUME SessionInv PROVE TypeOK
        OBVIOUS
    <2>1. Keys /\ App /\ Server /\ Traffic /\ Flows
        BY DEF SessionInv, Types
    <2>2. disk \in Store /\ mem \in Store
        BY <2>1 DEF Keys, Server, StoreUpTo, Store
    <2>3. \A c \in Calls : req[c].carried \in 0 .. issued /\ req[c].pair \in 0 .. issued
        BY <2>1 DEF Traffic, RequestUpTo
    <2>4. /\ refresh.phase \in {None, "reading", "posting", "rotated", "stored", "refused"}
          /\ refresh.token \in 0 .. issued /\ refresh.pair \in 0 .. issued
          /\ login.pc \in {"idle", "login", "stub", "me", "user"} /\ login.key \in 1 .. 3
        BY <2>1 DEF Flows, RefreshUpTo, LoginUpTo
    <2> QED  BY <2>1, <2>2, <2>3, <2>4, Zenon DEF App, Server, Traffic, CallStates, TypeOK
<1> QED  BY <1>1, InitSession, NextSession, PTL DEF Spec

(* For any number of calls and pairs: once clearAuth has run undisturbed,     *)
(* neither a call still out nor logout() of the interceptor nor a restart     *)
(* brings a token back before the next login.                                 *)
THEOREM SignOutHolds == Spec => []SignedOutStaysOut
<1>1. SessionInv => SignedOutStaysOut
    BY DEF SessionInv, Out, SignedOutStaysOut
<1> QED  BY <1>1, InitSession, NextSession, PTL DEF Spec

(* Only the read of the stored token starts a post, and what it reads was not *)
(* presented before.                                                          *)
LEMMA PostIsFresh ==
    ASSUME SessionInv, [Next]_vars, refresh'.phase = "posting", refresh.phase # "posting"
    PROVE  refresh'.token \notin presented
<1> DEFINE Goal == refresh'.token \notin presented
<1>1. CASE ReadRefreshToken
    <2>1. disk.refresh # 0
        BY <1>1 DEF ReadRefreshToken, LogoutAndReject, NoRefresh, None
    <2>2. refresh' = [refresh EXCEPT !.phase = "posting", !.token = disk.refresh]
        BY <1>1, <2>1 DEF ReadRefreshToken
    <2>3. refresh'.token = disk.refresh
        BY <2>2 DEF SessionInv, Types, Flows, RefreshUpTo
    <2>4. refresh.phase = "reading"
        BY <1>1 DEF ReadRefreshToken
    <2> QED  BY <2>3, <2>4 DEF SessionInv, Unspent
<1>2. CASE UNCHANGED refresh
    BY <1>2
<1>3. ASSUME NEW r \in Requests, Issue(r) PROVE Goal
    BY <1>2, <1>3 DEF Issue
<1>4. ASSUME NEW c \in Calls, Answered(c) PROVE Goal
    <2>1. UNCHANGED refresh \/ refresh'.phase = "reading"
        BY <1>4 DEF Answered, Succeeds, Fails, Unauthorized, NoRefresh
    <2> QED  BY <1>2, <2>1
<1>5. CASE RefreshCommit
    BY <1>5 DEF RefreshCommit
<1>6. CASE StoreAccess
    <2>1. refresh'.phase = "stored"
        BY <1>6 DEF StoreAccess, SessionInv, Types, Flows, RefreshUpTo
    <2> QED  BY <2>1
<1>7. CASE StoreRefresh \/ RefreshFails \/ Crash
    <2>1. refresh' = NoRefresh
        BY <1>7 DEF StoreRefresh, RefreshFails, LogoutAndReject, Crash
    <2> QED  BY <2>1 DEF NoRefresh, None
<1>8. CASE LeaveStep \/ LeaveTimer \/ StartLogin \/ LoginSettled \/ SetAuth
    BY <1>2, <1>8, Zenon DEF LeaveStep, LeaveTimer, StartLogin, LoginSettled, SetAuth, callVars
<1>9. CASE StartLogout \/ ClearAuth \/ AuthGate \/ Hydrate \/ AccessExpires \/ UNCHANGED vars
    BY <1>2, <1>9 DEF StartLogout, ClearAuth, AuthGate, Hydrate, AccessExpires, vars, callVars
<1> QED  BY <1>1, <1>3, <1>4, <1>5, <1>6, <1>7, <1>8, <1>9 DEF Next, Refreshing, RefreshAnswered

(* For any number of calls and pairs, the interceptor presents a refresh      *)
(* token again only after the refresh that presented it failed, the app was   *)
(* killed, or the login screen stored it anew: the server revokes the whole   *)
(* family of a token that is used twice.                                      *)
THEOREM PresentsFreshTokens == Spec => FreshTokenPerRefresh
<1>1. SessionInv /\ [Next]_vars
          => [(refresh'.phase = "posting" /\ refresh.phase # "posting")
                 => refresh'.token \notin presented]_vars
    BY PostIsFresh
<1> QED  BY <1>1, InitSession, NextSession, PTL DEF Spec, FreshTokenPerRefresh
================================================================================
