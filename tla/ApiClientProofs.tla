---------------------------- MODULE ApiClientProofs ----------------------------
(* The refresh queue of ApiClient, proved for any number of tabs, calls and   *)
(* token pairs: TLC checks one tab.                                           *)
EXTENDS ApiClient, TLAPS

(* What the proof needs of the types: the pairs named anywhere were issued.   *)
Phases == {"none", "sent", "read", "rotated", "refused"}
RefreshRecord == [phase : Phases, owner : Calls \union {None}, token : 0..issued,
                  revoked : BOOLEAN, pair : 0..issued]

Shape ==
    /\ family \in Seq(Nat)
    /\ jar \in 0..issued
    /\ st \in [Calls -> States]
    /\ refresh \in [Tabs -> RefreshRecord]
    /\ isRefreshing \in [Tabs -> BOOLEAN]
    /\ failedQueue \in [Tabs -> SUBSET Calls]
    /\ resolvePrompt = [t \in Tabs |-> resolvePrompt[t]]

(* The call a prompt resolves is one of its tab, waiting in it: fulfillPrompt *)
(* never touches a call that waits for a refresh.                             *)
PromptInv ==
    \A t \in Tabs : resolvePrompt[t] # None =>
        /\ resolvePrompt[t] \in Calls /\ TabOf[resolvePrompt[t]] = t
        /\ st[resolvePrompt[t]] = "prompted"

(* RefreshHasOwner of one tab, call by call.                                  *)
TabInv(t) ==
    /\ isRefreshing[t] <=> refresh[t].phase # "none"
    /\ isRefreshing[t] => refresh[t].owner \in Calls /\ TabOf[refresh[t].owner] = t
    /\ \A c \in Calls : TabOf[c] = t =>
          (st[c] = "refreshing" <=> isRefreshing[t] /\ refresh[t].owner = c)
    /\ \A c \in Calls : c \in failedQueue[t] <=> TabOf[c] = t /\ st[c] = "queued"
    /\ \A c \in failedQueue[t] : isRefreshing[t]

RefreshInv == Shape /\ PromptInv /\ \A t \in Tabs : TabInv(t)

(* The inductive invariant implies the property (lib/api.ts, refresh branch). *)
LEMMA InvImpliesOwner == RefreshInv => RefreshHasOwner
<1> SUFFICES ASSUME RefreshInv, NEW t \in Tabs
             PROVE  /\ isRefreshing[t] <=> refresh[t].phase # "none"
                    /\ isRefreshing[t] => /\ refresh[t].owner \in Calls
                                          /\ TabOf[refresh[t].owner] = t
                    /\ {c \in Calls : TabOf[c] = t /\ st[c] = "refreshing"}
                          = IF isRefreshing[t] THEN {refresh[t].owner} ELSE {}
                    /\ failedQueue[t] = {c \in Calls : TabOf[c] = t /\ st[c] = "queued"}
                    /\ failedQueue[t] # {} => isRefreshing[t]
    BY DEF RefreshHasOwner
<1> USE DEF RefreshInv, TabInv, Shape
<1>1. failedQueue[t] \subseteq Calls
    OBVIOUS
<1>2. failedQueue[t] = {c \in Calls : TabOf[c] = t /\ st[c] = "queued"}
    BY <1>1
<1>3. failedQueue[t] # {} => isRefreshing[t]
    OBVIOUS
<1>4. {c \in Calls : TabOf[c] = t /\ st[c] = "refreshing"}
         = IF isRefreshing[t] THEN {refresh[t].owner} ELSE {}
    <2>1. CASE isRefreshing[t]
        BY <2>1
    <2>2. CASE ~isRefreshing[t]
        BY <2>2
    <2> QED  BY <2>1, <2>2
<1> QED  BY <1>2, <1>3, <1>4

--------------------------------------------------------------------------------
Waiting == {"queued", "refreshing"}

(* A step that leaves flag, queue and refresh's owner alone, and moves no     *)
(* call into or out of the wait for a refresh, preserves the tabs' invariant. *)
LEMMA OthersKeepTabs ==
    ASSUME \A t \in Tabs : TabInv(t),
           UNCHANGED <<isRefreshing, failedQueue>>,
           \A t \in Tabs : /\ refresh'[t].owner = refresh[t].owner
                           /\ refresh'[t].phase # "none" <=> refresh[t].phase # "none",
           \A c \in Calls : st'[c] = st[c] \/ (st[c] \notin Waiting /\ st'[c] \notin Waiting)
    PROVE  \A t \in Tabs : TabInv(t)'
<1> SUFFICES ASSUME NEW t \in Tabs PROVE TabInv(t)'
    OBVIOUS
<1> QED  BY DEF TabInv, Waiting

(* The initial states.                                                        *)
LEMMA InitInv == Init => RefreshInv
<1> SUFFICES ASSUME Init PROVE RefreshInv
    OBVIOUS
<1> USE DEF Init
<1>1. Shape
    <2>1. family \in Seq(Nat) /\ issued = 1
        BY DEF issued
    <2>2. NoRefresh \in RefreshRecord
        BY <2>1 DEF NoRefresh, RefreshRecord, Phases
    <2> QED  BY <2>1, <2>2 DEF Shape, States
<1>2. PromptInv
    BY DEF PromptInv
<1>3. \A t \in Tabs : TabInv(t)
    BY DEF TabInv, NoRefresh
<1> QED  BY <1>1, <1>2, <1>3 DEF RefreshInv

--------------------------------------------------------------------------------
(* Steps that do not concern the refresh.                                     *)

(* A step that keeps the refresh's state, and in which no call starts or      *)
(* stops waiting for it, preserves the invariant if the prompts are right.    *)
LEMMA OtherStep ==
    ASSUME RefreshInv,
           UNCHANGED <<family, isRefreshing, failedQueue, refresh>>,
           jar' \in 0..issued,
           st' \in [Calls -> States],
           resolvePrompt' = [t \in Tabs |-> resolvePrompt'[t]],
           PromptInv',
           \A c \in Calls : st'[c] = st[c] \/ (st[c] \notin Waiting /\ st'[c] \notin Waiting)
    PROVE  RefreshInv'
<1>1. issued' = issued /\ RefreshRecord' = RefreshRecord
    BY DEF issued, RefreshRecord
<1>2. Shape'
    BY <1>1 DEF RefreshInv, Shape
<1>3. \A t \in Tabs : TabInv(t)'
    BY OthersKeepTabs DEF RefreshInv
<1> QED  BY <1>2, <1>3 DEF RefreshInv

(* Steps that touch neither calls nor prompts.                                *)
LEMMA NoCallMoves ==
    ASSUME RefreshInv, jar' \in 0..issued,
           UNCHANGED <<family, isRefreshing, failedQueue, refresh, st, resolvePrompt>>
    PROVE  RefreshInv'
<1>1. PromptInv'
    BY DEF RefreshInv, PromptInv
<1> QED  BY <1>1, OtherStep DEF RefreshInv, Shape

(* Steps of one call c that is not waiting, which leave the prompts alone.    *)
LEMMA OneCallMoves ==
    ASSUME RefreshInv, jar' = jar,
           UNCHANGED <<family, isRefreshing, failedQueue, refresh, resolvePrompt>>,
           NEW c \in Calls, st[c] \notin Waiting \union {"prompted"},
           NEW where \in States \ Waiting, st' = [st EXCEPT ![c] = where]
    PROVE  RefreshInv'
<1>1. st' \in [Calls -> States]
    BY DEF RefreshInv, Shape
<1>2. PromptInv'
    BY DEF RefreshInv, Shape, PromptInv
<1>3. \A d \in Calls : st'[d] = st[d] \/ (st[d] \notin Waiting /\ st'[d] \notin Waiting)
    BY DEF RefreshInv, Shape
<1> QED  BY <1>1, <1>2, <1>3, OtherStep DEF RefreshInv, Shape

(* A page's new call does not wait for anything yet.                          *)
LEMMA IssueInv == ASSUME RefreshInv, NEW r \in Requests, Issue(r) PROVE RefreshInv'
<1>1. r \in Calls
    BY DEF Calls
<1>2. st' = [st EXCEPT ![r] = "sent"]
    BY <1>1 DEF RefreshInv, Shape, Issue, Send
<1>3. "sent" \in States \ Waiting /\ st[r] \notin Waiting \union {"prompted"}
    BY DEF States, Waiting, Issue
<1> QED  BY <1>1, <1>2, <1>3, OneCallMoves DEF Issue, serverVars, promptVars

(* The server answers calls that were sent, never one that waits.             *)
LEMMA ServerAnswersInv ==
    ASSUME RefreshInv, NEW c \in Calls, ServerAnswers(c) PROVE RefreshInv'
<1>1. "replied" \in States \ Waiting /\ st[c] \notin Waiting \union {"prompted"}
    BY DEF States, Waiting, ServerAnswers
<1> QED  BY <1>1, OneCallMoves DEF ServerAnswers, serverVars, promptVars

(* An answer or error handed to the page settles a call nobody waits on.      *)
LEMMA PassOnInv == ASSUME RefreshInv, NEW c \in Calls, PassOn(c) PROVE RefreshInv'
<1>1. st[c] \notin Waiting \union {"prompted"}
    BY DEF Waiting, PassOn
<1>2. PICK how \in {"ok", "error"} : Settle({c}, how)
    BY DEF PassOn, Reject
<1>3. st' = [st EXCEPT ![c] = how]
    BY <1>2 DEF Settle, RefreshInv, Shape
<1>4. how \in States \ Waiting
    BY DEF States, Waiting
<1>5. resolvePrompt' = resolvePrompt
    BY DEF PassOn, Reject, promptVars
<1> QED  BY <1>1, <1>3, <1>4, <1>5, OneCallMoves DEF PassOn, serverVars

(* The modal's mint is a call like any other.                                 *)
LEMMA SubmitInv == ASSUME RefreshInv, NEW m \in Mints, Submit(m) PROVE RefreshInv'
<1>1. m \in Calls
    BY DEF Calls
<1>2. st' = [st EXCEPT ![m] = "sent"]
    BY <1>1 DEF RefreshInv, Shape, Submit, Send
<1>3. "sent" \in States \ Waiting /\ st[m] \notin Waiting \union {"prompted"}
    BY DEF States, Waiting, Submit
<1> QED  BY <1>1, <1>2, <1>3, OneCallMoves DEF Submit, serverVars

(* The server's read of the token leaves the refresh with its owner.          *)
LEMMA RefreshReadInv == ASSUME RefreshInv, NEW t \in Tabs, RefreshRead(t) PROVE RefreshInv'
<1> USE DEF RefreshInv
<1>1. Shape'
    <2>1. issued' = issued /\ refresh[t] \in RefreshRecord
        BY DEF Shape, RefreshRead, serverVars, issued
    <2>2. [refresh[t] EXCEPT !.phase = "read", !.revoked = refresh[t].token \notin valid]
             \in RefreshRecord
        BY <2>1 DEF RefreshRecord, Phases
    <2>3. refresh' \in [Tabs -> RefreshRecord]
        BY <2>2 DEF Shape, RefreshRead
    <2>4. RefreshRecord' = RefreshRecord
        BY <2>1 DEF RefreshRecord
    <2> QED  BY <2>1, <2>3, <2>4 DEF Shape, RefreshRead, serverVars, promptVars
<1>2. PromptInv'
    BY DEF PromptInv, RefreshRead, promptVars
<1>3. \A u \in Tabs : /\ refresh'[u].owner = refresh[u].owner
                       /\ refresh'[u].phase # "none" <=> refresh[u].phase # "none"
    BY DEF Shape, RefreshRead, RefreshRecord
<1>4. \A u \in Tabs : TabInv(u)'
    BY <1>1, <1>3, OthersKeepTabs DEF Shape, RefreshRead
<1> QED  BY <1>1, <1>2, <1>4

(* A step-up 401 is replayed or opens the prompt; it never joins the queue.   *)
LEMMA StepUpInv == ASSUME RefreshInv, NEW c \in Calls, StepUp(c) PROVE RefreshInv'
<1> DEFINE t == TabOf[c]
<1>1. t \in Tabs /\ st[c] = "replied" /\ st \in [Calls -> States]
    BY CallsAssumption DEF StepUp, RefreshInv, Shape
<1>2. CASE ActionOf[c] \in tokens[t]
    <2>1. "sent" \in States \ Waiting /\ st[c] \notin Waiting \union {"prompted"}
        BY <1>1 DEF States, Waiting
    <2> QED  BY <1>2, <2>1, OneCallMoves DEF StepUp, serverVars, promptVars
<1>3. CASE ActionOf[c] \notin tokens[t]
    <2>1. /\ st' = [st EXCEPT ![c] = "prompted"]
          /\ resolvePrompt' = [resolvePrompt EXCEPT ![t] = c]
        BY <1>3 DEF StepUp
    <2>2. st' \in [Calls -> States]
        BY <1>1, <2>1 DEF States
    <2>3. resolvePrompt' = [u \in Tabs |-> resolvePrompt'[u]]
        BY <1>1, <2>1 DEF RefreshInv, Shape
    <2>4. \A d \in Calls : st'[d] = IF d = c THEN "prompted" ELSE st[d]
        BY <1>1, <2>1
    <2>5. \A u \in Tabs : resolvePrompt'[u] = IF u = t THEN c ELSE resolvePrompt[u]
        BY <1>1, <2>1 DEF RefreshInv, Shape
    <2>6. PromptInv'
        BY <2>4, <2>5 DEF RefreshInv, PromptInv
    <2>7. \A d \in Calls : st'[d] = st[d] \/ (st[d] \notin Waiting /\ st'[d] \notin Waiting)
        BY <1>1, <2>4 DEF Waiting
    <2> QED
        BY <2>2, <2>3, <2>6, <2>7, OtherStep DEF StepUp, serverVars, RefreshInv, Shape
<1> QED  BY <1>2, <1>3

(* The prompt of tab t closes and what waited in it moves on.                 *)
LEMMA PromptCloses ==
    ASSUME RefreshInv, NEW t \in Tabs, ClosePrompt(t), jar' = jar,
           UNCHANGED <<family, isRefreshing, failedQueue, refresh>>,
           st' \in [Calls -> States],
           \A c \in Calls : \/ st'[c] = st[c]
                            \/ /\ c \in Resolved(t) \/ st[c] = "replied"
                               /\ st'[c] \notin Waiting
    PROVE  RefreshInv'
<1>1. \A u \in Tabs : resolvePrompt'[u] = IF u = t THEN None ELSE resolvePrompt[u]
    BY DEF RefreshInv, Shape, ClosePrompt
<1>2. resolvePrompt' = [u \in Tabs |-> resolvePrompt'[u]]
    BY DEF RefreshInv, Shape, ClosePrompt
<1>3. \A c \in Resolved(t) : c \in Calls /\ st[c] = "prompted"
    BY DEF RefreshInv, PromptInv, Resolved
<1>4. PromptInv'
    <2> SUFFICES ASSUME NEW u \in Tabs, resolvePrompt'[u] # None
                 PROVE  /\ resolvePrompt'[u] \in Calls /\ TabOf[resolvePrompt'[u]] = u
                        /\ st'[resolvePrompt'[u]] = "prompted"
        BY DEF PromptInv
    <2> DEFINE c == resolvePrompt[u]
    <2>1. u # t /\ resolvePrompt'[u] = c /\ c # None
        BY <1>1
    <2>2. c \in Calls /\ TabOf[c] = u /\ st[c] = "prompted"
        BY <2>1 DEF RefreshInv, PromptInv
    <2>3. c \notin Resolved(t)
        BY <2>1, <2>2 DEF Resolved, RefreshInv, PromptInv
    <2> QED  BY <2>1, <2>2, <2>3
<1>5. \A c \in Calls : st'[c] = st[c] \/ (st[c] \notin Waiting /\ st'[c] \notin Waiting)
    BY <1>3 DEF Waiting
<1> QED  BY <1>2, <1>4, <1>5, OtherStep DEF RefreshInv, Shape

(* fulfillPrompt retries the call its prompt resolves, and no queued one.     *)
LEMMA MintedInv == ASSUME RefreshInv, NEW m \in Mints, Minted(m) PROVE RefreshInv'
<1> DEFINE t == TabOf[m]
<1>1. m \in Calls /\ t \in Tabs /\ st[m] = "replied" /\ ClosePrompt(t)
    BY CallsAssumption DEF Calls, Minted
<1>2. st' = [c \in Calls |-> IF c = m THEN "ok"
                             ELSE IF c \in Resolved(t) THEN "sent" ELSE st[c]]
    BY DEF Minted
<1>3. st' \in [Calls -> States]
    BY <1>2 DEF RefreshInv, Shape, States
<1>4. \A c \in Calls : \/ st'[c] = st[c]
                       \/ /\ c \in Resolved(t) \/ st[c] = "replied"
                          /\ st'[c] \notin Waiting
    BY <1>1, <1>2 DEF Waiting
<1>5. jar' = jar /\ UNCHANGED <<family, isRefreshing, failedQueue, refresh>>
    BY DEF Minted, serverVars
<1> HIDE DEF t
<1> QED  BY <1>1, <1>3, <1>4, <1>5, PromptCloses

(* fulfillPrompt(null) rejects the call its prompt resolves, no queued one.   *)
LEMMA CancelInv == ASSUME RefreshInv, NEW t \in Tabs, Cancel(t) PROVE RefreshInv'
<1>1. st' = [c \in Calls |-> IF c \in Resolved(t) THEN "error" ELSE st[c]]
    BY DEF Cancel, Settle
<1>2. st' \in [Calls -> States]
    BY <1>1 DEF RefreshInv, Shape, States
<1>3. \A c \in Calls : \/ st'[c] = st[c]
                       \/ /\ c \in Resolved(t) \/ st[c] = "replied"
                          /\ st'[c] \notin Waiting
    BY <1>1 DEF Waiting
<1>4. ClosePrompt(t) /\ jar' = jar /\ UNCHANGED <<family, isRefreshing, failedQueue, refresh>>
    BY DEF Cancel, serverVars
<1> QED  BY <1>2, <1>3, <1>4, PromptCloses

(* Sign-out, and what time takes away, touch cookies and server rows only.    *)
LEMMA QuietSteps ==
    ASSUME RefreshInv,
           \/ \E t \in Tabs : Logout(t) \/ \E a \in Actions : StepUpExpires(t, a)
           \/ \E l \in logouts : LogoutCommit(l) \/ LogoutEnds(l)
           \/ AccessExpires
           \/ UNCHANGED vars
    PROVE  RefreshInv'
<1>1. jar' = jar \/ jar' = 0
    BY DEF Logout, StepUpExpires, LogoutCommit, LogoutEnds, AccessExpires, vars
<1>2. UNCHANGED <<family, isRefreshing, failedQueue, refresh, st, resolvePrompt>>
    BY DEF Logout, StepUpExpires, LogoutCommit, LogoutEnds, AccessExpires, vars,
           serverVars, promptVars
<1>3. jar' \in 0..issued
    <2>1. issued \in Nat
        BY DEF RefreshInv, Shape, issued
    <2> QED  BY <1>1, <2>1 DEF RefreshInv, Shape
<1> QED  BY <1>2, <1>3, NoCallMoves

--------------------------------------------------------------------------------
(* The server issues a pair: what was typed by the pairs issued before is     *)
(* typed by those issued after.                                               *)
LEMMA Grows ==
    ASSUME family \in Seq(Nat), NEW f \in Nat, family' = Append(family, f)
    PROVE  /\ family' \in Seq(Nat)
           /\ issued \in Nat /\ issued' = issued + 1
           /\ RefreshRecord \subseteq RefreshRecord'
<1>1. family' \in Seq(Nat) /\ issued \in Nat /\ issued' = issued + 1
    BY DEF issued
<1>2. 0..issued \subseteq 0..issued'
    BY <1>1
<1>3. RefreshRecord \subseteq RefreshRecord'
    BY <1>2 DEF RefreshRecord
<1> QED  BY <1>1, <1>3

(* A sign-in issues a pair and leaves the refreshes under way alone.          *)
LEMMA LoginInv == ASSUME RefreshInv, NEW t \in Tabs, Login(t) PROVE RefreshInv'
<1>1. issued + 1 \in Nat /\ family \in Seq(Nat)
    BY DEF RefreshInv, Shape, issued
<1>2. /\ family' \in Seq(Nat)
      /\ issued \in Nat /\ issued' = issued + 1
      /\ RefreshRecord \subseteq RefreshRecord'
    BY <1>1, Grows DEF Login
<1>3. jar' \in 0..issued'
    BY <1>2 DEF Login
<1>4. Shape'
    BY <1>2, <1>3 DEF RefreshInv, Shape, Login, promptVars
<1>5. PromptInv'
    BY DEF RefreshInv, PromptInv, Login, promptVars
<1>6. \A u \in Tabs : TabInv(u)'
    BY OthersKeepTabs DEF RefreshInv, Login
<1> QED  BY <1>4, <1>5, <1>6 DEF RefreshInv

(* The server's commit changes the refresh's outcome, not whose it is.        *)
LEMMA RefreshCommitInv ==
    ASSUME RefreshInv, NEW t \in Tabs, RefreshCommit(t) PROVE RefreshInv'
<1> DEFINE n == refresh[t].token
<1>1. /\ family \in Seq(Nat) /\ issued \in Nat
      /\ refresh \in [Tabs -> RefreshRecord] /\ refresh[t] \in RefreshRecord
    BY DEF RefreshInv, Shape, issued
<1>2. /\ refresh' = [refresh EXCEPT ![t] = refresh'[t]]
      /\ refresh'[t] \in RefreshRecord'
      /\ refresh'[t].owner = refresh[t].owner /\ refresh'[t].phase # "none"
      /\ family' \in Seq(Nat) /\ issued' \in {issued, issued + 1}
      /\ RefreshRecord \subseteq RefreshRecord'
    <2>1. CASE refresh' = [refresh EXCEPT ![t].phase = "refused"] /\ UNCHANGED family
        <3>1. issued' = issued /\ RefreshRecord' = RefreshRecord
            BY <2>1 DEF issued, RefreshRecord
        <3> DEFINE r == [refresh[t] EXCEPT !.phase = "refused"]
        <3>2. r \in RefreshRecord /\ r.owner = refresh[t].owner /\ r.phase # "none"
            BY <1>1 DEF RefreshRecord, Phases
        <3>3. refresh' = [refresh EXCEPT ![t] = r] /\ refresh'[t] = r
            BY <1>1, <2>1
        <3> HIDE DEF r
        <3> QED  BY <1>1, <2>1, <3>1, <3>2, <3>3
    <2>2. CASE /\ n # 0 /\ family' = Append(family, family[n])
               /\ refresh' = [refresh EXCEPT ![t].phase = "rotated", ![t].pair = issued + 1]
        <3>1. n \in 1..issued
            BY <1>1, <2>2 DEF RefreshRecord
        <3>2. family[n] \in Nat
            BY <1>1, <3>1 DEF issued
        <3>3. /\ family' \in Seq(Nat)
              /\ issued' = issued + 1
              /\ RefreshRecord \subseteq RefreshRecord'
            BY <1>1, <2>2, <3>2, Grows
        <3> DEFINE r == [refresh[t] EXCEPT !.phase = "rotated", !.pair = issued + 1]
        <3>4. refresh[t] \in RefreshRecord' /\ issued + 1 \in 0..issued'
            BY <1>1, <3>3
        <3>5. r \in RefreshRecord'
            BY <3>4 DEF RefreshRecord, Phases
        <3>6. r.owner = refresh[t].owner /\ r.phase # "none"
            BY <1>1 DEF RefreshRecord
        <3>7. refresh' = [refresh EXCEPT ![t] = r] /\ refresh'[t] = r
            BY <1>1, <2>2
        <3> HIDE DEF r
        <3> QED  BY <1>1, <3>3, <3>5, <3>6, <3>7
    <2> QED  BY <2>1, <2>2 DEF RefreshCommit
<1>3. refresh' \in [Tabs -> RefreshRecord']
    BY <1>1, <1>2
<1>4. jar' \in 0..issued'
    BY <1>1, <1>2 DEF RefreshInv, Shape, RefreshCommit
<1>5. Shape'
    BY <1>2, <1>3, <1>4 DEF RefreshInv, Shape, RefreshCommit, promptVars
<1>6. PromptInv'
    BY DEF RefreshInv, PromptInv, RefreshCommit, promptVars
<1>7. refresh[t].phase # "none"
    BY DEF RefreshCommit
<1>8. \A u \in Tabs : refresh'[u] = IF u = t THEN refresh'[t] ELSE refresh[u]
    BY <1>1, <1>2
<1>9. \A u \in Tabs : /\ refresh'[u].owner = refresh[u].owner
                      /\ refresh'[u].phase # "none" <=> refresh[u].phase # "none"
    BY <1>2, <1>7, <1>8
<1>10. \A u \in Tabs : TabInv(u)'
    BY <1>9, OthersKeepTabs DEF RefreshInv, RefreshCommit
<1> QED  BY <1>5, <1>6, <1>10 DEF RefreshInv

--------------------------------------------------------------------------------
(* The refresh branch itself.                                                 *)

(* A call joins the queue of the refresh under way, or starts one.            *)
LEMMA UnauthorizedInv ==
    ASSUME RefreshInv, NEW c \in Calls, Unauthorized(c) PROVE RefreshInv'
<1> DEFINE t == TabOf[c]
<1>1. /\ t \in Tabs /\ st[c] = "replied" /\ st \in [Calls -> States]
      /\ refresh \in [Tabs -> RefreshRecord]
      /\ isRefreshing \in [Tabs -> BOOLEAN]
      /\ failedQueue \in [Tabs -> SUBSET Calls]
      /\ \A u \in Tabs : TabInv(u)
    BY CallsAssumption DEF Unauthorized, RefreshInv, Shape
<1>2. /\ family \in Seq(Nat) /\ issued' = issued /\ issued \in Nat
      /\ RefreshRecord' = RefreshRecord /\ jar \in 0..issued
      /\ UNCHANGED <<family, jar, resolvePrompt>>
    BY DEF Unauthorized, RefreshInv, Shape, serverVars, promptVars, issued, RefreshRecord
<1>3. CASE isRefreshing[t]
    <2>1. /\ st' = [st EXCEPT ![c] = "queued"]
          /\ failedQueue' = [failedQueue EXCEPT ![t] = failedQueue[t] \union {c}]
          /\ UNCHANGED <<isRefreshing, refresh>>
        BY <1>3 DEF Unauthorized
    <2>2. Shape'
        <3>1. st' \in [Calls -> States]
            BY <1>1, <2>1 DEF States
        <3>2. failedQueue' \in [Tabs -> SUBSET Calls]
            BY <1>1, <2>1
        <3> QED  BY <1>2, <2>1, <3>1, <3>2 DEF RefreshInv, Shape
    <2>3. PromptInv'
        BY <1>1, <1>2, <2>1 DEF RefreshInv, PromptInv
    <2>4. \A d \in Calls : st'[d] = IF d = c THEN "queued" ELSE st[d]
        BY <1>1, <2>1
    <2>5. \A u \in Tabs : failedQueue'[u] =
              IF u = t THEN failedQueue[u] \union {c} ELSE failedQueue[u]
        BY <1>1, <2>1
    <2>6. ASSUME NEW u \in Tabs PROVE TabInv(u)'
        BY <1>1, <1>3, <2>1, <2>4, <2>5 DEF TabInv
    <2> QED  BY <2>2, <2>3, <2>6 DEF RefreshInv
<1>4. CASE ~isRefreshing[t]
    <2> DEFINE r == [NoRefresh EXCEPT !.phase = "sent", !.owner = c, !.token = jar]
    <2>1. /\ st' = [st EXCEPT ![c] = "refreshing"]
          /\ isRefreshing' = [isRefreshing EXCEPT ![t] = TRUE]
          /\ refresh' = [refresh EXCEPT ![t] = r]
          /\ UNCHANGED failedQueue
        BY <1>4 DEF Unauthorized
    <2>2. r \in RefreshRecord /\ r.phase # "none" /\ r.owner = c
        <3>1. NoRefresh \in RefreshRecord
            BY <1>2 DEF NoRefresh, RefreshRecord, Phases
        <3> QED  BY <1>2, <3>1 DEF RefreshRecord, Phases
    <2> HIDE DEF r
    <2>3. Shape'
        <3>1. st' \in [Calls -> States]
            BY <1>1, <2>1 DEF States
        <3>2. refresh' \in [Tabs -> RefreshRecord]
            BY <1>1, <2>1, <2>2
        <3>3. isRefreshing' \in [Tabs -> BOOLEAN]
            BY <1>1, <2>1
        <3> QED  BY <1>2, <2>1, <3>1, <3>2, <3>3 DEF RefreshInv, Shape
    <2>4. PromptInv'
        BY <1>1, <1>2, <2>1 DEF RefreshInv, PromptInv
    <2>5. \A d \in Calls : st'[d] = IF d = c THEN "refreshing" ELSE st[d]
        BY <1>1, <2>1
    <2>6. \A u \in Tabs : /\ refresh'[u] = IF u = t THEN r ELSE refresh[u]
                          /\ isRefreshing'[u] = IF u = t THEN TRUE ELSE isRefreshing[u]
        BY <1>1, <2>1
    <2>7. ASSUME NEW u \in Tabs PROVE TabInv(u)'
        BY <1>1, <1>4, <2>1, <2>2, <2>5, <2>6 DEF TabInv
    <2> QED  BY <2>3, <2>4, <2>7 DEF RefreshInv
<1> QED  BY <1>3, <1>4

(* A tab with nothing under way and nobody waiting is right.                  *)
LEMMA IdleTab ==
    ASSUME NEW u \in Tabs,
           (\A c \in Calls : TabOf[c] = u => st[c] \notin Waiting)',
           (refresh[u].phase = "none" /\ ~isRefreshing[u] /\ failedQueue[u] = {})'
    PROVE  TabInv(u)'
BY DEF TabInv, Waiting

(* A tab no step touches stays right.                                         *)
LEMMA OtherTab ==
    ASSUME NEW u \in Tabs, TabInv(u),
           \A c \in Calls : TabOf[c] = u => st'[c] = st[c],
           refresh'[u] = refresh[u], isRefreshing'[u] = isRefreshing[u],
           failedQueue'[u] = failedQueue[u]
    PROVE  TabInv(u)'
BY DEF TabInv

(* The refresh of tab t ends, either way: the flag goes down, and everyone    *)
(* who waited in t, the owner included, moves to the same next state.         *)
LEMMA RefreshEnds ==
    ASSUME RefreshInv, NEW t \in Tabs, refresh[t].phase # "none",
           NEW where \in States \ Waiting,
           st' = [c \in Calls |-> IF c \in failedQueue[t] \union {refresh[t].owner}
                                  THEN where ELSE st[c]],
           isRefreshing' = [isRefreshing EXCEPT ![t] = FALSE],
           failedQueue' = [failedQueue EXCEPT ![t] = {}],
           refresh' = [refresh EXCEPT ![t] = NoRefresh],
           jar' \in 0..issued,
           UNCHANGED <<family, resolvePrompt>>
    PROVE  RefreshInv'
<1> DEFINE cs == failedQueue[t] \union {refresh[t].owner}
<1>1. /\ st \in [Calls -> States]
      /\ refresh \in [Tabs -> RefreshRecord]
      /\ isRefreshing \in [Tabs -> BOOLEAN]
      /\ failedQueue \in [Tabs -> SUBSET Calls]
      /\ \A u \in Tabs : TabInv(u)
    BY DEF RefreshInv, Shape
<1>2. /\ family \in Seq(Nat) /\ issued' = issued /\ issued \in Nat
      /\ RefreshRecord' = RefreshRecord
    BY DEF RefreshInv, Shape, issued, RefreshRecord
<1>3. isRefreshing[t] /\ refresh[t].owner \in Calls /\ TabOf[refresh[t].owner] = t
    BY <1>1 DEF TabInv
<1>4. \A c \in Calls : c \in cs <=> TabOf[c] = t /\ st[c] \in Waiting
    BY <1>1, <1>3 DEF TabInv, Waiting
<1>5. \A c \in Calls : st'[c] = IF c \in cs THEN where ELSE st[c]
    OBVIOUS
<1> HIDE DEF cs
<1>6. Shape'
    <2>1. st' \in [Calls -> States]
        BY <1>1
    <2>2. NoRefresh \in RefreshRecord
        BY <1>2 DEF NoRefresh, RefreshRecord, Phases
    <2>3. refresh' \in [Tabs -> RefreshRecord]
        BY <1>1, <2>2
    <2>4. isRefreshing' \in [Tabs -> BOOLEAN] /\ failedQueue' \in [Tabs -> SUBSET Calls]
        BY <1>1
    <2> QED  BY <1>2, <2>1, <2>3, <2>4 DEF RefreshInv, Shape
<1>7. PromptInv'
    BY <1>4, <1>5 DEF RefreshInv, PromptInv, Waiting
<1>8. NoRefresh.phase = "none"
    BY DEF NoRefresh
<1>9. \A u \in Tabs : /\ refresh'[u] = IF u = t THEN NoRefresh ELSE refresh[u]
                      /\ isRefreshing'[u] = IF u = t THEN FALSE ELSE isRefreshing[u]
                      /\ failedQueue'[u] = IF u = t THEN {} ELSE failedQueue[u]
    BY <1>1
<1>10. ASSUME NEW u \in Tabs PROVE TabInv(u)'
    <2>1. CASE u = t
        <3>1. \A c \in Calls : TabOf[c] = u => st'[c] \notin Waiting
            BY <1>4, <1>5, <2>1
        <3>2. refresh'[u].phase = "none" /\ ~isRefreshing'[u] /\ failedQueue'[u] = {}
            BY <1>8, <1>9, <2>1
        <3> QED  BY <3>1, <3>2, IdleTab
    <2>2. CASE u # t
        <3>1. \A c \in Calls : TabOf[c] = u => st'[c] = st[c]
            BY <1>4, <1>5, <2>2
        <3>2. /\ refresh'[u] = refresh[u] /\ isRefreshing'[u] = isRefreshing[u]
              /\ failedQueue'[u] = failedQueue[u]
            BY <1>9, <2>2
        <3> QED  BY <1>1, <3>1, <3>2, OtherTab
    <2> QED  BY <2>1, <2>2
<1> QED  BY <1>6, <1>7, <1>10 DEF RefreshInv

(* processQueue(null): everyone who waited is sent again.                     *)
LEMMA RefreshSucceedsInv ==
    ASSUME RefreshInv, NEW t \in Tabs, RefreshSucceeds(t) PROVE RefreshInv'
<1>1. "sent" \in States \ Waiting
    BY DEF States, Waiting
<1>2. jar' \in 0..issued
    BY DEF RefreshSucceeds, RefreshInv, Shape, RefreshRecord
<1> QED  BY <1>1, <1>2, RefreshEnds DEF RefreshSucceeds, Send, serverVars, promptVars

(* processQueue(refreshError): everyone who waited is rejected.               *)
LEMMA RefreshFailsInv ==
    ASSUME RefreshInv, NEW t \in Tabs, RefreshFails(t) PROVE RefreshInv'
<1>1. "error" \in States \ Waiting
    BY DEF States, Waiting
<1>2. jar' \in 0..issued /\ refresh[t].phase # "none"
    BY DEF RefreshFails, RefreshInv, Shape
<1> QED  BY <1>1, <1>2, RefreshEnds DEF RefreshFails, Reject, Settle, serverVars

(* Every step of every tab, and of the server, preserves the invariant.       *)
LEMMA NextInv == RefreshInv /\ [Next]_vars => RefreshInv'
<1> SUFFICES ASSUME RefreshInv, [Next]_vars PROVE RefreshInv'
    OBVIOUS
<1>1. ASSUME NEW r \in Requests, Issue(r) PROVE RefreshInv'
    BY <1>1, IssueInv
<1>2. ASSUME NEW m \in Mints, Submit(m) \/ Minted(m) PROVE RefreshInv'
    BY <1>2, SubmitInv, MintedInv
<1>3. ASSUME NEW c \in Calls, ServerAnswers(c) \/ Interceptor(c) PROVE RefreshInv'
    BY <1>3, ServerAnswersInv, PassOnInv, StepUpInv, UnauthorizedInv DEF Interceptor
<1>4. ASSUME NEW t \in Tabs,
             \/ RefreshRead(t) \/ RefreshCommit(t) \/ RefreshClient(t)
             \/ Cancel(t) \/ Login(t)
      PROVE  RefreshInv'
    BY <1>4, RefreshReadInv, RefreshCommitInv, RefreshSucceedsInv, RefreshFailsInv,
       CancelInv, LoginInv DEF RefreshClient
<1>5. ASSUME \/ \E t \in Tabs : Logout(t) \/ \E a \in Actions : StepUpExpires(t, a)
             \/ \E l \in logouts : LogoutCommit(l) \/ LogoutEnds(l)
             \/ AccessExpires
             \/ UNCHANGED vars
      PROVE  RefreshInv'
    BY <1>5, QuietSteps
<1> QED  BY <1>1, <1>2, <1>3, <1>4, <1>5 DEF Next

(* However many tabs share the cookies and however many calls get a 401 at    *)
(* once, a tab's flag is up exactly while a call of that tab awaits its       *)
(* refresh, and its queue holds exactly the calls parked behind it: no        *)
(* interleaving of 401s, refresh outcomes, prompts and sign-outs leaves a     *)
(* call parked behind nothing (lib/api.ts, response interceptor).             *)
THEOREM RefreshIsShared == Spec => []RefreshHasOwner
<1>1. Init => RefreshInv
    BY InitInv
<1>2. RefreshInv /\ [Next]_vars => RefreshInv'
    BY NextInv
<1>3. RefreshInv => RefreshHasOwner
    BY InvImpliesOwner
<1> QED  BY <1>1, <1>2, <1>3, PTL DEF Spec

--------------------------------------------------------------------------------
(* A tab presents a refresh token once.                                       *)

(* A token a tab has presented is out of the cookies for good, unless the     *)
(* refresh that presents it is still under way; a pair the server has issued  *)
(* to a refresh and the browser has not stored was never in the cookies, and  *)
(* is no other refresh's.                                                     *)
Spent ==
    /\ presented = [t \in Tabs |-> presented[t]]
    /\ \A t \in Tabs : presented[t] \in SUBSET (1..issued)
    /\ \A t \in Tabs : jar \in presented[t] =>
          refresh[t].phase # "none" /\ refresh[t].token = jar
    /\ \A u \in Tabs : refresh[u].phase = "rotated" =>
          /\ refresh[u].pair # 0 /\ refresh[u].pair # jar
          /\ \A t \in Tabs : refresh[u].pair \notin presented[t]
          /\ \A t \in Tabs \ {u} :
                refresh[t].phase = "rotated" => refresh[t].pair # refresh[u].pair

(* Only a 401 starts a refresh: what a step may do to the phase of one.       *)
Starts(t) == refresh'[t].phase = "sent" /\ refresh'[t] # refresh[t]

(* The facts the steps below use.                                             *)
LEMMA Typed ==
    ASSUME RefreshInv
    PROVE  /\ issued \in Nat /\ jar \in 0..issued /\ family \in Seq(Nat)
           /\ refresh \in [Tabs -> RefreshRecord]
           /\ \A t \in Tabs : /\ refresh[t].token \in 0..issued
                              /\ refresh[t].pair \in 0..issued
           /\ \A t \in Tabs : isRefreshing[t] <=> refresh[t].phase # "none"
BY DEF RefreshInv, Shape, RefreshRecord, TabInv, issued

(* A step that leaves the cookies, the pairs and the refreshes alone.         *)
LEMMA SpentQuiet ==
    ASSUME Spent, UNCHANGED <<jar, family, refresh, presented>>
    PROVE  Spent' /\ \A t \in Tabs : ~Starts(t)
BY DEF Spent, Starts, issued

(* A 401: the tab presents the cookie it has, which it never presented, or    *)
(* the call joins the queue.                                                  *)
LEMMA SpentUnauthorized ==
    ASSUME RefreshInv, Spent, NEW c \in Calls, Unauthorized(c)
    PROVE  /\ Spent'
           /\ \A t \in Tabs : Starts(t) => refresh'[t].token \notin presented[t]
<1> DEFINE t == TabOf[c]
<1>1. t \in Tabs /\ UNCHANGED <<jar, family>> /\ issued' = issued
    BY CallsAssumption DEF Unauthorized, serverVars, issued
<1>2. CASE isRefreshing[t]
    <2>1. UNCHANGED <<refresh, presented>>
        BY <1>2 DEF Unauthorized
    <2> QED  BY <1>1, <2>1, SpentQuiet
<1>3. CASE ~isRefreshing[t]
    <2> DEFINE r == [NoRefresh EXCEPT !.phase = "sent", !.owner = c, !.token = jar]
    <2>1. /\ refresh' = [refresh EXCEPT ![t] = r]
          /\ presented' = [presented EXCEPT ![t] = presented[t] \union ({jar} \ {0})]
        BY <1>3 DEF Unauthorized
    <2>2. r.phase = "sent" /\ r.token = jar
        BY DEF NoRefresh
    <2> HIDE DEF r
    <2>3. refresh[t].phase = "none" /\ jar \notin presented[t]
        BY <1>1, <1>3, Typed DEF Spent
    <2>4. \A u \in Tabs : refresh'[u] = IF u = t THEN r ELSE refresh[u]
        BY <1>1, <2>1, Typed
    <2>5. \A u \in Tabs : presented'[u] = presented[u]
                          \/ (u = t /\ presented'[u] = presented[u] \union ({jar} \ {0}))
        BY <1>1, <2>1
    <2>6. \A u \in Tabs : presented'[u] \in SUBSET (1..issued)
        <3>1. {jar} \ {0} \in SUBSET (1..issued)
            BY Typed
        <3> QED  BY <2>5, <3>1 DEF Spent
    <2>7. \A u \in Tabs : jar \in presented'[u] => refresh'[u].phase # "none" /\ refresh'[u].token = jar
        BY <2>2, <2>4, <2>5 DEF Spent
    <2>8. ASSUME NEW u \in Tabs, refresh'[u].phase = "rotated"
          PROVE  /\ refresh'[u].pair # 0 /\ refresh'[u].pair # jar
                 /\ \A v \in Tabs : refresh'[u].pair \notin presented'[v]
                 /\ \A v \in Tabs \ {u} :
                       refresh'[v].phase = "rotated" => refresh'[v].pair # refresh'[u].pair
        <3>1. u # t /\ refresh'[u] = refresh[u]
            BY <2>2, <2>4, <2>8
        <3>2. /\ refresh[u].pair # 0 /\ refresh[u].pair # jar
              /\ \A v \in Tabs : refresh[u].pair \notin presented[v]
              /\ \A v \in Tabs \ {u} :
                    refresh[v].phase = "rotated" => refresh[v].pair # refresh[u].pair
            BY <2>8, <3>1 DEF Spent
        <3> QED  BY <2>2, <2>4, <2>5, <3>1, <3>2
    <2>9. Spent'
        <3>1. presented' = [u \in Tabs |-> presented'[u]]
            BY <2>1 DEF Spent
        <3> QED  BY <1>1, <2>6, <2>7, <2>8, <3>1 DEF Spent
    <2>10. \A u \in Tabs : Starts(u) => refresh'[u].token \notin presented[u]
        BY <2>2, <2>3, <2>4 DEF Starts
    <2> QED  BY <2>9, <2>10
<1> QED  BY <1>2, <1>3

(* The server reads or refuses: the refresh goes on with its token.           *)
LEMMA SpentSamePairs ==
    ASSUME RefreshInv, Spent, NEW t \in Tabs, UNCHANGED <<jar, family, presented>>,
           \A u \in Tabs \ {t} : refresh'[u] = refresh[u],
           refresh'[t].token = refresh[t].token,
           refresh'[t].phase \notin {"none", "sent", "rotated"}
    PROVE  Spent' /\ \A u \in Tabs : ~Starts(u)
<1>1. issued' = issued
    BY DEF issued
<1>2. \A u \in Tabs : /\ refresh'[u].phase = "rotated" => refresh'[u] = refresh[u]
                      /\ refresh'[u].token = refresh[u].token
                      /\ refresh[u].phase # "none" => refresh'[u].phase # "none"
    OBVIOUS
<1>3. Spent'
    BY <1>1, <1>2 DEF Spent
<1> QED  BY <1>3 DEF Starts

(* POST /auth/refresh reads the row of the token.                             *)
LEMMA SpentRead ==
    ASSUME RefreshInv, Spent, NEW t \in Tabs, RefreshRead(t)
    PROVE  Spent' /\ \A u \in Tabs : ~Starts(u)
<1> DEFINE r == [refresh[t] EXCEPT !.phase = "read", !.revoked = refresh[t].token \notin valid]
<1>1. refresh' = [refresh EXCEPT ![t] = r] /\ UNCHANGED <<jar, family, presented>>
    BY Typed DEF RefreshRead, serverVars
<1>2. r.token = refresh[t].token /\ r.phase = "read"
    BY Typed DEF RefreshRecord
<1> HIDE DEF r
<1>3. refresh'[t] = r /\ \A u \in Tabs \ {t} : refresh'[u] = refresh[u]
    BY <1>1, Typed
<1> QED  BY <1>1, <1>2, <1>3, SpentSamePairs

(* It commits: a new pair is one nobody has seen.                             *)
LEMMA SpentCommit ==
    ASSUME RefreshInv, Spent, NEW t \in Tabs, RefreshCommit(t)
    PROVE  Spent' /\ \A u \in Tabs : ~Starts(u)
<1>1. UNCHANGED <<jar, presented>> /\ refresh[t] \in RefreshRecord
    BY Typed DEF RefreshCommit
<1>2. CASE refresh' = [refresh EXCEPT ![t].phase = "refused"] /\ UNCHANGED family
    <2> DEFINE r == [refresh[t] EXCEPT !.phase = "refused"]
    <2>1. refresh' = [refresh EXCEPT ![t] = r]
        BY <1>2, Typed
    <2>2. r.token = refresh[t].token /\ r.phase = "refused"
        BY <1>1 DEF RefreshRecord
    <2> HIDE DEF r
    <2>3. refresh'[t] = r /\ \A u \in Tabs \ {t} : refresh'[u] = refresh[u]
        BY <2>1, Typed
    <2> QED  BY <1>1, <1>2, <2>2, <2>3, SpentSamePairs
<1>3. CASE /\ refresh[t].token # 0 /\ family' = Append(family, family[refresh[t].token])
           /\ refresh' = [refresh EXCEPT ![t].phase = "rotated", ![t].pair = issued + 1]
    <2> DEFINE r == [refresh[t] EXCEPT !.phase = "rotated", !.pair = issued + 1]
    <2>1. refresh' = [refresh EXCEPT ![t] = r]
        BY <1>3, Typed
    <2>2. r.token = refresh[t].token /\ r.phase = "rotated" /\ r.pair = issued + 1
        BY <1>1 DEF RefreshRecord
    <2> HIDE DEF r
    <2>3. \A u \in Tabs : refresh'[u] = IF u = t THEN r ELSE refresh[u]
        BY <2>1, Typed
    <2>4. issued' = issued + 1
        <3>1. refresh[t].token \in 1..issued
            BY <1>3, Typed
        <3>2. family[refresh[t].token] \in Nat
            BY <3>1, Typed DEF issued
        <3> QED  BY <1>3, <3>2, Typed, Grows
    <2>5. /\ issued \in Nat /\ issued + 1 # jar /\ issued + 1 # 0
          /\ \A u \in Tabs : issued + 1 \notin presented[u]
          /\ \A u \in Tabs : issued + 1 # refresh[u].pair
          /\ \A u \in Tabs : presented[u] \in SUBSET (1..(issued + 1))
        <3>1. issued \in Nat /\ issued + 1 # jar /\ issued + 1 # 0
            BY Typed
        <3>2. \A u \in Tabs : issued + 1 # refresh[u].pair
            BY Typed
        <3>3. \A S \in SUBSET (1..issued) :
                 issued + 1 \notin S /\ S \in SUBSET (1..(issued + 1))
            BY <3>1
        <3> QED  BY <3>1, <3>2, <3>3 DEF Spent
    <2>6. \A u \in Tabs : jar \in presented[u] =>
              refresh'[u].phase # "none" /\ refresh'[u].token = jar
        BY <2>2, <2>3 DEF Spent
    <2>7. \A u \in Tabs : refresh'[u].phase = "rotated" =>
              /\ refresh'[u].pair # 0 /\ refresh'[u].pair # jar
              /\ \A v \in Tabs : refresh'[u].pair \notin presented[v]
              /\ \A v \in Tabs \ {u} :
                    refresh'[v].phase = "rotated" => refresh'[v].pair # refresh'[u].pair
        BY <2>2, <2>3, <2>5 DEF Spent
    <2>8. Spent'
        BY <1>1, <2>4, <2>5, <2>6, <2>7 DEF Spent
    <2> QED  BY <2>2, <2>3, <2>8 DEF Starts
<1> QED  BY <1>2, <1>3 DEF RefreshCommit

(* The browser stores the pair: what the tab presented is gone for good.      *)
LEMMA SpentSucceeds ==
    ASSUME RefreshInv, Spent, NEW t \in Tabs, RefreshSucceeds(t)
    PROVE  Spent' /\ \A u \in Tabs : ~Starts(u)
<1>1. /\ refresh[t].phase = "rotated" /\ jar' = refresh[t].pair
      /\ refresh' = [refresh EXCEPT ![t] = NoRefresh]
      /\ UNCHANGED <<family, presented>> /\ issued' = issued
    BY DEF RefreshSucceeds, serverVars, issued
<1>2. \A u \in Tabs : refresh'[u] = IF u = t THEN NoRefresh ELSE refresh[u]
    BY <1>1, Typed
<1>3. NoRefresh.phase = "none"
    BY DEF NoRefresh
<1>4. Spent'
    BY <1>1, <1>2, <1>3 DEF Spent
<1> QED  BY <1>2, <1>3, <1>4 DEF Starts

(* A failed refresh gives its token back.                                     *)
LEMMA SpentFails ==
    ASSUME RefreshInv, Spent, NEW t \in Tabs, RefreshFails(t)
    PROVE  Spent' /\ \A u \in Tabs : ~Starts(u)
<1>1. /\ refresh' = [refresh EXCEPT ![t] = NoRefresh]
      /\ presented' = [presented EXCEPT ![t] = presented[t] \ {refresh[t].token}]
      /\ UNCHANGED <<jar, family>> /\ issued' = issued
    BY DEF RefreshFails, serverVars, issued
<1>2. \A u \in Tabs : refresh'[u] = IF u = t THEN NoRefresh ELSE refresh[u]
    BY <1>1, Typed
<1>3. NoRefresh.phase = "none"
    BY DEF NoRefresh
<1>4. \A u \in Tabs : \/ u # t /\ presented'[u] = presented[u]
                      \/ u = t /\ presented'[u] = presented[u] \ {refresh[t].token}
    BY <1>1 DEF Spent
<1>5. Spent'
    <2>1. presented' = [u \in Tabs |-> presented'[u]]
        BY <1>1 DEF Spent
    <2> QED  BY <1>1, <1>2, <1>3, <1>4, <2>1 DEF Spent
<1> QED  BY <1>2, <1>3, <1>5 DEF Starts

(* A sign-in brings a pair nobody has seen, a sign-out clears the cookies.    *)
LEMMA SpentCookies ==
    ASSUME RefreshInv, Spent,
           (\E t \in Tabs : Login(t)) \/ (\E l \in logouts : LogoutEnds(l))
    PROVE  Spent' /\ \A u \in Tabs : ~Starts(u)
<1>1. UNCHANGED <<refresh, presented>>
    BY DEF Login, LogoutEnds
<1>2. CASE \E t \in Tabs : Login(t)
    <2>1. jar' = issued + 1 /\ family' = Append(family, issued + 1)
        BY <1>2 DEF Login
    <2>2. issued \in Nat /\ issued' = issued + 1
        BY <2>1, Typed, Grows
    <2>3. \A S \in SUBSET (1..issued) :
             issued + 1 \notin S /\ S \in SUBSET (1..(issued + 1))
        BY <2>2
    <2>4. \A u \in Tabs : issued + 1 # refresh[u].pair
        BY Typed
    <2>5. Spent'
        BY <1>1, <2>1, <2>2, <2>3, <2>4 DEF Spent
    <2> QED  BY <1>1, <2>5 DEF Starts
<1>3. CASE \E l \in logouts : LogoutEnds(l)
    <2>1. UNCHANGED family /\ jar' \in {jar, 0} /\ issued' = issued
        BY <1>3 DEF LogoutEnds, serverVars, issued
    <2>2. \A u \in Tabs : 0 \notin presented[u]
        <3>1. 0 \notin 1..issued
            BY Typed
        <3> QED  BY <3>1 DEF Spent
    <2>3. Spent'
        BY <1>1, <2>1, <2>2 DEF Spent
    <2> QED  BY <1>1, <2>3 DEF Starts
<1> QED  BY <1>2, <1>3

(* Every step keeps the tokens spent, and starts a refresh only with a fresh  *)
(* one.                                                                       *)
LEMMA SpentNext ==
    ASSUME RefreshInv, Spent, [Next]_vars
    PROVE  /\ Spent'
           /\ \A t \in Tabs : Starts(t) => refresh'[t].token \notin presented[t]
<1>1. ASSUME UNCHANGED <<jar, family, refresh, presented>>
      PROVE  /\ Spent'
             /\ \A t \in Tabs : Starts(t) => refresh'[t].token \notin presented[t]
    BY <1>1, SpentQuiet
<1>2. CASE \E r \in Requests : Issue(r)
    BY <1>1, <1>2 DEF Issue, serverVars
<1>3. CASE \E m \in Mints : Submit(m) \/ Minted(m)
    BY <1>1, <1>3 DEF Submit, Minted, serverVars
<1>4. CASE \E c \in Calls : ServerAnswers(c) \/ PassOn(c) \/ StepUp(c)
    BY <1>1, <1>4 DEF ServerAnswers, PassOn, StepUp, serverVars
<1>5. CASE \E c \in Calls : Unauthorized(c)
    BY <1>5, SpentUnauthorized
<1>6. CASE \E t \in Tabs : RefreshRead(t) \/ RefreshCommit(t) \/ RefreshClient(t)
    BY <1>6, SpentRead, SpentCommit, SpentSucceeds, SpentFails DEF RefreshClient
<1>7. CASE \E t \in Tabs : Cancel(t) \/ Logout(t) \/ \E a \in Actions : StepUpExpires(t, a)
    BY <1>1, <1>7 DEF Cancel, Logout, StepUpExpires, serverVars
<1>8. CASE (\E t \in Tabs : Login(t)) \/ (\E l \in logouts : LogoutEnds(l))
    BY <1>8, SpentCookies
<1>9. CASE (\E l \in logouts : LogoutCommit(l)) \/ AccessExpires \/ UNCHANGED vars
    BY <1>1, <1>9 DEF LogoutCommit, AccessExpires, vars, serverVars
<1> QED
    BY <1>2, <1>3, <1>4, <1>5, <1>6, <1>7, <1>8, <1>9 DEF Next, Interceptor

(* At first nothing has been presented.                                       *)
LEMMA InitSpent == Init => Spent
BY DEF Init, Spent, NoRefresh

(* For any number of tabs on the same cookies, any number of calls and any    *)
(* order in which refresh answers come back: a tab presents a refresh token   *)
(* again only after the earlier attempt ended in the catch branch.  A token   *)
(* revoked by an attempt whose answer was lost, by a logout or by another tab *)
(* may still be presented.                                                    *)
THEOREM TokenPresentedOnce == Spec => FreshTokenPerRefresh
<1>1. Init => RefreshInv /\ Spent
    BY InitInv, InitSpent
<1>2. RefreshInv /\ Spent /\ [Next]_vars => (RefreshInv /\ Spent)'
    BY NextInv, SpentNext
<1>3. RefreshInv /\ Spent /\ [Next]_vars =>
         [\A t \in Tabs : (refresh'[t].phase = "sent" /\ refresh'[t] # refresh[t])
             => refresh'[t].token \notin presented[t]]_vars
    BY SpentNext DEF Starts
<1> QED  BY <1>1, <1>2, <1>3, PTL DEF Spec, FreshTokenPerRefresh

--------------------------------------------------------------------------------
(* Types.  TypeOK is not inductive: the type of scope and of the prompt rests *)
(* on which calls the server can answer with step_up_required, and on a mint  *)
(* having been submitted for an action.                                       *)

ServerTypes == issued <= MaxPairs /\ valid \subseteq Pairs /\ expiredTo \in 0..MaxPairs

SignTypes ==
    /\ logouts \subseteq [token : 0..MaxPairs, done : BOOLEAN]
    /\ user \in [Tabs -> BOOLEAN]

PromptTypes ==
    /\ tokens \in [Tabs -> SUBSET Actions]
    /\ pendingAction \in [Tabs -> Actions \union {None}]
    /\ submitting \in [Tabs -> BOOLEAN]
    /\ scope \in [Mints -> Actions \union {None}]

(* Only a request of a gated endpoint is asked for a step-up.                 *)
CallTypes ==
    /\ req \in [Calls -> Request]
    /\ \A c \in Calls : req[c].reply = "stepup" => c \in Requests /\ ActionOf[c] # None

(* A mint that was sent has its action.                                       *)
MintScoped == \A m \in Mints : st[m] # "idle" => scope[m] # None

TypeInv == ServerTypes /\ SignTypes /\ PromptTypes /\ CallTypes /\ MintScoped

(* The pair in the cookies is one the server may have issued.                 *)
LEMMA JarBound ==
    ASSUME RefreshInv, ServerTypes
    PROVE  /\ jar \in 0..MaxPairs
           /\ \A n \in 0..issued : n \in 0..MaxPairs
           /\ RefreshRecord \subseteq Refresh
<1>1. /\ jar \in 0..issued /\ issued \in Nat /\ MaxPairs \in Nat /\ issued <= MaxPairs
    BY CallsAssumption, Typed DEF ServerTypes
<1>2. \A n \in 0..issued : n \in 0..MaxPairs
    BY <1>1
<1>3. RefreshRecord \subseteq Refresh
    BY <1>2 DEF RefreshRecord, Refresh, Phases
<1> QED  BY <1>1, <1>2, <1>3

(* With what the proofs above keep, these give every type of the module.      *)
LEMMA TypeInvImplies == RefreshInv /\ Spent /\ TypeInv => TypeOK
<1> SUFFICES ASSUME RefreshInv, Spent, TypeInv PROVE TypeOK
    OBVIOUS
<1>1. jar \in 0..MaxPairs /\ refresh \in [Tabs -> Refresh]
    BY JarBound, Typed DEF TypeInv
<1>2. resolvePrompt \in [Tabs -> Calls \union {None}]
    BY DEF RefreshInv, Shape, PromptInv
<1>3. presented \in [Tabs -> SUBSET Pairs]
    <2>1. issued \in Nat /\ MaxPairs \in Nat /\ issued <= MaxPairs
        BY CallsAssumption, Typed DEF TypeInv, ServerTypes
    <2>2. \A n \in 1..issued : n \in Pairs
        BY <2>1 DEF Pairs
    <2>3. \A t \in Tabs : presented[t] \in SUBSET Pairs
        BY <2>2 DEF Spent
    <2> QED  BY <2>3 DEF Spent
<1> QED
    BY <1>1, <1>2, <1>3
    DEF TypeOK, TypeInv, ServerTypes, SignTypes, PromptTypes, CallTypes, RefreshInv, Shape

(* The server's state: rotation, sign-in, sign-out and time.                  *)
LEMMA ServerKeepsTypes ==
    ASSUME RefreshInv, ServerTypes, [Next]_vars
    PROVE  ServerTypes'
<1>1. ASSUME UNCHANGED serverVars PROVE ServerTypes'
    BY <1>1 DEF ServerTypes, serverVars, issued
<1>2. /\ issued \in Nat /\ MaxPairs \in Nat /\ issued <= MaxPairs /\ family \in Seq(Nat)
      /\ expiredTo \in 0..MaxPairs /\ valid \subseteq Pairs
    BY CallsAssumption, Typed DEF ServerTypes
<1>3. ASSUME NEW f \in Nat, issued < MaxPairs, family' = Append(family, f),
             valid' \subseteq valid \union {issued + 1}, expiredTo' = expiredTo
      PROVE  ServerTypes'
    <2>1. issued' = issued + 1
        BY <1>2, <1>3, Grows
    <2>2. issued + 1 \in Pairs /\ issued' <= MaxPairs
        BY <1>2, <1>3, <2>1 DEF Pairs
    <2> QED  BY <1>2, <1>3, <2>2 DEF ServerTypes
<1>4. ASSUME NEW t \in Tabs, RefreshCommit(t) PROVE ServerTypes'
    <2>1. expiredTo' = expiredTo
        BY <1>4 DEF RefreshCommit
    <2>2. CASE UNCHANGED family /\ valid' \subseteq valid
        BY <1>2, <2>1, <2>2 DEF ServerTypes, issued
    <2>3. CASE /\ refresh[t].token # 0 /\ issued < MaxPairs
               /\ family' = Append(family, family[refresh[t].token])
               /\ valid' = (valid \ {refresh[t].token}) \union {issued + 1}
        <3>1. refresh[t].token \in 1..issued
            BY <2>3, Typed
        <3>2. family[refresh[t].token] \in Nat
            BY <1>2, <3>1 DEF issued
        <3> QED  BY <1>3, <2>1, <2>3, <3>2
    <2> QED  BY <1>4, <2>2, <2>3 DEF RefreshCommit
<1>5. ASSUME NEW t \in Tabs, Login(t) PROVE ServerTypes'
    BY <1>2, <1>3, <1>5 DEF Login
<1>6. ASSUME NEW l \in logouts, LogoutCommit(l) PROVE ServerTypes'
    BY <1>2, <1>6 DEF LogoutCommit, ServerTypes, issued
<1>7. CASE AccessExpires
    BY <1>2, <1>7 DEF AccessExpires, ServerTypes, issued
<1>8. CASE \/ \E r \in Requests : Issue(r)
           \/ \E m \in Mints : Submit(m) \/ Minted(m)
           \/ \E c \in Calls : ServerAnswers(c) \/ Interceptor(c)
    BY <1>1, <1>8
    DEF Issue, Submit, Minted, ServerAnswers, Interceptor, PassOn, StepUp, Unauthorized
<1>9. CASE \/ \E t \in Tabs : RefreshRead(t) \/ RefreshClient(t) \/ Cancel(t) \/ Logout(t)
           \/ \E t \in Tabs, a \in Actions : StepUpExpires(t, a)
           \/ \E l \in logouts : LogoutEnds(l)
           \/ UNCHANGED vars
    BY <1>1, <1>9
    DEF RefreshRead, RefreshClient, RefreshSucceeds, RefreshFails, Cancel, Logout,
        StepUpExpires, LogoutEnds, vars
<1> QED  BY <1>4, <1>5, <1>6, <1>7, <1>8, <1>9 DEF Next

(* Sign-out and sign-in.                                                      *)
LEMMA SignKeepsTypes ==
    ASSUME RefreshInv, ServerTypes, SignTypes, [Next]_vars
    PROVE  SignTypes'
<1>1. ASSUME UNCHANGED <<logouts, user>> PROVE SignTypes'
    BY <1>1 DEF SignTypes
<1>2. /\ jar \in 0..MaxPairs /\ 0 \in 0..MaxPairs
      /\ user \in [Tabs -> BOOLEAN]
      /\ logouts \subseteq [token : 0..MaxPairs, done : BOOLEAN]
      /\ [token |-> jar, done |-> FALSE] \in [token : 0..MaxPairs, done : BOOLEAN]
      /\ [token |-> 0, done |-> TRUE] \in [token : 0..MaxPairs, done : BOOLEAN]
    BY CallsAssumption, JarBound DEF SignTypes
<1>3. ASSUME NEW t \in Tabs, RefreshFails(t) \/ Logout(t) \/ Login(t) PROVE SignTypes'
    <2>1. \E b \in BOOLEAN : user' = [user EXCEPT ![t] = b]
        BY <1>3 DEF RefreshFails, Logout, Login
    <2>2. user' \in [Tabs -> BOOLEAN]
        BY <1>2, <2>1
    <2>3. logouts' \subseteq logouts \union {[token |-> jar, done |-> FALSE]}
        BY <1>3 DEF RefreshFails, Logout, Login
    <2>4. logouts' \subseteq [token : 0..MaxPairs, done : BOOLEAN]
        BY <1>2, <2>3, Zenon
    <2> QED  BY <2>2, <2>4 DEF SignTypes
<1>4. ASSUME NEW l \in logouts, LogoutCommit(l) \/ LogoutEnds(l) PROVE SignTypes'
    <2>1. user' = user
        BY <1>4 DEF LogoutCommit, LogoutEnds
    <2>2. logouts' \subseteq logouts \union {[token |-> 0, done |-> TRUE]}
        BY <1>4 DEF LogoutCommit, LogoutEnds
    <2>3. logouts' \subseteq [token : 0..MaxPairs, done : BOOLEAN]
        BY <1>2, <2>2, Zenon
    <2> QED  BY <1>2, <2>1, <2>3 DEF SignTypes
<1>5. CASE \/ \E r \in Requests : Issue(r)
           \/ \E m \in Mints : Submit(m) \/ Minted(m)
           \/ \E c \in Calls : ServerAnswers(c) \/ Interceptor(c)
    BY <1>1, <1>5
    DEF Issue, Submit, Minted, ServerAnswers, Interceptor, PassOn, StepUp, Unauthorized
<1>6. CASE \/ \E t \in Tabs : RefreshRead(t) \/ RefreshCommit(t) \/ RefreshSucceeds(t)
                              \/ Cancel(t)
           \/ \E t \in Tabs, a \in Actions : StepUpExpires(t, a)
           \/ AccessExpires \/ UNCHANGED vars
    BY <1>1, <1>6
    DEF RefreshRead, RefreshCommit, RefreshSucceeds, Cancel, StepUpExpires,
        AccessExpires, vars
<1> QED  BY <1>3, <1>4, <1>5, <1>6 DEF Next, RefreshClient

(* Calls that are sent, or settle, keep well-formed configs.                  *)
LEMMA SendKeepsCalls ==
    ASSUME CallTypes, jar' \in 0..MaxPairs, NEW cs,
           Send(cs) \/ Settle(cs, "ok") \/ Settle(cs, "error")
    PROVE  CallTypes'
<1>1. 0 \in 0..MaxPairs
    BY CallsAssumption
<1>2. NewRequest \in Request /\ NewRequest.reply = "none"
    BY <1>1 DEF NewRequest, Request, Replies
<1>3. \A c \in Calls : LET q == [req[c] EXCEPT !.carried = jar', !.reply = "none"]
                       IN  q \in Request /\ q.reply = "none"
    BY DEF CallTypes, Request, Replies
<1>4. req' = [c \in Calls |-> req'[c]]
    BY DEF Send, Settle
<1>5. \A c \in Calls : \/ req'[c] = req[c]
                       \/ req'[c] \in Request /\ req'[c].reply = "none"
    BY <1>2, <1>3 DEF Send, Settle
<1>6. \A c \in Calls : req'[c] \in Request
    BY <1>5 DEF CallTypes
<1> QED  BY <1>4, <1>5, <1>6 DEF CallTypes

(* A mint leaves idle only when it is submitted.                              *)
LEMMA ScopeKept ==
    ASSUME MintScoped, UNCHANGED scope,
           \A c \in Mints : st[c] = "idle" => st'[c] = "idle"
    PROVE  MintScoped'
BY DEF MintScoped

(* Steps that change the config of one call, which is not idle.               *)
LEMMA OneCall ==
    ASSUME CallTypes, st \in [Calls -> States], NEW c \in Calls, st[c] # "idle",
           NEW q, q \in Request, q.reply = "stepup" => c \in Requests /\ ActionOf[c] # None,
           req' = [req EXCEPT ![c] = q], NEW s, st' = [st EXCEPT ![c] = s]
    PROVE  /\ CallTypes'
           /\ \A m \in Mints : st[m] = "idle" => st'[m] = "idle"
<1>1. req' \in [Calls -> Request]
    BY DEF CallTypes
<1>2. \A d \in Calls : req'[d].reply = "stepup" => d \in Requests /\ ActionOf[d] # None
    BY DEF CallTypes
<1>3. \A m \in Mints : st[m] = "idle" => st'[m] = "idle"
    BY DEF Calls
<1> QED  BY <1>1, <1>2, <1>3 DEF CallTypes

(* The server asks only a request of a gated endpoint for a step-up.          *)
LEMMA AnswerKeepsTypes ==
    ASSUME RefreshInv, TypeInv, NEW c \in Calls, ServerAnswers(c)
    PROVE  CallTypes' /\ PromptTypes' /\ MintScoped'
<1>1. PICK a \in Answers(c) : req' = [req EXCEPT ![c].reply = a]
    BY DEF ServerAnswers
<1>2. /\ st[c] = "sent" /\ st' = [st EXCEPT ![c] = "replied"] /\ UNCHANGED promptVars
      /\ st \in [Calls -> States] /\ req \in [Calls -> Request]
    BY DEF ServerAnswers, RefreshInv, Shape, TypeInv, CallTypes
<1> DEFINE q == [req[c] EXCEPT !.reply = a]
<1>3. a \in Replies /\ (a = "stepup" => c \in Requests /\ ActionOf[c] # None)
    BY DEF Answers, Replies, Calls
<1>4. q \in Request /\ q.reply = a
    BY <1>2, <1>3 DEF Request
<1>5. req' = [req EXCEPT ![c] = q]
    BY <1>1, <1>2
<1> HIDE DEF q
<1>6. CallTypes' /\ \A m \in Mints : st[m] = "idle" => st'[m] = "idle"
    BY <1>2, <1>3, <1>4, <1>5, OneCall DEF TypeInv
<1>7. PromptTypes'
    BY <1>2 DEF TypeInv, PromptTypes, promptVars
<1> QED  BY <1>2, <1>6, <1>7, ScopeKept DEF TypeInv, promptVars

(* step_up_required: the prompt is for an action.                             *)
LEMMA StepUpKeepsTypes ==
    ASSUME RefreshInv, TypeInv, NEW c \in Calls, StepUp(c)
    PROVE  CallTypes' /\ PromptTypes' /\ MintScoped'
<1> DEFINE t == TabOf[c]
           a == ActionOf[c]
<1>1. /\ st[c] = "replied" /\ t \in Tabs /\ a \in Actions
      /\ st \in [Calls -> States] /\ req \in [Calls -> Request]
      /\ jar \in 0..MaxPairs /\ 0 \in 0..MaxPairs
    BY CallsAssumption, JarBound
    DEF StepUp, RefreshInv, Shape, TypeInv, CallTypes, Actions
<1>2. CASE a \in tokens[t]
    <2> DEFINE q == [req[c] EXCEPT !.carried = jar, !.reply = "none",
                                   !.stepUpRetry = TRUE, !.header = a]
    <2>1. q \in Request /\ q.reply = "none"
        BY <1>1 DEF Request, Replies
    <2>2. /\ req' = [req EXCEPT ![c] = q] /\ st' = [st EXCEPT ![c] = "sent"]
          /\ UNCHANGED promptVars
        BY <1>1, <1>2 DEF StepUp
    <2> HIDE DEF q
    <2>3. CallTypes' /\ \A m \in Mints : st[m] = "idle" => st'[m] = "idle"
        BY <1>1, <2>1, <2>2, OneCall DEF TypeInv
    <2>4. PromptTypes'
        BY <2>2 DEF TypeInv, PromptTypes, promptVars
    <2> QED  BY <2>2, <2>3, <2>4, ScopeKept DEF TypeInv, promptVars
<1>3. CASE a \notin tokens[t]
    <2> DEFINE q == [req[c] EXCEPT !.carried = 0, !.reply = "none"]
    <2>1. q \in Request /\ q.reply = "none"
        BY <1>1 DEF Request, Replies
    <2>2. /\ req' = [req EXCEPT ![c] = q] /\ st' = [st EXCEPT ![c] = "prompted"]
          /\ submitting' = [submitting EXCEPT ![t] = submitting[t] /\ pendingAction[t] = a]
          /\ pendingAction' = [pendingAction EXCEPT ![t] = a]
          /\ UNCHANGED <<tokens, scope>>
        BY <1>1, <1>3 DEF StepUp
    <2> HIDE DEF q
    <2>3. CallTypes' /\ \A m \in Mints : st[m] = "idle" => st'[m] = "idle"
        BY <1>1, <2>1, <2>2, OneCall DEF TypeInv
    <2>4. submitting' \in [Tabs -> BOOLEAN]
        BY <1>1, <2>2 DEF TypeInv, PromptTypes
    <2>5. pendingAction' \in [Tabs -> Actions \union {None}]
        BY <1>1, <2>2 DEF TypeInv, PromptTypes
    <2>6. PromptTypes'
        BY <2>2, <2>4, <2>5 DEF TypeInv, PromptTypes
    <2> QED  BY <2>2, <2>3, <2>6, ScopeKept DEF TypeInv
<1> QED  BY <1>2, <1>3

(* A 401 changes the flags of its own call.                                   *)
LEMMA UnauthorizedKeepsTypes ==
    ASSUME RefreshInv, TypeInv, NEW c \in Calls, Unauthorized(c)
    PROVE  CallTypes' /\ PromptTypes' /\ MintScoped'
<1>1. /\ st[c] = "replied" /\ 0 \in 0..MaxPairs /\ UNCHANGED promptVars
      /\ st \in [Calls -> States] /\ req \in [Calls -> Request]
    BY CallsAssumption DEF Unauthorized, RefreshInv, Shape, TypeInv, CallTypes
<1>2. ASSUME NEW b \in BOOLEAN, NEW s,
             req' = [req EXCEPT ![c] = [req[c] EXCEPT !.carried = 0, !.reply = "none",
                                                      !.retry = b]],
             st' = [st EXCEPT ![c] = s]
      PROVE  CallTypes' /\ \A m \in Mints : st[m] = "idle" => st'[m] = "idle"
    <2> DEFINE q == [req[c] EXCEPT !.carried = 0, !.reply = "none", !.retry = b]
    <2>1. q \in Request /\ q.reply = "none"
        BY <1>1 DEF Request, Replies
    <2>2. req' = [req EXCEPT ![c] = q]
        BY <1>2
    <2> HIDE DEF q
    <2> QED  BY <1>1, <1>2, <2>1, <2>2, OneCall DEF TypeInv
<1>3. PromptTypes' /\ UNCHANGED scope /\ MintScoped
    BY <1>1 DEF TypeInv, PromptTypes, promptVars
<1>4. CASE isRefreshing[TabOf[c]]
    <2>1. /\ req' = [req EXCEPT ![c].carried = 0, ![c].reply = "none"]
          /\ st' = [st EXCEPT ![c] = "queued"]
        BY <1>4 DEF Unauthorized
    <2>2. req[c].retry \in BOOLEAN
          /\ [req[c] EXCEPT !.carried = 0, !.reply = "none"] =
                [req[c] EXCEPT !.carried = 0, !.reply = "none", !.retry = req[c].retry]
        BY <1>1 DEF Request
    <2>3. req' = [req EXCEPT ![c] = [req[c] EXCEPT !.carried = 0, !.reply = "none"]]
        BY <1>1, <2>1
    <2> QED  BY <1>2, <1>3, <2>1, <2>2, <2>3, ScopeKept
<1>5. CASE ~isRefreshing[TabOf[c]]
    <2>1. /\ req' = [req EXCEPT ![c].carried = 0, ![c].reply = "none", ![c].retry = TRUE]
          /\ st' = [st EXCEPT ![c] = "refreshing"]
        BY <1>5 DEF Unauthorized
    <2>2. req' = [req EXCEPT ![c] = [req[c] EXCEPT !.carried = 0, !.reply = "none",
                                                   !.retry = TRUE]]
        BY <1>1, <2>1
    <2> QED  BY <1>2, <1>3, <2>1, <2>2, ScopeKept
<1> QED  BY <1>4, <1>5

(* A page's call, and the modal's, is sent.                                   *)
LEMMA SentKeepsTypes ==
    ASSUME RefreshInv, TypeInv,
           (\E r \in Requests : Issue(r)) \/ (\E m \in Mints : Submit(m))
    PROVE  CallTypes' /\ PromptTypes' /\ MintScoped'
<1>1. jar \in 0..MaxPairs /\ Requests \intersect Mints = {}
    BY JarBound, CallsAssumption DEF TypeInv
<1>2. ASSUME NEW r \in Requests, Issue(r) PROVE CallTypes' /\ PromptTypes' /\ MintScoped'
    <2>1. Send({r}) /\ jar' = jar /\ UNCHANGED promptVars
        BY <1>2 DEF Issue
    <2>2. \A m \in Mints : st[m] = "idle" => st'[m] = "idle"
        BY <1>1, <2>1 DEF Send, Calls
    <2>3. PromptTypes'
        BY <2>1 DEF TypeInv, PromptTypes, promptVars
    <2> QED  BY <1>1, <2>1, <2>2, <2>3, SendKeepsCalls, ScopeKept DEF TypeInv, promptVars
<1>3. ASSUME NEW m \in Mints, Submit(m) PROVE CallTypes' /\ PromptTypes' /\ MintScoped'
    <2> DEFINE t == TabOf[m]
    <2>1. /\ t \in Tabs /\ Send({m}) /\ jar' = jar /\ pendingAction[t] # None
          /\ scope' = [scope EXCEPT ![m] = pendingAction[t]]
          /\ submitting' = [submitting EXCEPT ![t] = TRUE]
          /\ UNCHANGED <<tokens, pendingAction>>
        BY <1>3, CallsAssumption DEF Submit, Calls
    <2>2. pendingAction[t] \in Actions
        BY <2>1 DEF TypeInv, PromptTypes
    <2>3. PromptTypes'
        BY <2>1, <2>2 DEF TypeInv, PromptTypes
    <2>4. MintScoped'
        BY <2>1, <2>2 DEF TypeInv, PromptTypes, MintScoped, Send, Calls
    <2> QED  BY <1>1, <2>1, <2>3, <2>4, SendKeepsCalls DEF TypeInv
<1> QED  BY <1>2, <1>3

(* An answer or an error is passed on.                                        *)
LEMMA PassOnKeepsTypes ==
    ASSUME RefreshInv, TypeInv, NEW c \in Calls, PassOn(c)
    PROVE  CallTypes' /\ PromptTypes' /\ MintScoped'
<1>1. /\ st[c] = "replied" /\ jar' = jar /\ UNCHANGED <<tokens, pendingAction, scope>>
      /\ Settle({c}, "ok") \/ Settle({c}, "error")
      /\ submitting' = submitting \/ submitting' = AfterFailing({c})
    BY DEF PassOn, Reject, promptVars
<1>2. CallTypes'
    BY <1>1, JarBound, SendKeepsCalls DEF TypeInv
<1>3. \A m \in Mints : st[m] = "idle" => st'[m] = "idle"
    BY <1>1 DEF Settle, Calls
<1>4. PromptTypes'
    BY <1>1 DEF TypeInv, PromptTypes, AfterFailing
<1> QED  BY <1>1, <1>2, <1>3, <1>4, ScopeKept DEF TypeInv

(* A refresh that ends moves the calls that wait for it, none of them idle.   *)
LEMMA RefreshEndKeepsTypes ==
    ASSUME RefreshInv, ServerTypes', RefreshInv', TypeInv, NEW t \in Tabs, RefreshClient(t)
    PROVE  CallTypes' /\ PromptTypes' /\ MintScoped'
<1> DEFINE cs == failedQueue[t] \union {refresh[t].owner}
<1>1. /\ UNCHANGED <<tokens, pendingAction, scope>>
      /\ Send(cs) \/ Settle(cs, "error")
      /\ submitting' = submitting \/ submitting' = AfterFailing(cs)
      /\ refresh[t].phase # "none"
    BY DEF RefreshClient, RefreshSucceeds, RefreshFails, Reject, promptVars
<1>2. \A c \in cs : c \in Calls => st[c] \in Waiting
    BY <1>1 DEF RefreshInv, TabInv, Waiting
<1>3. jar' \in 0..MaxPairs
    <2>1. jar' \in 0..issued' /\ issued' \in Nat /\ MaxPairs \in Nat /\ issued' <= MaxPairs
        BY CallsAssumption DEF RefreshInv, Shape, ServerTypes, issued
    <2> QED  BY <2>1
<1> HIDE DEF cs
<1>4. CallTypes'
    BY <1>1, <1>3, SendKeepsCalls DEF TypeInv
<1>5. \A m \in Mints : st[m] = "idle" => st'[m] = "idle"
    BY <1>1, <1>2 DEF Send, Settle, Calls, Waiting
<1>6. PromptTypes'
    BY <1>1 DEF TypeInv, PromptTypes, AfterFailing
<1> QED  BY <1>1, <1>4, <1>5, <1>6, ScopeKept DEF TypeInv

(* The mint's answer: its action is cached, the call of the prompt retried.   *)
LEMMA MintedKeepsTypes ==
    ASSUME RefreshInv, TypeInv, NEW m \in Mints, Minted(m)
    PROVE  CallTypes' /\ PromptTypes' /\ MintScoped'
<1> DEFINE t == TabOf[m]
<1>1. /\ t \in Tabs /\ jar \in 0..MaxPairs /\ 0 \in 0..MaxPairs /\ m \in Calls
      /\ st[m] = "replied" /\ scope[m] \in Actions
    <2>1. t \in Tabs /\ m \in Calls /\ 0 \in 0..MaxPairs
        BY CallsAssumption DEF Calls
    <2>2. jar \in 0..MaxPairs
        BY JarBound DEF TypeInv
    <2>3. st[m] = "replied"
        BY DEF Minted
    <2>4. scope[m] \in Actions
        BY <2>3 DEF TypeInv, MintScoped, PromptTypes
    <2> QED  BY <2>1, <2>2, <2>3, <2>4
<1>2. /\ tokens' = [tokens EXCEPT ![t] = tokens[t] \union {scope[m]}]
      /\ pendingAction' = [pendingAction EXCEPT ![t] = None]
      /\ UNCHANGED <<submitting, scope>>
    BY DEF Minted, ClosePrompt
<1>3. PromptTypes'
    BY <1>1, <1>2 DEF TypeInv, PromptTypes
<1>4. NewRequest \in Request /\ NewRequest.reply = "none"
    BY <1>1 DEF NewRequest, Request, Replies
<1>5. \A c \in Calls : LET q == [req[c] EXCEPT !.carried = jar, !.reply = "none",
                                  !.stepUpRetry = TRUE, !.header = scope[m]]
                       IN  q \in Request /\ q.reply = "none"
    BY <1>1 DEF TypeInv, CallTypes, Request, Replies
<1>6. \A c \in Calls : \/ req'[c] = req[c]
                       \/ req'[c] \in Request /\ req'[c].reply = "none"
    BY <1>4, <1>5 DEF Minted
<1>7. CallTypes'
    <2>1. req' = [c \in Calls |-> req'[c]]
        BY DEF Minted
    <2>2. \A c \in Calls : req'[c] \in Request
        BY <1>6 DEF TypeInv, CallTypes
    <2> QED  BY <1>6, <2>1, <2>2 DEF TypeInv, CallTypes
<1>8. \A d \in Mints : st[d] = "idle" => st'[d] = "idle"
    BY <1>1 DEF Minted, Resolved, Calls, RefreshInv, PromptInv
<1> QED  BY <1>2, <1>3, <1>7, <1>8, ScopeKept DEF TypeInv

(* The dialog is closed, or a cached token expires.                           *)
LEMMA CancelKeepsTypes ==
    ASSUME RefreshInv, TypeInv, NEW t \in Tabs,
           Cancel(t) \/ \E a \in Actions : StepUpExpires(t, a)
    PROVE  CallTypes' /\ PromptTypes' /\ MintScoped'
<1>1. CASE Cancel(t)
    <2>1. /\ Settle(Resolved(t), "error") /\ jar' = jar
          /\ pendingAction' = [pendingAction EXCEPT ![t] = None]
          /\ UNCHANGED <<tokens, submitting, scope>>
        BY <1>1 DEF Cancel, ClosePrompt
    <2>2. \A m \in Mints : st[m] = "idle" => st'[m] = "idle"
        BY <2>1 DEF Settle, Resolved, Calls, RefreshInv, PromptInv
    <2>3. PromptTypes'
        BY <2>1 DEF TypeInv, PromptTypes
    <2>4. CallTypes'
        BY <2>1, JarBound, SendKeepsCalls DEF TypeInv
    <2> QED  BY <2>1, <2>2, <2>3, <2>4, ScopeKept DEF TypeInv
<1>2. ASSUME NEW a \in Actions, StepUpExpires(t, a)
      PROVE  CallTypes' /\ PromptTypes' /\ MintScoped'
    <2>1. /\ tokens' = [tokens EXCEPT ![t] = tokens[t] \ {a}]
          /\ UNCHANGED <<st, req, pendingAction, submitting, scope>>
        BY <1>2 DEF StepUpExpires
    <2> QED  BY <2>1 DEF TypeInv, PromptTypes, CallTypes, MintScoped
<1> QED  BY <1>1, <1>2

(* Every step keeps the types.                                                *)
LEMMA NextTypes ==
    ASSUME RefreshInv, RefreshInv', TypeInv, [Next]_vars
    PROVE  TypeInv'
<1>1. ServerTypes' /\ SignTypes'
    BY ServerKeepsTypes, SignKeepsTypes DEF TypeInv
<1>2. ASSUME UNCHANGED <<st, req, promptVars>> PROVE CallTypes' /\ PromptTypes' /\ MintScoped'
    BY <1>2 DEF TypeInv, CallTypes, PromptTypes, MintScoped, promptVars
<1>3. CASE (\E r \in Requests : Issue(r)) \/ (\E m \in Mints : Submit(m) \/ Minted(m))
    BY <1>1, <1>3, SentKeepsTypes, MintedKeepsTypes DEF TypeInv
<1>4. CASE \E c \in Calls : ServerAnswers(c) \/ Interceptor(c)
    BY <1>1, <1>4, AnswerKeepsTypes, PassOnKeepsTypes, StepUpKeepsTypes,
       UnauthorizedKeepsTypes DEF TypeInv, Interceptor
<1>5. CASE \E t \in Tabs : RefreshClient(t) \/ Cancel(t) \/ \E a \in Actions : StepUpExpires(t, a)
    BY <1>1, <1>5, RefreshEndKeepsTypes, CancelKeepsTypes DEF TypeInv
<1>6. CASE \/ \E t \in Tabs : RefreshRead(t) \/ RefreshCommit(t) \/ Logout(t) \/ Login(t)
           \/ \E l \in logouts : LogoutCommit(l) \/ LogoutEnds(l)
           \/ AccessExpires \/ UNCHANGED vars
    <2>1. UNCHANGED <<st, req, promptVars>>
        BY <1>6
        DEF RefreshRead, RefreshCommit, Logout, Login, LogoutCommit, LogoutEnds,
            AccessExpires, vars
    <2> QED  BY <1>1, <1>2, <2>1 DEF TypeInv
<1> QED  BY <1>3, <1>4, <1>5, <1>6 DEF Next

(* For any number of tabs, calls and token pairs every variable keeps its     *)
(* type: a prompt, a cached step-up token and a mint always name an action of *)
(* a gated endpoint, and cookies, calls, refreshes and logouts name a pair    *)
(* the server can have issued (lib/api.ts, stores/step-up.ts, modal).         *)
THEOREM TypeCorrect == Spec => []TypeOK
<1>1. Init => RefreshInv /\ Spent /\ TypeInv
    <2> SUFFICES ASSUME Init PROVE RefreshInv /\ Spent /\ TypeInv
        OBVIOUS
    <2>1. RefreshInv /\ Spent
        BY InitInv, InitSpent
    <2>2. issued = 1 /\ MaxPairs \in Nat \ {0} /\ 0 \in 0..MaxPairs
        BY CallsAssumption DEF Init, issued
    <2>3. ServerTypes /\ SignTypes
        BY <2>2 DEF Init, ServerTypes, SignTypes, Pairs
    <2>4. NewRequest \in Request /\ NewRequest.reply = "none"
        BY <2>2 DEF NewRequest, Request, Replies
    <2>5. PromptTypes /\ CallTypes /\ MintScoped
        BY <2>4 DEF Init, PromptTypes, CallTypes, MintScoped, Calls
    <2> QED  BY <2>1, <2>3, <2>5 DEF TypeInv
<1>2. RefreshInv /\ Spent /\ TypeInv /\ [Next]_vars => (RefreshInv /\ Spent /\ TypeInv)'
    BY NextInv, SpentNext, NextTypes
<1>3. RefreshInv /\ Spent /\ TypeInv => TypeOK
    BY TypeInvImplies
<1> QED  BY <1>1, <1>2, <1>3, PTL DEF Spec

================================================================================
