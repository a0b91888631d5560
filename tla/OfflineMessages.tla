---------------------------- MODULE OfflineMessages ----------------------------
(* The mobile app's offline message queue: queueMessage and processQueue of   *)
(* mobile/hooks/use-offline-messages.ts, the connectivity state of            *)
(* mobile/hooks/use-offline.ts that starts them, the persistent cache entry   *)
(* of mobile/services/DataCache.ts they read and write, and the send handler  *)
(* of the message screens.                                                    *)
(*                                                                            *)
(* The queue is one AsyncStorage entry.  Every operation on it reads the      *)
(* whole entry, awaits, and writes the whole entry back; nothing keeps two    *)
(* operations apart.                                                          *)
EXTENDS Naturals, Sequences

CONSTANTS Messages,
          Drains,      \* bound: runs of processQueue alive at a time
          RetryLimit,  \* 3 in the code: a failure after this many drops it
          MaxPending,  \* bound: reconnect handlers suspended at a time
          MaxCrashes,  \* bound: restarts of the app
          MaxFaults    \* bound: failed reads and writes of the storage

ASSUME BoundsAssumption ==
    /\ RetryLimit \in Nat /\ MaxPending \in Nat /\ MaxCrashes \in Nat /\ MaxFaults \in Nat
    /\ "compose" \notin Drains   \* which names the send handler among the operations

VARIABLES
    net,        \* the device has internet
    online,     \* isOnline, per instance of useOffline
    pending,    \* handleNetworkChange calls suspended in dataCache.set
    wasOffline, \* of the instance inside useOfflineMessages
    queue,      \* the stored QueuedMessage[]; empty when there is no entry
    compose,    \* the send handler of the screen
    drain,      \* runs of processQueue
    typed,      \* messages the user has sent
    accepted,   \* messages the "Message Queued" alert was shown for
    delivered,  \* messages the server has received
    tries,      \* failed attempts, counted up to one past the limit
    expired,    \* messages whose entry outlived its 24 hours
    stale,      \* operations whose read no longer is what is stored
    overwrote,  \* some operation wrote over what it had not read
    crashes, faults

view == <<net, online, pending, wasOffline>>
fate == <<typed, accepted, delivered, tries, expired>>
vars == <<view, queue, compose, drain, fate, stale, overwrote, crashes, faults>>

\* The screen and the queue hook each call useOffline.
Instances == {"screen", "hook"}
Entry == [msg : Messages, retryCount : 0 .. RetryLimit]
Ids(q) == {q[i].msg : i \in 1 .. Len(q)}

NoCompose == [pc |-> "idle", copy |-> <<>>]
NoDrain == [pc |-> "idle", todo |-> <<>>, remaining |-> <<>>]

TypeOK ==
    /\ net \in BOOLEAN /\ wasOffline \in BOOLEAN /\ overwrote \in BOOLEAN
    /\ online \in [Instances -> BOOLEAN]
    /\ pending \in [Instances -> 0 .. MaxPending]
    /\ queue \in Seq(Entry)
    /\ compose.pc \in {"idle", "get", "set"} /\ compose.copy \in Seq(Entry)
    /\ \A d \in Drains : /\ drain[d].pc \in {"idle", "get", "send"}
                         /\ drain[d].todo \in Seq(Entry)
                         /\ drain[d].remaining \in Seq(Entry)
    /\ expired \subseteq accepted /\ accepted \subseteq typed
    /\ delivered \subseteq accepted /\ typed \subseteq Messages
    /\ tries \in [Messages -> 0 .. RetryLimit + 1]
    /\ crashes \in 0 .. MaxCrashes /\ faults \in 0 .. MaxFaults

Init ==
    /\ net = TRUE
    /\ online = [i \in Instances |-> TRUE]
    /\ pending = [i \in Instances |-> 0]
    /\ wasOffline = FALSE
    /\ queue = <<>>
    /\ compose = NoCompose
    /\ drain = [d \in Drains |-> NoDrain]
    /\ typed = {} /\ accepted = {} /\ delivered = {} /\ expired = {}
    /\ tries = [m \in Messages |-> 0]
    /\ stale = {} /\ overwrote = FALSE /\ crashes = 0 /\ faults = 0

--------------------------------------------------------------------------------
(* Reads and writes of the stored entry.  A read that fails is caught and     *)
(* taken for an empty queue, a write that fails is caught and forgotten.      *)

\* Operations that have read the entry and not yet written it.
Readers == {d \in Drains : drain[d].pc = "send"}
           \union {p \in {"compose"} : compose.pc = "set"}

\* dataCache.get
Get(copy) ==
    \/ copy = queue /\ faults' = faults
    \/ copy = <<>> /\ faults < MaxFaults /\ faults' = faults + 1

\* dataCache.set and dataCache.remove, by operation p.
Put(p, entries) ==
    \/ /\ queue' = entries
       /\ overwrote' = (overwrote \/ p \in stale)
       /\ stale' = (stale \union Readers) \ {p}
       /\ faults' = faults
    \/ /\ faults < MaxFaults /\ faults' = faults + 1
       /\ stale' = stale \ {p}
       /\ UNCHANGED <<queue, overwrote>>

\* The entry's 24 hours are over: get and clearExpired remove it.
Expire ==
    /\ queue # <<>>
    /\ queue' = <<>>
    /\ expired' = expired \union Ids(queue)
    /\ stale' = stale \union Readers
    /\ UNCHANGED <<view, compose, drain, typed, accepted, delivered, tries,
                   overwrote, crashes, faults>>

--------------------------------------------------------------------------------
(* Connectivity: handleNetworkChange runs in every instance of useOffline.    *)

GoOffline ==
    /\ net /\ net' = FALSE
    /\ online' = [i \in Instances |-> FALSE]
    /\ UNCHANGED <<pending, wasOffline, queue, compose, drain, fate, stale,
                   overwrote, crashes, faults>>

\* Coming back, the handler first awaits dataCache.set(last_offline_timestamp).
GoOnline ==
    /\ ~net /\ net' = TRUE
    /\ \A i \in Instances : pending[i] < MaxPending
    /\ pending' = [i \in Instances |-> IF online[i] THEN pending[i] ELSE pending[i] + 1]
    /\ UNCHANGED <<online, wasOffline, queue, compose, drain, fate, stale,
                   overwrote, crashes, faults>>

\* ... and then sets the state it computed before the await, even if the
\* network has gone again.  The hook's effect depends on isOnline and
\* wasOffline: when either changes and both hold, processQueue starts.
SetOnline(i) ==
    LET runs == i = "hook" /\ ~(online[i] /\ wasOffline) IN
    /\ pending[i] > 0
    /\ pending' = [pending EXCEPT ![i] = @ - 1]
    /\ online' = [online EXCEPT ![i] = TRUE]
    /\ wasOffline' = (wasOffline \/ i = "hook")
    /\ \/ ~runs /\ UNCHANGED drain
       \/ runs /\ \E d \in Drains : /\ drain[d].pc = "idle"
                                    /\ drain' = [drain EXCEPT ![d].pc = "get"]
    /\ UNCHANGED <<net, queue, compose, fate, stale, overwrote, crashes, faults>>

--------------------------------------------------------------------------------
(* The screen.                                                                *)

\* handleSendMessage when the screen's instance says offline.  queueMessage
\* asks the hook's instance and returns false when that one is already online;
\* the screen ignores the result and clears the input either way.
handleSendMessage(m) ==
    /\ compose.pc = "idle" /\ m \notin typed /\ ~online["screen"]
    /\ typed' = typed \union {m}
    /\ compose' = IF online["hook"] THEN compose
                  ELSE [pc |-> "get", msg |-> m, copy |-> <<>>]
    /\ UNCHANGED <<view, queue, drain, accepted, delivered, tries, expired,
                   stale, overwrote, crashes, faults>>

\* queueMessage reads the queue ...
QueueGet ==
    /\ compose.pc = "get"
    /\ \E copy \in {queue, <<>>} : /\ Get(copy)
                                   /\ compose' = [compose EXCEPT !.pc = "set", !.copy = copy]
    /\ UNCHANGED <<view, queue, drain, fate, stale, overwrote, crashes>>

\* ... writes it back with the message appended, and shows the alert.
QueueSet ==
    /\ compose.pc = "set"
    /\ Put("compose", Append(compose.copy, [msg |-> compose.msg, retryCount |-> 0]))
    /\ accepted' = accepted \union {compose.msg}
    /\ compose' = NoCompose
    /\ UNCHANGED <<view, drain, typed, delivered, tries, expired, crashes>>

--------------------------------------------------------------------------------
(* processQueue.                                                              *)

\* Mutant: the queue is taken out of the storage before its messages are sent.
Mutant_TakeAll(d) ==
    /\ drain[d].pc = "get"
    /\ drain' = [drain EXCEPT ![d] = IF queue = <<>> THEN NoDrain
                    ELSE [pc |-> "send", todo |-> queue, remaining |-> <<>>]]
    /\ queue' = <<>>
    /\ UNCHANGED <<view, compose, fate, stale, overwrote, crashes, faults>>

\* getQueue; an empty queue ends the run.
DrainGet(d) ==
    /\ drain[d].pc = "get"
    /\ \E copy \in {queue, <<>>} :
          /\ Get(copy)
          /\ drain' = [drain EXCEPT ![d] =
                IF copy = <<>> THEN NoDrain
                ELSE [pc |-> "send", todo |-> copy, remaining |-> <<>>]]
    /\ UNCHANGED <<view, queue, compose, fate, stale, overwrote, crashes>>

\* Mutants: a failed message is not kept; it is kept with its old count; it is
\* kept whatever its count.
Mutant_Forget(e) == <<>>
Mutant_SameCount(e) == <<e>>
Mutant_NoLimit(e) == <<[e EXCEPT !.retryCount = @ + 1]>>

\* What the catch block pushes on remaining.
Kept(e) == IF e.retryCount < RetryLimit
           THEN <<[e EXCEPT !.retryCount = @ + 1]>> ELSE <<>>

Counted(m) == [tries EXCEPT ![m] = IF @ > RetryLimit THEN @ ELSE @ + 1]

\* One iteration of the loop.  An attempt the server received can still fail
\* here: the connection drops or axios times out before the answer.
DrainSend(d) ==
    LET e == Head(drain[d].todo) IN
    /\ drain[d].pc = "send" /\ drain[d].todo # <<>>
    /\ \/ /\ net /\ delivered' = delivered \union {e.msg}
          /\ drain' = [drain EXCEPT ![d].todo = Tail(@)]
          /\ UNCHANGED tries
       \/ /\ \/ delivered' = delivered
             \/ net /\ delivered' = delivered \union {e.msg}
          /\ tries' = Counted(e.msg)
          /\ drain' = [drain EXCEPT ![d].todo = Tail(@), ![d].remaining = @ \o Kept(e)]
    /\ UNCHANGED <<view, queue, compose, typed, accepted, expired, stale,
                   overwrote, crashes, faults>>

\* The queue becomes what remains, or is removed.
DrainPut(d) ==
    /\ drain[d].pc = "send" /\ drain[d].todo = <<>>
    /\ Put(d, drain[d].remaining)
    /\ drain' = [drain EXCEPT ![d] = NoDrain]
    /\ UNCHANGED <<view, compose, fate, crashes>>

\* The app is killed and started again: only the stored entry survives, and
\* the new instances have not been offline yet.
Crash ==
    /\ crashes < MaxCrashes /\ crashes' = crashes + 1
    /\ online' = [i \in Instances |-> net]
    /\ pending' = [i \in Instances |-> 0]
    /\ wasOffline' = FALSE
    /\ compose' = NoCompose
    /\ drain' = [d \in Drains |-> NoDrain]
    /\ stale' = {}
    /\ UNCHANGED <<net, queue, fate, overwrote, faults>>

Queueing == QueueGet \/ QueueSet
Storing(d) == DrainGet(d) \/ DrainPut(d)
Draining(d) == DrainSend(d) \/ Storing(d)

Next == \/ GoOffline \/ GoOnline \/ \E i \in Instances : SetOnline(i)
        \/ \E m \in Messages : handleSendMessage(m)
        \/ Queueing \/ \E d \in Drains : Draining(d)
        \/ Expire \/ Crash

Spec == Init /\ [][Next]_vars

(* The same app when operations on the queue do not overlap: the network does *)
(* not change, the user does not press send and the day does not end while    *)
(* one of them, or a reconnect handler, is under way.  It may crash anywhere. *)
Quiet == /\ compose.pc = "idle" /\ \A d \in Drains : drain[d].pc = "idle"
         /\ \A i \in Instances : pending[i] = 0

CalmNext == \/ /\ Quiet
               /\ \/ GoOffline \/ GoOnline \/ Expire
                  \/ \E m \in Messages : handleSendMessage(m)
            \/ \E i \in Instances : SetOnline(i)
            \/ Queueing \/ \E d \in Drains : Draining(d)
            \/ Crash

\* Operations of the storage finish.  The network owes nothing, and nor does a
\* send: after a 401 it may wait on the interceptor of mobile/lib/api.ts for ever.
CalmSpec ==
    /\ Init /\ [][CalmNext]_vars
    /\ WF_vars(Queueing)
    /\ \A d \in Drains : WF_vars(Storing(d))
    /\ \A i \in Instances : WF_vars(SetOnline(i))

--------------------------------------------------------------------------------
Exhausted(m) == tries[m] > RetryLimit

(* "Your message will be sent automatically when you are back online"         *)
(* (the alert of queueMessage): an accepted message that is not stored any    *)
(* more was delivered, failed more often than the retry limit, or expired.    *)
AcceptedIsKept ==
    \A m \in accepted : m \in Ids(queue) \/ m \in delivered \/ Exhausted(m)
                        \/ m \in expired

(* An accepted message disappears undelivered only when two operations on the *)
(* queue overlapped and one wrote over what it had not read, or the storage   *)
(* failed: a crash at any point, a failed send or a timeout alone never lose  *)
(* one.                                                                       *)
LossNeedsOverlap == AcceptedIsKept \/ overwrote \/ faults > 0

(* With operations that do not overlap, the queue is an outbox: the stored    *)
(* entry is what it holds, and a message leaves it only delivered, exhausted  *)
(* or expired, across restarts and lost answers.                              *)
Box == INSTANCE Outbox WITH held <- Ids(queue)
RefinesOutbox == Box!Spec

\* Every send of a run settles; the running app sees the network come back
\* again and again.
SendsSettle == \A d \in Drains : WF_vars(DrainSend(d))
Reconnects == []<><<SetOnline("hook")>>_vars

(* If sends settle and the app sees its network come back again and again, a  *)
(* message that is stored leaves the queue in the end: every reconnect        *)
(* drains, and retries are limited.  Being online is not enough, see          *)
(* SentWhenOnline.                                                            *)
QueueDrains ==
    SendsSettle /\ Reconnects
        => \A m \in Messages : (m \in Ids(queue)) ~> (m \notin Ids(queue))

(* "Your message will be sent automatically when you are back online": a      *)
(* stored message leaves the queue while the device stays online, if sends    *)
(* settle.  Not so: only a change of isOnline or wasOffline starts            *)
(* processQueue, so what a restart finds, or a failed send leaves, waits for  *)
(* the next loss of the network.                                              *)
SentWhenOnline ==
    SendsSettle => \A m \in Messages : (m \in Ids(queue) /\ net) ~> (m \notin Ids(queue) \/ ~net)
================================================================================
