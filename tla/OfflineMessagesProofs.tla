------------------------- MODULE OfflineMessagesProofs -------------------------
(* The offline message queue, proved for any number of messages, runs of      *)
(* processQueue, restarts and retries: no message is lost unless operations   *)
(* overlap or the storage fails, and without overlap the queue is an Outbox.  *)
EXTENDS OfflineMessages, TLAPS, SequenceTheorems

--------------------------------------------------------------------------------
(* The messages of a stored array.                                            *)

(* An array without entries holds no message.                                 *)
LEMMA IdsEmpty == Ids(<<>>) = {}
BY DEF Ids

(* [...queue, newMessage] holds one message more.                             *)
LEMMA IdsAppend ==
    ASSUME NEW S, NEW q \in Seq(S), NEW e \in S
    PROVE  Ids(Append(q, e)) = Ids(q) \union {e.msg}
<1> DEFINE r == Append(q, e)
<1>1. /\ Len(q) \in Nat /\ Len(r) = Len(q) + 1
      /\ \A i \in 1 .. Len(q) : r[i] = q[i]
      /\ r[Len(q) + 1] = e
    BY AppendProperties, LenProperties
<1> HIDE DEF r
<1>2. Ids(r) \subseteq Ids(q) \union {e.msg}
    BY <1>1 DEF Ids
<1>3. Ids(q) \union {e.msg} \subseteq Ids(r)
    BY <1>1 DEF Ids
<1> QED  BY <1>2, <1>3 DEF r

(* The loop takes the first message off the array it goes through.            *)
LEMMA IdsHead ==
    ASSUME NEW S, NEW q \in Seq(S), q # <<>>
    PROVE  Ids(q) = {Head(q).msg} \union Ids(Tail(q))
<1> DEFINE r == Tail(q)
           h == Head(q)
<1>1. /\ Len(q) \in Nat \ {0} /\ Len(r) = Len(q) - 1
      /\ \A i \in 1 .. Len(r) : r[i] = q[i + 1]
      /\ q[1] = h
    BY HeadTailProperties, EmptySeq, LenProperties
<1> HIDE DEF r, h
<1>2. ASSUME NEW m \in Ids(q) PROVE m \in {h.msg} \union Ids(r)
    <2>1. PICK i \in 1 .. Len(q) : m = q[i].msg
        BY DEF Ids
    <2>2. CASE i = 1
        BY <1>1, <2>1, <2>2
    <2>3. CASE i # 1
        <3>1. i - 1 \in 1 .. Len(r) /\ r[i - 1] = q[i]
            BY <1>1, <2>3
        <3> QED  BY <2>1, <3>1 DEF Ids
    <2> QED  BY <2>2, <2>3
<1>3. ASSUME NEW m \in {h.msg} \union Ids(r) PROVE m \in Ids(q)
    <2>1. CASE m = h.msg
        BY <1>1, <2>1 DEF Ids
    <2>2. CASE m \in Ids(r)
        <3>1. PICK i \in 1 .. Len(r) : m = r[i].msg
            BY <2>2 DEF Ids
        <3>2. i + 1 \in 1 .. Len(q) /\ q[i + 1] = r[i]
            BY <1>1
        <3> QED  BY <3>1, <3>2 DEF Ids
    <2> QED  BY <2>1, <2>2
<1> QED  BY <1>2, <1>3 DEF r, h

(* remaining.push of what the catch block keeps: one entry, or none.          *)
LEMMA IdsPush ==
    ASSUME NEW S, NEW q \in Seq(S), NEW r \in Seq(S)
    PROVE  q \o r \in Seq(S) /\ Ids(q \o r) = Ids(q) \union Ids(r)
<1> DEFINE c == q \o r
<1>1. /\ Len(q) \in Nat /\ Len(r) \in Nat /\ Len(c) = Len(q) + Len(r)
      /\ \A i \in 1 .. Len(q) + Len(r) :
            c[i] = IF i <= Len(q) THEN q[i] ELSE r[i - Len(q)]
      /\ c \in Seq(S)
    BY ConcatProperties, LenProperties
<1> HIDE DEF c
<1>2. Ids(c) \subseteq Ids(q) \union Ids(r)
    BY <1>1 DEF Ids
<1>3. ASSUME NEW m \in Ids(q) \union Ids(r) PROVE m \in Ids(c)
    <2>1. CASE m \in Ids(q)
        BY <1>1, <2>1 DEF Ids
    <2>2. CASE m \in Ids(r)
        <3>1. PICK i \in 1 .. Len(r) : m = r[i].msg
            BY <2>2 DEF Ids
        <3>2. Len(q) + i \in 1 .. Len(c) /\ c[Len(q) + i] = r[i]
            BY <1>1
        <3> QED  BY <3>1, <3>2 DEF Ids
    <2> QED  BY <2>1, <2>2
<1> QED  BY <1>1, <1>2, <1>3 DEF c

--------------------------------------------------------------------------------
(* What every copy of the array is made of: messages the alert was shown for, *)
(* with a retryCount that does not exceed the failed attempts so far.         *)
Sound == {e \in Entry : e.msg \in accepted /\ e.retryCount <= tries[e.msg]}

DrainRecord == [pc : {"idle", "get", "send"}, todo : Seq(Sound), remaining : Seq(Sound)]
ComposeRecord == [pc : {"get", "set"}, msg : typed \ accepted, copy : Seq(Sound)]

Ledger ==
    /\ typed \subseteq Messages /\ accepted \subseteq typed
    /\ delivered \subseteq accepted /\ expired \subseteq accepted
    /\ tries \in [Messages -> 0 .. RetryLimit + 1]
    /\ faults \in Nat

Copies ==
    /\ queue \in Seq(Sound)
    /\ drain \in [Drains -> DrainRecord]
    /\ compose = NoCompose \/ compose \in ComposeRecord

(* Nothing more is owed to a message.                                         *)
Over(m) == m \in delivered \/ Exhausted(m) \/ m \in expired

(* An operation that is not stale accounts for every message that is stored.  *)
DrainAccounts(d) ==
    (drain[d].pc = "send" /\ d \notin stale) =>
        \A m \in Ids(queue) :
            m \in Ids(drain[d].todo) \/ m \in Ids(drain[d].remaining) \/ Over(m)

ComposeAccounts ==
    (compose.pc = "set" /\ "compose" \notin stale) => Ids(queue) \subseteq Ids(compose.copy)

Undisturbed == ~overwrote /\ faults = 0

KeepInv ==
    /\ Ledger
    /\ Copies
    /\ Undisturbed => AcceptedIsKept /\ ComposeAccounts /\ \A d \in Drains : DrainAccounts(d)

(* The inductive invariant implies the property.                              *)
LEMMA KeepImpliesLoss == KeepInv => LossNeedsOverlap
<1> SUFFICES ASSUME KeepInv, ~overwrote, ~(faults > 0) PROVE AcceptedIsKept
    BY DEF LossNeedsOverlap
<1>1. faults = 0
    BY DEF KeepInv, Ledger
<1> QED  BY <1>1 DEF KeepInv, Undisturbed

(* Initially nothing is stored and nothing is owed.                           *)
LEMMA InitKeep == Init => KeepInv
<1> SUFFICES ASSUME Init PROVE KeepInv
    OBVIOUS
<1> USE DEF Init
<1>1. Ledger
    BY BoundsAssumption DEF Ledger
<1>2. <<>> \in Seq(Sound)
    OBVIOUS
<1>3. Copies
    BY <1>2 DEF Copies, DrainRecord, NoDrain
<1>4. AcceptedIsKept /\ ComposeAccounts /\ \A d \in Drains : DrainAccounts(d)
    BY DEF AcceptedIsKept, ComposeAccounts, DrainAccounts, NoCompose, NoDrain
<1> QED  BY <1>1, <1>3, <1>4 DEF KeepInv

(* Entries stay sound while acceptances and failed attempts only add up.      *)
LEMMA SoundGrows ==
    ASSUME Ledger, Ledger', accepted \subseteq accepted',
           \A m \in Messages : tries[m] <= tries'[m]
    PROVE  /\ Sound \subseteq Sound'
           /\ \A q \in Seq(Sound) : q \in Seq(Sound')
<1>1. Sound \subseteq Sound'
    BY BoundsAssumption DEF Sound, Entry, Ledger
<1> QED  BY <1>1, SeqMonotonic

(* A step that touches no copy of the queue and no message's fate preserves   *)
(* the invariant, if it only reports more overlaps.                           *)
LEMMA OtherStepKeeps ==
    ASSUME KeepInv, UNCHANGED <<queue, compose, accepted, delivered, tries, expired>>,
           UNCHANGED <<overwrote, faults, stale>>,
           typed \subseteq typed', typed' \subseteq Messages,
           drain' \in [Drains -> DrainRecord],
           \A d \in Drains : drain'[d] = drain[d] \/ drain'[d].pc # "send"
    PROVE  KeepInv'
<1>1. Ledger'
    BY DEF KeepInv, Ledger
<1>2. Sound' = Sound /\ DrainRecord' = DrainRecord /\ ComposeRecord \subseteq ComposeRecord'
    BY DEF Sound, DrainRecord, ComposeRecord
<1>3. Copies'
    BY <1>2 DEF KeepInv, Copies
<1>4. ASSUME Undisturbed' 
      PROVE (AcceptedIsKept /\ ComposeAccounts /\ \A d \in Drains : DrainAccounts(d))'
    <2>1. AcceptedIsKept /\ ComposeAccounts /\ \A d \in Drains : DrainAccounts(d)
        BY <1>4 DEF KeepInv, Undisturbed
    <2>2. AcceptedIsKept' /\ ComposeAccounts'
        BY <2>1 DEF AcceptedIsKept, ComposeAccounts, Exhausted
    <2>3. ASSUME NEW d \in Drains PROVE DrainAccounts(d)'
        BY <2>1 DEF DrainAccounts, Over, Exhausted
    <2> QED  BY <2>2, <2>3
<1> QED  BY <1>1, <1>3, <1>4 DEF KeepInv

(* Going offline and coming back only concern what the hooks believe.         *)
LEMMA NetworkKeeps ==
    ASSUME KeepInv, GoOffline \/ GoOnline PROVE KeepInv'
<1>1. drain \in [Drains -> DrainRecord] /\ typed \subseteq Messages
    BY DEF KeepInv, Copies, Ledger
<1> QED  BY <1>1, OtherStepKeeps DEF GoOffline, GoOnline, fate

(* The effect of the hook starts a run of processQueue, which has read        *)
(* nothing yet.                                                               *)
LEMMA SetOnlineKeeps ==
    ASSUME KeepInv, NEW i \in Instances, SetOnline(i) PROVE KeepInv'
<1>1. drain \in [Drains -> DrainRecord] /\ typed \subseteq Messages
    BY DEF KeepInv, Copies, Ledger
<1>2. /\ drain' \in [Drains -> DrainRecord]
      /\ \A d \in Drains : drain'[d] = drain[d] \/ drain'[d].pc # "send"
    <2>1. CASE UNCHANGED drain
        BY <1>1, <2>1
    <2>2. ASSUME NEW d \in Drains, drain' = [drain EXCEPT ![d].pc = "get"]
          PROVE  /\ drain' \in [Drains -> DrainRecord]
                 /\ \A x \in Drains : drain'[x] = drain[x] \/ drain'[x].pc # "send"
        BY <1>1, <2>2 DEF DrainRecord
    <2> QED  BY <2>1, <2>2 DEF SetOnline
<1> QED  BY <1>1, <1>2, OtherStepKeeps DEF SetOnline, fate

(* The user's message is new: it was never typed, hence never accepted.       *)
LEMMA SendKeeps ==
    ASSUME KeepInv, NEW m \in Messages, handleSendMessage(m) PROVE KeepInv'
<1> USE DEF handleSendMessage
<1>1. Ledger' /\ Ledger /\ Copies /\ m \notin accepted
    BY DEF KeepInv, Ledger
<1>2. Sound' = Sound /\ DrainRecord' = DrainRecord
    BY DEF Sound, DrainRecord
<1>3. compose' = NoCompose \/ compose' \in ComposeRecord'
    <2>1. compose = NoCompose
        BY <1>1 DEF Copies, ComposeRecord
    <2>2. [pc |-> "get", msg |-> m, copy |-> <<>>] \in ComposeRecord'
        BY <1>1 DEF ComposeRecord
    <2> QED  BY <2>1, <2>2
<1>4. Copies'
    BY <1>1, <1>2, <1>3 DEF Copies
<1>5. ASSUME Undisturbed'
      PROVE (AcceptedIsKept /\ ComposeAccounts /\ \A d \in Drains : DrainAccounts(d))'
    <2>1. AcceptedIsKept /\ \A d \in Drains : DrainAccounts(d)
        BY <1>5 DEF KeepInv, Undisturbed
    <2>2. AcceptedIsKept'
        BY <2>1 DEF AcceptedIsKept, Exhausted
    <2>3. compose'.pc # "set"
        OBVIOUS
    <2>4. ASSUME NEW d \in Drains PROVE DrainAccounts(d)'
        BY <2>1 DEF DrainAccounts, Over, Exhausted
    <2> QED  BY <2>2, <2>3, <2>4 DEF ComposeAccounts
<1> QED  BY <1>1, <1>4, <1>5 DEF KeepInv

(* What a read returns is sound, the default for a failed one included.       *)
LEMMA CopySound ==
    ASSUME Copies, NEW copy \in {queue, <<>>}
    PROVE  copy \in Seq(Sound) /\ <<>> \in Seq(Sound)
<1>1. <<>> \in Seq(Sound)
    BY EmptySeq
<1>2. queue \in Seq(Sound)
    BY DEF Copies
<1>3. copy = queue \/ copy = <<>>
    OBVIOUS
<1> QED  BY ONLY <1>1, <1>2, <1>3, Zenon

(* queueMessage reads: its copy is the stored array, or the storage failed.   *)
LEMMA QueueGetKeeps == ASSUME KeepInv, QueueGet PROVE KeepInv'
<1> USE DEF QueueGet, fate
<1>1. PICK copy \in {queue, <<>>} :
          Get(copy) /\ compose' = [compose EXCEPT !.pc = "set", !.copy = copy]
    OBVIOUS
<1>2. Ledger /\ Copies /\ faults' \in Nat /\ (faults' = 0 => faults = 0 /\ copy = queue)
    BY <1>1 DEF KeepInv, Ledger, Get
<1>3. Sound' = Sound /\ DrainRecord' = DrainRecord /\ ComposeRecord' = ComposeRecord
    BY DEF Sound, DrainRecord, ComposeRecord
<1>4. compose \in ComposeRecord
    BY <1>2 DEF Copies, NoCompose
<1>5. compose' \in ComposeRecord /\ compose'.copy = copy
    <2>1. copy \in Seq(Sound)
        BY <1>2, CopySound
    <2>2. [compose EXCEPT !.pc = "set", !.copy = copy] \in ComposeRecord
        BY <1>4, <2>1 DEF ComposeRecord
    <2>3. [compose EXCEPT !.pc = "set", !.copy = copy].copy = copy
        BY <1>4 DEF ComposeRecord
    <2> QED  BY <1>1, <2>2, <2>3
<1>6. Ledger' /\ Copies'
    BY <1>2, <1>3, <1>5 DEF Ledger, Copies
<1>7. ASSUME Undisturbed'
      PROVE (AcceptedIsKept /\ ComposeAccounts /\ \A d \in Drains : DrainAccounts(d))'
    <2>1. AcceptedIsKept /\ copy = queue /\ \A d \in Drains : DrainAccounts(d)
        BY <1>2, <1>7 DEF KeepInv, Undisturbed
    <2>2. AcceptedIsKept' /\ ComposeAccounts'
        BY <1>5, <2>1 DEF AcceptedIsKept, Exhausted, ComposeAccounts
    <2>3. ASSUME NEW d \in Drains PROVE DrainAccounts(d)'
        BY <2>1 DEF DrainAccounts, Over, Exhausted
    <2> QED  BY <2>2, <2>3
<1> QED  BY <1>6, <1>7 DEF KeepInv

(* What the runs of processQueue read is stale once somebody has written.     *)
LEMMA WriteMarks ==
    ASSUME NEW p, stale' = (stale \union Readers) \ {p},
           NEW d \in Drains, d # p, drain'[d] = drain[d]
    PROVE  DrainAccounts(d)'
<1> QED  BY DEF Readers, DrainAccounts

(* queueMessage writes its copy with the message appended.                    *)
LEMMA QueueSetKeeps == ASSUME KeepInv, QueueSet PROVE KeepInv'
<1> DEFINE e == [msg |-> compose.msg, retryCount |-> 0]
           q == Append(compose.copy, e)
<1> USE DEF QueueSet
<1>1. Ledger /\ Copies /\ compose \in ComposeRecord
    BY DEF KeepInv, Copies, NoCompose
<1>2. compose.msg \in typed /\ compose.msg \in Messages /\ compose.copy \in Seq(Sound)
    BY <1>1 DEF ComposeRecord, Ledger
<1>3. /\ Put("compose", q) /\ faults' \in Nat
      /\ faults' = 0 => /\ faults = 0 /\ queue' = q
                       /\ overwrote' = (overwrote \/ "compose" \in stale)
                       /\ stale' = (stale \union Readers) \ {"compose"}
    BY <1>1 DEF Put, Ledger
<1>4. Ledger'
    BY <1>1, <1>2, <1>3 DEF Ledger
<1>5. /\ Sound \subseteq Sound'
      /\ \A r \in Seq(Sound) : r \in Seq(Sound')
    <2>1. \A m \in Messages : tries[m] <= tries'[m]
        BY <1>1, BoundsAssumption DEF Ledger
    <2> QED  BY <1>1, <1>4, <2>1, SoundGrows
<1>6. e \in Sound' /\ compose.copy \in Seq(Sound')
    BY <1>1, <1>2, <1>5, BoundsAssumption DEF Sound, Entry, Ledger
<1>7. q \in Seq(Sound') /\ Ids(q) = Ids(compose.copy) \union {compose.msg}
    BY <1>6, IdsAppend, AppendProperties
<1> HIDE DEF q
<1>8. Copies'
    <2>1. queue' \in Seq(Sound')
        BY <1>1, <1>3, <1>5, <1>7 DEF Put, Copies
    <2>2. drain' \in [Drains -> DrainRecord']
        BY <1>1, <1>5 DEF Copies, DrainRecord
    <2> QED  BY <2>1, <2>2 DEF Copies
<1>9. ASSUME Undisturbed'
      PROVE (AcceptedIsKept /\ ComposeAccounts /\ \A d \in Drains : DrainAccounts(d))'
    <2>1. /\ queue' = q /\ stale' = (stale \union Readers) \ {"compose"}
          /\ Undisturbed /\ "compose" \notin stale
        BY <1>3, <1>9 DEF Undisturbed
    <2>2. AcceptedIsKept /\ ComposeAccounts
        BY <2>1 DEF KeepInv
    <2>3. Ids(queue) \subseteq Ids(compose.copy)
        BY <2>1, <2>2 DEF ComposeAccounts
    <2>4. AcceptedIsKept'
        BY <1>7, <2>1, <2>2, <2>3 DEF AcceptedIsKept, Exhausted
    <2>5. ASSUME NEW d \in Drains PROVE DrainAccounts(d)'
        BY <2>1, WriteMarks, BoundsAssumption
    <2>6. ComposeAccounts'
        BY DEF ComposeAccounts, NoCompose
    <2> QED  BY <2>4, <2>5, <2>6
<1> QED  BY <1>4, <1>8, <1>9 DEF KeepInv

(* A run of processQueue reads: its array is the stored one, or the storage   *)
(* failed.                                                                    *)
LEMMA DrainGetKeeps == ASSUME KeepInv, NEW d \in Drains, DrainGet(d) PROVE KeepInv'
<1>1. PICK copy \in {queue, <<>>} :
          /\ Get(copy)
          /\ drain' = [drain EXCEPT ![d] =
                IF copy = <<>> THEN NoDrain
                ELSE [pc |-> "send", todo |-> copy, remaining |-> <<>>]]
    BY DEF DrainGet
<1>2. Ledger /\ Copies /\ faults' \in Nat /\ (faults' = 0 => faults = 0 /\ copy = queue)
    BY <1>1 DEF KeepInv, Ledger, Get
<1>3. UNCHANGED <<queue, compose, typed, accepted, delivered, tries, expired, stale, overwrote>>
    BY DEF DrainGet, fate
<1>4. Sound' = Sound /\ DrainRecord' = DrainRecord /\ ComposeRecord' = ComposeRecord
    BY <1>3 DEF Sound, DrainRecord, ComposeRecord
<1>5. /\ drain' \in [Drains -> DrainRecord]
      /\ \A x \in Drains \ {d} : drain'[x] = drain[x]
      /\ drain'[d] = IF copy = <<>> THEN NoDrain
                     ELSE [pc |-> "send", todo |-> copy, remaining |-> <<>>]
    <2>1. copy \in Seq(Sound) /\ <<>> \in Seq(Sound)
        BY <1>2, CopySound
    <2>2. NoDrain \in DrainRecord /\ [pc |-> "send", todo |-> copy, remaining |-> <<>>] \in DrainRecord
        BY <2>1 DEF DrainRecord, NoDrain
    <2> QED  BY <1>1, <1>2, <2>2 DEF Copies
<1>6. Ledger' /\ Copies'
    BY <1>2, <1>3, <1>4, <1>5 DEF Ledger, Copies
<1>7. ASSUME Undisturbed'
      PROVE (AcceptedIsKept /\ ComposeAccounts /\ \A x \in Drains : DrainAccounts(x))'
    <2>1. /\ copy = queue
          /\ AcceptedIsKept /\ ComposeAccounts /\ \A x \in Drains : DrainAccounts(x)
        BY <1>2, <1>3, <1>7 DEF KeepInv, Undisturbed
    <2>2. AcceptedIsKept' /\ ComposeAccounts'
        BY <1>3, <2>1 DEF AcceptedIsKept, Exhausted, ComposeAccounts
    <2>3. ASSUME NEW x \in Drains PROVE DrainAccounts(x)'
        <3>1. CASE x = d
            BY <1>3, <1>5, <2>1, <3>1 DEF DrainAccounts, NoDrain
        <3>2. CASE x # d
            <4>1. drain'[x] = drain[x]
                BY <1>5, <3>2
            <4> QED  BY <1>3, <2>1, <4>1 DEF DrainAccounts, Over, Exhausted
        <3> QED  BY <3>1, <3>2
    <2> QED  BY <2>2, <2>3
<1> QED  BY <1>6, <1>7 DEF KeepInv

(* What the catch block keeps is sound after the failure is counted, and a    *)
(* message it does not keep has used up its retries.                          *)
LEMMA KeptIsSound ==
    ASSUME Ledger, NEW e \in Sound, UNCHANGED accepted, tries' = Counted(e.msg)
    PROVE  /\ tries' \in [Messages -> 0 .. RetryLimit + 1]
           /\ \A m \in Messages : tries[m] <= tries'[m]
           /\ Kept(e) \in Seq(Sound')
           /\ e.msg \in Ids(Kept(e)) \/ tries'[e.msg] > RetryLimit
           /\ Ids(Kept(e)) \subseteq {e.msg}
<1> USE BoundsAssumption
<1>1. /\ e.msg \in Messages /\ e.msg \in accepted
      /\ e.retryCount \in 0 .. RetryLimit /\ e.retryCount <= tries[e.msg]
      /\ tries \in [Messages -> 0 .. RetryLimit + 1]
    BY DEF Sound, Entry, Ledger
<1>2. tries' = [tries EXCEPT ![e.msg] = IF tries[e.msg] > RetryLimit THEN tries[e.msg]
                                       ELSE tries[e.msg] + 1]
    BY DEF Counted
<1>3. /\ tries' \in [Messages -> 0 .. RetryLimit + 1]
      /\ \A m \in Messages : tries[m] <= tries'[m]
      /\ tries'[e.msg] > e.retryCount
      /\ e.retryCount >= RetryLimit => tries'[e.msg] > RetryLimit
    BY <1>1, <1>2
<1>4. CASE e.retryCount < RetryLimit
    <2> DEFINE f == [e EXCEPT !.retryCount = e.retryCount + 1]
    <2>1. f \in Entry /\ f.msg = e.msg /\ f.retryCount = e.retryCount + 1
        BY <1>1, <1>4 DEF Sound, Entry
    <2>2. f \in Sound'
        BY <1>1, <1>3, <2>1 DEF Sound, Entry
    <2>3. Kept(e) = <<f>>
        BY <1>4 DEF Kept
    <2> HIDE DEF f
    <2>4. Ids(<<f>>) = {e.msg}
        BY <2>1 DEF Ids
    <2> QED  BY <1>3, <2>2, <2>3, <2>4
<1>5. CASE ~(e.retryCount < RetryLimit)
    <2>1. Kept(e) = <<>>
        BY <1>5 DEF Kept
    <2>2. tries'[e.msg] > RetryLimit
        BY <1>1, <1>3, <1>5
    <2> QED  BY <1>3, <2>1, <2>2, IdsEmpty
<1> QED  BY <1>4, <1>5

(* One iteration of the loop, whatever comes of the attempt: the message is   *)
(* delivered, kept for the next run, or has used up its retries.              *)
Iterated(d) ==
    LET e == Head(drain[d].todo) IN
    /\ e \in Sound
    /\ delivered \subseteq delivered' /\ delivered' \subseteq delivered \union {e.msg}
    /\ tries' \in [Messages -> 0 .. RetryLimit + 1]
    /\ \A m \in Messages : tries[m] <= tries'[m]
    /\ drain' \in [Drains -> DrainRecord']
    /\ \A x \in Drains \ {d} : drain'[x] = drain[x]
    /\ drain'[d].pc = "send"
    /\ drain'[d].todo = Tail(drain[d].todo)
    /\ Ids(drain[d].todo) = {e.msg} \union Ids(drain'[d].todo)
    /\ Ids(drain[d].remaining) \subseteq Ids(drain'[d].remaining)
    /\ Ids(drain'[d].remaining) \subseteq Ids(drain[d].remaining) \union {e.msg}
    /\ e.msg \in Ids(drain'[d].remaining) \/ e.msg \in delivered'
       \/ tries'[e.msg] > RetryLimit

(* The loop body does just that, after a success and in the catch block.      *)
LEMMA DrainIterates ==
    ASSUME Ledger, Copies, NEW d \in Drains, DrainSend(d)
    PROVE  Iterated(d)
<1> DEFINE e == Head(drain[d].todo)
           old == drain[d]
<1>1. /\ drain \in [Drains -> DrainRecord] /\ old \in DrainRecord
      /\ old.todo \in Seq(Sound) /\ old.remaining \in Seq(Sound)
      /\ old.todo # <<>> /\ old.pc = "send"
    BY DEF Copies, DrainRecord, DrainSend
<1>2. /\ e \in Sound /\ Tail(old.todo) \in Seq(Sound)
      /\ Ids(old.todo) = {e.msg} \union Ids(Tail(old.todo))
    BY <1>1, HeadTailProperties, IdsHead
<1>3. UNCHANGED <<queue, compose, typed, accepted, expired, stale, overwrote, faults>>
    BY DEF DrainSend
<1>4. \A m \in Messages : tries[m] <= tries[m]
    BY BoundsAssumption DEF Ledger
<1>5. CASE /\ delivered' = delivered \union {e.msg}
           /\ drain' = [drain EXCEPT ![d].todo = Tail(drain[d].todo)]
           /\ UNCHANGED tries
    <2>1. Sound' = Sound /\ DrainRecord' = DrainRecord
        BY <1>3, <1>5 DEF Sound, DrainRecord
    <2> DEFINE new == [old EXCEPT !.todo = Tail(old.todo)]
    <2>2. /\ new \in DrainRecord /\ new.pc = "send"
          /\ new.todo = Tail(old.todo) /\ new.remaining = old.remaining
        BY <1>1, <1>2 DEF DrainRecord
    <2>3. drain' = [drain EXCEPT ![d] = new]
        BY <1>1, <1>5
    <2> HIDE DEF new
    <2>4. /\ drain' \in [Drains -> DrainRecord] /\ drain'[d] = new
          /\ \A x \in Drains \ {d} : drain'[x] = drain[x]
        BY <1>1, <2>2, <2>3
    <2>5. tries' \in [Messages -> 0 .. RetryLimit + 1]
        BY <1>5 DEF Ledger
    <2> QED  BY <1>2, <1>4, <1>5, <2>1, <2>2, <2>4, <2>5 DEF Iterated
<1>6. CASE /\ delivered' \in {delivered, delivered \union {e.msg}}
           /\ tries' = Counted(e.msg)
           /\ drain' = [drain EXCEPT ![d].todo = Tail(drain[d].todo),
                                     ![d].remaining = drain[d].remaining \o Kept(e)]
    <2>1. /\ tries' \in [Messages -> 0 .. RetryLimit + 1]
          /\ \A m \in Messages : tries[m] <= tries'[m]
          /\ Kept(e) \in Seq(Sound')
          /\ e.msg \in Ids(Kept(e)) \/ tries'[e.msg] > RetryLimit
          /\ Ids(Kept(e)) \subseteq {e.msg}
        BY <1>2, <1>3, <1>6, KeptIsSound
    <2>2. Ledger'
        BY <1>2, <1>3, <1>6, <2>1 DEF Ledger, Sound
    <2>3. \A q \in Seq(Sound) : q \in Seq(Sound')
        BY <1>3, <2>1, <2>2, SoundGrows
    <2>4. /\ old.remaining \o Kept(e) \in Seq(Sound')
          /\ Ids(old.remaining \o Kept(e)) = Ids(old.remaining) \union Ids(Kept(e))
        BY <1>1, <2>1, <2>3, IdsPush
    <2> DEFINE new == [old EXCEPT !.todo = Tail(old.todo),
                                  !.remaining = old.remaining \o Kept(e)]
    <2>5. DrainRecord \subseteq DrainRecord'
        BY <2>3 DEF DrainRecord
    <2>6. /\ new.pc = "send" /\ new.todo = Tail(old.todo)
          /\ new.remaining = old.remaining \o Kept(e)
        BY <1>1 DEF DrainRecord
    <2>7. new \in DrainRecord'
        BY <1>1, <1>2, <2>3, <2>4 DEF DrainRecord
    <2>8. drain' = [drain EXCEPT ![d] = new]
        BY <1>1, <1>6
    <2> HIDE DEF new
    <2>9. /\ drain' \in [Drains -> DrainRecord'] /\ drain'[d] = new
          /\ \A x \in Drains \ {d} : drain'[x] = drain[x]
        BY <1>1, <2>5, <2>7, <2>8
    <2> QED  BY <1>2, <1>6, <2>1, <2>4, <2>6, <2>9 DEF Iterated
<1> QED  BY <1>5, <1>6 DEF DrainSend

(* One iteration preserves the invariant.                                     *)
LEMMA DrainSendKeeps == ASSUME KeepInv, NEW d \in Drains, DrainSend(d) PROVE KeepInv'
<1>1. Ledger /\ Copies
    BY DEF KeepInv
<1>2. Iterated(d)
    BY <1>1, DrainIterates
<1>3. UNCHANGED <<queue, compose, typed, accepted, expired, stale, overwrote, faults>>
    BY DEF DrainSend
<1>4. Ledger'
    BY <1>1, <1>2, <1>3 DEF Iterated, Ledger, Sound
<1>5. /\ \A q \in Seq(Sound) : q \in Seq(Sound')
    BY <1>1, <1>2, <1>3, <1>4, SoundGrows DEF Iterated
<1>6. Copies'
    <2>1. ComposeRecord \subseteq ComposeRecord'
        BY <1>3, <1>5 DEF ComposeRecord
    <2>2. drain' \in [Drains -> DrainRecord']
        BY <1>2 DEF Iterated
    <2> QED  BY <1>1, <1>3, <1>5, <2>1, <2>2 DEF Copies
<1>7. ASSUME Undisturbed'
      PROVE (AcceptedIsKept /\ ComposeAccounts /\ \A x \in Drains : DrainAccounts(x))'
    <2>1. AcceptedIsKept /\ ComposeAccounts /\ \A x \in Drains : DrainAccounts(x)
        BY <1>3, <1>7 DEF KeepInv, Undisturbed
    <2>2. \A m \in accepted : Over(m) => Over(m)'
        BY <1>1, <1>2, <1>3, <1>4, BoundsAssumption DEF Over, Exhausted, Ledger, Iterated
    <2>3. AcceptedIsKept'
        BY <1>3, <2>1, <2>2 DEF AcceptedIsKept, Over
    <2>4. ComposeAccounts'
        BY <1>3, <2>1 DEF ComposeAccounts
    <2>5. Ids(queue) \subseteq accepted
        <3>1. \A i \in 1 .. Len(queue) : queue[i] \in Sound
            BY <1>1 DEF Copies
        <3> QED  BY <3>1 DEF Ids, Sound
    <2>6. ASSUME NEW x \in Drains PROVE DrainAccounts(x)'
        <3>1. CASE x = d
            <4> SUFFICES ASSUME d \notin stale, NEW m \in Ids(queue)
                         PROVE  (m \in Ids(drain[d].todo) \/ m \in Ids(drain[d].remaining)
                                   \/ Over(m))'
                BY <1>3, <3>1 DEF DrainAccounts
            <4>1. m \in Ids(drain[d].todo) \/ m \in Ids(drain[d].remaining) \/ Over(m)
                BY <2>1 DEF DrainAccounts, DrainSend
            <4>2. CASE Over(m)
                BY <2>2, <2>5, <4>2
            <4>3. CASE m \in Ids(drain[d].remaining)
                BY <1>2, <4>3 DEF Iterated
            <4>4. CASE m \in Ids(drain[d].todo)
                BY <1>2, <4>4 DEF Iterated, Over, Exhausted
            <4> QED  BY <4>1, <4>2, <4>3, <4>4
        <3>2. CASE x # d
            <4>1. drain'[x] = drain[x]
                BY <1>2, <3>2 DEF Iterated
            <4> QED  BY <1>3, <2>1, <2>2, <2>5, <4>1 DEF DrainAccounts
        <3> QED  BY <3>1, <3>2
    <2> QED  BY <2>3, <2>4, <2>6
<1> QED  BY <1>4, <1>6, <1>7 DEF KeepInv

(* processQueue writes what remains: a run that is not stale leaves out only  *)
(* messages nothing is owed to.                                               *)
LEMMA DrainPutKeeps == ASSUME KeepInv, NEW d \in Drains, DrainPut(d) PROVE KeepInv'
<1>1. /\ Ledger /\ Copies /\ drain \in [Drains -> DrainRecord]
      /\ drain[d].remaining \in Seq(Sound)
    BY DEF KeepInv, Copies, DrainRecord
<1>2. /\ drain[d].pc = "send" /\ drain[d].todo = <<>>
      /\ Put(d, drain[d].remaining) /\ drain' = [drain EXCEPT ![d] = NoDrain]
      /\ UNCHANGED <<compose, typed, accepted, delivered, tries, expired>>
    BY DEF DrainPut, fate
<1>3. /\ faults' \in Nat
      /\ faults' = 0 => /\ faults = 0 /\ queue' = drain[d].remaining
                       /\ overwrote' = (overwrote \/ d \in stale)
                       /\ stale' = (stale \union Readers) \ {d}
    BY <1>1, <1>2 DEF Put, Ledger
<1>4. Ledger' /\ Sound' = Sound /\ DrainRecord' = DrainRecord /\ ComposeRecord' = ComposeRecord
    BY <1>1, <1>2, <1>3 DEF Ledger, Sound, DrainRecord, ComposeRecord
<1>5. /\ drain' \in [Drains -> DrainRecord] /\ drain'[d] = NoDrain
      /\ \A x \in Drains \ {d} : drain'[x] = drain[x]
    <2>1. NoDrain \in DrainRecord
        BY EmptySeq DEF NoDrain, DrainRecord
    <2> QED  BY <1>1, <1>2, <2>1
<1>6. Copies'
    <2>1. queue' \in Seq(Sound)
        BY <1>1, <1>2 DEF Put, Copies
    <2> QED  BY <1>1, <1>2, <1>4, <1>5, <2>1 DEF Copies
<1>7. ASSUME Undisturbed'
      PROVE (AcceptedIsKept /\ ComposeAccounts /\ \A x \in Drains : DrainAccounts(x))'
    <2>1. /\ queue' = drain[d].remaining /\ stale' = (stale \union Readers) \ {d}
          /\ d \notin stale
          /\ AcceptedIsKept /\ DrainAccounts(d)
        BY <1>3, <1>7 DEF KeepInv, Undisturbed
    <2>2. \A m \in Ids(queue) : m \in Ids(queue') \/ Over(m)
        BY <1>2, <2>1, IdsEmpty DEF DrainAccounts
    <2>3. AcceptedIsKept'
        BY <1>2, <2>1, <2>2 DEF AcceptedIsKept, Over, Exhausted
    <2>4. ComposeAccounts'
        <3>1. d # "compose"
            BY BoundsAssumption
        <3> QED  BY <1>2, <2>1, <3>1 DEF ComposeAccounts, Readers
    <2>5. ASSUME NEW x \in Drains PROVE DrainAccounts(x)'
        <3>1. CASE x = d
            BY <1>5, <3>1 DEF DrainAccounts, NoDrain
        <3>2. CASE x # d
            BY <1>5, <2>1, <3>2, WriteMarks
        <3> QED  BY <3>1, <3>2
    <2> QED  BY <2>3, <2>4, <2>5
<1> QED  BY <1>4, <1>6, <1>7 DEF KeepInv

(* The day ends: everything stored is given up, and every copy is stale.      *)
LEMMA ExpireKeeps == ASSUME KeepInv, Expire PROVE KeepInv'
<1>1. Ledger /\ Copies
    BY DEF KeepInv
<1>2. /\ queue' = <<>> /\ expired' = expired \union Ids(queue)
      /\ stale' = stale \union Readers
      /\ UNCHANGED <<compose, drain, typed, accepted, delivered, tries, overwrote, faults>>
    BY DEF Expire
<1>3. Ids(queue) \subseteq accepted
    <2>1. \A i \in 1 .. Len(queue) : queue[i] \in Sound
        BY <1>1 DEF Copies
    <2> QED  BY <2>1 DEF Ids, Sound
<1>4. Ledger' /\ Sound' = Sound /\ DrainRecord' = DrainRecord /\ ComposeRecord' = ComposeRecord
    BY <1>1, <1>2, <1>3 DEF Ledger, Sound, DrainRecord, ComposeRecord
<1>5. Copies'
    <2>1. <<>> \in Seq(Sound)
        BY EmptySeq
    <2> QED  BY <1>1, <1>2, <1>4, <2>1 DEF Copies
<1>6. ASSUME Undisturbed'
      PROVE (AcceptedIsKept /\ ComposeAccounts /\ \A x \in Drains : DrainAccounts(x))'
    <2>1. AcceptedIsKept
        BY <1>2, <1>6 DEF KeepInv, Undisturbed
    <2>2. AcceptedIsKept'
        BY <1>2, <2>1 DEF AcceptedIsKept, Exhausted
    <2>3. ComposeAccounts'
        BY <1>2 DEF ComposeAccounts, Readers
    <2>4. \A x \in Drains : DrainAccounts(x)'
        BY <1>2 DEF DrainAccounts, Readers
    <2> QED  BY <2>2, <2>3, <2>4
<1> QED  BY <1>4, <1>5, <1>6 DEF KeepInv

(* A restart forgets every copy and keeps the stored array.                   *)
LEMMA CrashKeeps == ASSUME KeepInv, Crash PROVE KeepInv'
<1>1. Ledger /\ Copies
    BY DEF KeepInv
<1>2. /\ compose' = NoCompose /\ drain' = [d \in Drains |-> NoDrain]
      /\ UNCHANGED <<queue, typed, accepted, delivered, tries, expired, overwrote, faults>>
    BY DEF Crash, fate
<1>3. Ledger' /\ Sound' = Sound /\ DrainRecord' = DrainRecord /\ ComposeRecord' = ComposeRecord
    BY <1>1, <1>2 DEF Ledger, Sound, DrainRecord, ComposeRecord
<1>4. Copies'
    <2>1. NoDrain \in DrainRecord
        BY EmptySeq DEF NoDrain, DrainRecord
    <2> QED  BY <1>1, <1>2, <1>3, <2>1 DEF Copies
<1>5. ASSUME Undisturbed'
      PROVE (AcceptedIsKept /\ ComposeAccounts /\ \A x \in Drains : DrainAccounts(x))'
    <2>1. AcceptedIsKept
        BY <1>2, <1>5 DEF KeepInv, Undisturbed
    <2>2. AcceptedIsKept'
        BY <1>2, <2>1 DEF AcceptedIsKept, Exhausted
    <2>3. ComposeAccounts'
        BY <1>2 DEF ComposeAccounts, NoCompose
    <2>4. \A x \in Drains : DrainAccounts(x)'
        BY <1>2 DEF DrainAccounts, NoDrain
    <2> QED  BY <2>2, <2>3, <2>4
<1> QED  BY <1>3, <1>4, <1>5 DEF KeepInv

(* Every step preserves the invariant.                                        *)
LEMMA NextKeeps == KeepInv /\ [Next]_vars => KeepInv'
<1> SUFFICES ASSUME KeepInv, [Next]_vars PROVE KeepInv'
    OBVIOUS
<1>1. CASE GoOffline \/ GoOnline
    BY <1>1, NetworkKeeps
<1>2. ASSUME NEW i \in Instances, SetOnline(i) PROVE KeepInv'
    BY <1>2, SetOnlineKeeps
<1>3. ASSUME NEW m \in Messages, handleSendMessage(m) PROVE KeepInv'
    BY <1>3, SendKeeps
<1>4. CASE Queueing
    BY <1>4, QueueGetKeeps, QueueSetKeeps DEF Queueing
<1>5. ASSUME NEW d \in Drains, Draining(d) PROVE KeepInv'
    BY <1>5, DrainGetKeeps, DrainSendKeeps, DrainPutKeeps DEF Draining, Storing
<1>6. CASE Expire \/ Crash
    BY <1>6, ExpireKeeps, CrashKeeps
<1>7. CASE UNCHANGED vars
    <2>1. drain \in [Drains -> DrainRecord] /\ typed \subseteq Messages
        BY DEF KeepInv, Copies, Ledger
    <2> QED  BY <1>7, <2>1, OtherStepKeeps DEF vars, fate
<1> QED  BY <1>1, <1>2, <1>3, <1>4, <1>5, <1>6, <1>7 DEF Next

(* For any number of messages, concurrent runs of processQueue, restarts and  *)
(* failed sends: an accepted message disappears undelivered, before its       *)
(* retries and its day are used up, only after an operation has written over  *)
(* what it had not read, or the storage has failed.                           *)
THEOREM OnlyOverlapLoses == Spec => []LossNeedsOverlap
<1>1. Init => KeepInv
    BY InitKeep
<1>2. KeepInv /\ [Next]_vars => KeepInv'
    BY NextKeeps
<1>3. KeepInv => LossNeedsOverlap
    BY KeepImpliesLoss
<1> QED  BY <1>1, <1>2, <1>3, PTL DEF Spec

(* What is left of the type invariant: the hooks' view and the counters.      *)
Counters ==
    /\ net \in BOOLEAN /\ wasOffline \in BOOLEAN /\ overwrote \in BOOLEAN
    /\ online \in [Instances -> BOOLEAN]
    /\ pending \in [Instances -> 0 .. MaxPending]
    /\ crashes \in 0 .. MaxCrashes /\ faults \in 0 .. MaxFaults

(* Every step keeps the counters within their bounds.                         *)
LEMMA NextCounts == Counters /\ [Next]_vars => Counters'
<1> SUFFICES ASSUME Counters, [Next]_vars PROVE Counters'
    OBVIOUS
<1> USE BoundsAssumption DEF Counters
<1>1. CASE GoOffline
    BY <1>1 DEF GoOffline
<1>2. CASE GoOnline
    BY <1>2 DEF GoOnline
<1>3. ASSUME NEW i \in Instances, SetOnline(i) PROVE Counters'
    <2>1. /\ pending' = [pending EXCEPT ![i] = pending[i] - 1] /\ pending[i] > 0
          /\ online' = [online EXCEPT ![i] = TRUE]
          /\ wasOffline' = (wasOffline \/ i = "hook")
          /\ UNCHANGED <<net, overwrote, crashes, faults>>
        BY <1>3 DEF SetOnline
    <2> QED  BY <2>1
<1>4. ASSUME NEW m \in Messages, handleSendMessage(m) PROVE Counters'
    BY <1>4 DEF handleSendMessage, view
<1>s. ASSUME UNCHANGED view, UNCHANGED crashes,
             \/ faults' = faults
             \/ faults < MaxFaults /\ faults' = faults + 1,
             \/ overwrote' = overwrote
             \/ \E p : overwrote' = (overwrote \/ p \in stale)
      PROVE  Counters'
    <2>1. faults' \in 0 .. MaxFaults
        BY <1>s
    <2>2. overwrote' \in BOOLEAN
        BY <1>s, Zenon
    <2> QED  BY <1>s, <2>1, <2>2 DEF view
<1>5. CASE Queueing
    <2>1. CASE QueueGet
        BY <1>s, <2>1, Zenon DEF QueueGet, Get
    <2>2. CASE QueueSet
        BY <1>s, <2>2, Zenon DEF QueueSet, Put
    <2> QED  BY <1>5, <2>1, <2>2 DEF Queueing
<1>6. ASSUME NEW d \in Drains, Draining(d) PROVE Counters'
    <2>1. CASE DrainGet(d)
        BY <1>s, <2>1, Zenon DEF DrainGet, Get
    <2>2. CASE DrainSend(d)
        BY <1>s, <2>2, Zenon DEF DrainSend
    <2>3. CASE DrainPut(d)
        BY <1>s, <2>3, Zenon DEF DrainPut, Put
    <2> QED  BY <1>6, <2>1, <2>2, <2>3 DEF Draining, Storing
<1>7. CASE Expire
    BY <1>7 DEF Expire, view
<1>8. CASE Crash
    <2>1. /\ crashes' = crashes + 1 /\ crashes < MaxCrashes /\ wasOffline' = FALSE
          /\ pending' = [i \in Instances |-> 0]
          /\ UNCHANGED <<net, overwrote, faults>>
        BY <1>8 DEF Crash
    <2>2. online' \in [Instances -> BOOLEAN]
        BY <1>8, Zenon DEF Crash
    <2>3. crashes' \in 0 .. MaxCrashes /\ pending' \in [Instances -> 0 .. MaxPending]
        BY <2>1
    <2> QED  BY <2>1, <2>2, <2>3
<1>9. CASE UNCHANGED vars
    BY <1>9 DEF vars, view
<1> QED  BY <1>1, <1>2, <1>3, <1>4, <1>5, <1>6, <1>7, <1>8, <1>9 DEF Next

(* Every variable keeps its type; in particular the server only ever receives *)
(* messages the alert was shown for.                                          *)
THEOREM TypeCorrect == Spec => []TypeOK
<1>1. Init => KeepInv /\ Counters
    <2>1. 0 \in 0 .. MaxPending /\ 0 \in 0 .. MaxCrashes /\ 0 \in 0 .. MaxFaults
        BY BoundsAssumption
    <2>2. Init => Counters
        BY <2>1, Zenon DEF Init, Counters
    <2> QED  BY <2>2, InitKeep
<1>2. KeepInv /\ Counters /\ [Next]_vars => KeepInv' /\ Counters'
    BY NextKeeps, NextCounts
<1>3. KeepInv /\ Counters => TypeOK
    <2> SUFFICES ASSUME KeepInv, Counters PROVE TypeOK
        OBVIOUS
    <2>1. \A q \in Seq(Sound) : q \in Seq(Entry)
        BY SeqMonotonic DEF Sound
    <2>2. queue \in Seq(Entry)
        BY <2>1 DEF KeepInv, Copies
    <2>3. compose.pc \in {"idle", "get", "set"} /\ compose.copy \in Seq(Entry)
        <3>1. CASE compose = NoCompose
            BY <3>1, EmptySeq DEF NoCompose
        <3>2. CASE compose \in ComposeRecord
            BY <2>1, <3>2 DEF ComposeRecord
        <3> QED  BY <3>1, <3>2 DEF KeepInv, Copies
    <2>4. \A d \in Drains : /\ drain[d].pc \in {"idle", "get", "send"}
                            /\ drain[d].todo \in Seq(Entry)
                            /\ drain[d].remaining \in Seq(Entry)
        BY <2>1 DEF KeepInv, Copies, DrainRecord
    <2> QED  BY <2>2, <2>3, <2>4 DEF KeepInv, Ledger, Counters, TypeOK
<1> QED  BY <1>1, <1>2, <1>3, PTL DEF Spec

--------------------------------------------------------------------------------
(* The refinement of Outbox, for operations that do not overlap and a storage *)
(* that does not fail.                                                        *)

(* One operation is under way at a time, and a reconnect handler of the hook  *)
(* that is suspended will start the only run of processQueue.                 *)
Alone ==
    /\ pending \in [Instances -> Nat] /\ pending["hook"] <= 1
    /\ pending["hook"] > 0 => compose.pc = "idle" /\ \A d \in Drains : drain[d].pc = "idle"
    /\ compose.pc # "idle" => /\ \A d \in Drains : drain[d].pc = "idle"
                              /\ \A i \in Instances : pending[i] = 0
    /\ \A d, x \in Drains : drain[d].pc # "idle" /\ drain[x].pc # "idle" => d = x

(* What the operation has read is what is stored, and a run of processQueue   *)
(* only drops messages that were delivered or have used up their retries.     *)
Current ==
    /\ compose.pc = "set" => compose.copy = queue
    /\ \A d \in Drains : drain[d].pc = "send" =>
          /\ Ids(drain[d].todo) \subseteq Ids(queue)
          /\ Ids(drain[d].remaining) \subseteq Ids(queue)
          /\ \A m \in Ids(queue) : \/ m \in Ids(drain[d].todo)
                                    \/ m \in Ids(drain[d].remaining)
                                    \/ m \in delivered \/ Exhausted(m)

CalmInv == KeepInv /\ Alone /\ Current

(* Initially nothing is under way.                                            *)
LEMMA InitCalm == Init => CalmInv
<1> SUFFICES ASSUME Init PROVE CalmInv
    OBVIOUS
<1>1. KeepInv
    BY InitKeep
<1>2. Alone /\ Current
    BY DEF Init, Alone, Current, NoCompose, NoDrain, Instances
<1> QED  BY <1>1, <1>2 DEF CalmInv

(* The calm steps are steps of the app.                                       *)
LEMMA CalmIsNext == [CalmNext]_vars => [Next]_vars
BY DEF CalmNext, Next

(* Network changes when nothing is under way.                                 *)
LEMMA NetworkCalm ==
    ASSUME CalmInv, Quiet, GoOffline \/ GoOnline
    PROVE  Alone' /\ Current' /\ UNCHANGED Box!vars
<1>1. UNCHANGED <<queue, compose, drain, typed, accepted, delivered, tries, expired>>
    BY DEF GoOffline, GoOnline, fate
<1>2. /\ \A d \in Drains : drain'[d].pc = "idle"
      /\ compose'.pc = "idle"
    BY <1>1 DEF Quiet
<1>3. pending' \in [Instances -> Nat] /\ pending'["hook"] <= 1
    <2>1. pending \in [Instances -> Nat] /\ "hook" \in Instances /\ pending["hook"] = 0
        BY DEF CalmInv, Alone, Quiet, Instances
    <2>2. CASE GoOffline
        BY <2>1, <2>2 DEF GoOffline
    <2>3. CASE GoOnline
        BY <2>1, <2>3 DEF GoOnline
    <2> QED  BY <2>2, <2>3
<1>4. Alone' /\ Current'
    BY <1>2, <1>3 DEF Alone, Current
<1>5. UNCHANGED Box!vars
    BY <1>1 DEF Box!vars
<1> QED  BY <1>4, <1>5

(* A reconnect handler goes on; the hook's starts the one run of processQueue. *)
LEMMA SetOnlineCalm ==
    ASSUME CalmInv, NEW i \in Instances, SetOnline(i)
    PROVE  Alone' /\ Current' /\ UNCHANGED Box!vars
<1>1. UNCHANGED <<queue, compose, typed, accepted, delivered, tries, expired>>
    BY DEF SetOnline, fate
<1>2. /\ pending \in [Instances -> Nat] /\ "hook" \in Instances
      /\ pending' \in [Instances -> Nat] /\ pending[i] > 0
      /\ pending' = [pending EXCEPT ![i] = pending[i] - 1]
      /\ drain \in [Drains -> DrainRecord]
    BY DEF SetOnline, CalmInv, Alone, Instances, KeepInv, Copies
<1>3. compose.pc = "idle"
    BY <1>2 DEF CalmInv, Alone
<1>4. CASE UNCHANGED drain
    <2>1. pending'["hook"] <= 1 /\ (pending'["hook"] > 0 => pending["hook"] > 0)
        BY <1>2 DEF CalmInv, Alone
    <2>2. Alone'
        BY <1>1, <1>2, <1>3, <1>4, <2>1 DEF CalmInv, Alone
    <2>3. Current'
        BY <1>1, <1>4 DEF CalmInv, Current, Exhausted
    <2> QED  BY <1>1, <2>2, <2>3 DEF Box!vars
<1>5. ASSUME i = "hook", NEW d \in Drains, drain' = [drain EXCEPT ![d].pc = "get"]
      PROVE  Alone' /\ Current' /\ UNCHANGED Box!vars
    <2>1. pending'["hook"] = 0 /\ \A x \in Drains : drain[x].pc = "idle"
        BY <1>2, <1>5 DEF CalmInv, Alone
    <2>2. \A x \in Drains : drain'[x].pc = IF x = d THEN "get" ELSE "idle"
        BY <1>2, <1>5, <2>1 DEF DrainRecord
    <2>3. Alone'
        BY <1>1, <1>2, <1>3, <2>1, <2>2 DEF Alone
    <2>4. Current'
        BY <1>1, <1>3, <2>2 DEF Current
    <2> QED  BY <1>1, <2>3, <2>4 DEF Box!vars
<1> QED  BY <1>4, <1>5 DEF SetOnline

(* The user presses send when nothing is under way.                           *)
LEMMA SendCalm ==
    ASSUME CalmInv, Quiet, NEW m \in Messages, handleSendMessage(m)
    PROVE  Alone' /\ Current' /\ UNCHANGED Box!vars
<1>1. UNCHANGED <<pending, queue, drain, accepted, delivered, tries, expired>>
    BY DEF handleSendMessage, view
<1>2. /\ compose'.pc \in {"idle", "get"}
      /\ \A d \in Drains : drain'[d].pc = "idle"
      /\ \A i \in Instances : pending'[i] = 0
    BY <1>1 DEF handleSendMessage, Quiet
<1>3. pending' \in [Instances -> Nat] /\ pending'["hook"] = 0
    BY <1>1, <1>2 DEF CalmInv, Alone, Instances
<1>4. Alone' /\ Current'
    BY <1>2, <1>3 DEF Alone, Current
<1> QED  BY <1>1, <1>4 DEF Box!vars

(* queueMessage reads what is stored.                                         *)
LEMMA QueueGetCalm ==
    ASSUME CalmInv, faults' = 0, QueueGet
    PROVE  Alone' /\ Current' /\ UNCHANGED Box!vars
<1>1. UNCHANGED <<pending, queue, drain, accepted, delivered, tries, expired>>
    BY DEF QueueGet, view, fate
<1>2. compose.pc = "get" /\ compose \in ComposeRecord /\ faults \in Nat
    BY DEF QueueGet, CalmInv, KeepInv, Copies, Ledger, NoCompose
<1>3. compose' = [compose EXCEPT !.pc = "set", !.copy = queue]
    <2>1. PICK copy \in {queue, <<>>} :
              Get(copy) /\ compose' = [compose EXCEPT !.pc = "set", !.copy = copy]
        BY DEF QueueGet
    <2>2. copy = queue
        BY <1>2, <2>1 DEF Get
    <2> QED  BY <2>1, <2>2
<1>4. compose'.pc = "set" /\ compose'.copy = queue
    BY <1>2, <1>3 DEF ComposeRecord
<1>5. /\ \A d \in Drains : drain[d].pc = "idle"
      /\ \A i \in Instances : pending[i] = 0
      /\ pending \in [Instances -> Nat] /\ "hook" \in Instances
    BY <1>2 DEF CalmInv, Alone, Instances
<1>6. Alone' /\ Current'
    BY <1>1, <1>4, <1>5 DEF Alone, Current
<1> QED  BY <1>1, <1>6 DEF Box!vars

(* queueMessage writes: the outbox accepts the message.                       *)
LEMMA QueueSetCalm ==
    ASSUME CalmInv, faults' = 0, QueueSet
    PROVE  Alone' /\ Current' /\ Box!Next
<1> DEFINE e == [msg |-> compose.msg, retryCount |-> 0]
<1>1. /\ compose.pc = "set" /\ compose \in ComposeRecord /\ faults \in Nat
      /\ compose.copy = queue /\ queue \in Seq(Sound) /\ typed \subseteq Messages
    BY DEF QueueSet, CalmInv, KeepInv, Copies, Ledger, NoCompose, Current
<1>2. queue' = Append(queue, e)
    BY <1>1 DEF QueueSet, Put
<1>3. /\ compose' = NoCompose /\ accepted' = accepted \union {compose.msg}
      /\ UNCHANGED <<pending, drain, delivered, tries, expired>>
    BY DEF QueueSet, view
<1>4. compose.msg \in Messages /\ compose.msg \notin accepted
    BY <1>1 DEF ComposeRecord
<1>5. Ids(queue') = Ids(queue) \union {compose.msg}
    <2>1. queue \in Seq(Entry)
        BY <1>1, SeqMonotonic DEF Sound
    <2>2. e \in Entry /\ e.msg = compose.msg
        BY <1>4, BoundsAssumption DEF Entry
    <2> HIDE DEF e
    <2> QED  BY <1>2, <2>1, <2>2, IdsAppend
<1>6. Box!Accept(compose.msg)
    BY <1>3, <1>4, <1>5 DEF Box!Accept
<1>7. Box!Next
    BY <1>4, <1>6 DEF Box!Next
<1>8. /\ \A d \in Drains : drain[d].pc = "idle"
      /\ \A i \in Instances : pending[i] = 0
      /\ pending \in [Instances -> Nat] /\ "hook" \in Instances
    BY <1>1 DEF CalmInv, Alone, Instances
<1>9. Alone' /\ Current'
    BY <1>3, <1>8 DEF Alone, Current, NoCompose
<1> QED  BY <1>7, <1>9

(* A run of processQueue that is under way is the only operation.             *)
LEMMA OnlyDrain ==
    ASSUME CalmInv, NEW d \in Drains, drain[d].pc # "idle"
    PROVE  /\ compose.pc = "idle" /\ pending["hook"] = 0
           /\ \A x \in Drains \ {d} : drain[x].pc = "idle"
           /\ pending \in [Instances -> Nat]
<1>1. pending["hook"] \in Nat
    BY DEF CalmInv, Alone, Instances
<1> QED  BY <1>1 DEF CalmInv, Alone

(* It stays so when the step is one of that run.                              *)
LEMMA DrainStaysAlone ==
    ASSUME CalmInv, NEW d \in Drains, drain[d].pc # "idle",
           UNCHANGED <<pending, compose>>, \A x \in Drains \ {d} : drain'[x] = drain[x]
    PROVE  Alone'
<1>1. /\ compose.pc = "idle" /\ pending["hook"] = 0
      /\ \A x \in Drains \ {d} : drain[x].pc = "idle"
      /\ pending \in [Instances -> Nat]
    BY OnlyDrain
<1> QED  BY <1>1 DEF Alone

(* getQueue of processQueue returns what is stored.                           *)
LEMMA DrainGetCalm ==
    ASSUME CalmInv, faults' = 0, NEW d \in Drains, DrainGet(d)
    PROVE  Alone' /\ Current' /\ UNCHANGED Box!vars
<1>1. UNCHANGED <<pending, queue, compose, accepted, delivered, tries, expired>>
    BY DEF DrainGet, view, fate
<1>2. drain[d].pc = "get" /\ drain \in [Drains -> DrainRecord] /\ faults \in Nat
    BY DEF DrainGet, CalmInv, KeepInv, Copies, Ledger
<1>3. drain' = [drain EXCEPT ![d] = IF queue = <<>> THEN NoDrain
                    ELSE [pc |-> "send", todo |-> queue, remaining |-> <<>>]]
    <2>1. PICK copy \in {queue, <<>>} :
              /\ Get(copy)
              /\ drain' = [drain EXCEPT ![d] =
                    IF copy = <<>> THEN NoDrain
                    ELSE [pc |-> "send", todo |-> copy, remaining |-> <<>>]]
        BY DEF DrainGet
    <2>2. copy = queue
        BY <1>2, <2>1 DEF Get
    <2> QED  BY <2>1, <2>2
<1>4. /\ \A x \in Drains \ {d} : drain'[x] = drain[x]
      /\ drain'[d] = IF queue = <<>> THEN NoDrain
                     ELSE [pc |-> "send", todo |-> queue, remaining |-> <<>>]
    BY <1>2, <1>3
<1>5. Alone'
    BY <1>1, <1>2, <1>4, DrainStaysAlone
<1>6. \A x \in Drains \ {d} : drain'[x].pc = "idle"
    BY <1>2, <1>4, OnlyDrain
<1>7. /\ drain'[d].pc = "send" => drain'[d].todo = queue /\ drain'[d].remaining = <<>>
      /\ compose'.pc = "idle"
    BY <1>1, <1>2, <1>4, OnlyDrain DEF NoDrain
<1>8. Current'
    BY <1>1, <1>6, <1>7, IdsEmpty DEF Current
<1> QED  BY <1>1, <1>5, <1>8 DEF Box!vars

(* One iteration is an attempt of the outbox on a message it holds.           *)
LEMMA DrainSendCalm ==
    ASSUME CalmInv, NEW d \in Drains, DrainSend(d)
    PROVE  Alone' /\ Current' /\ Box!Next
<1> DEFINE m == Head(drain[d].todo).msg
<1>1. UNCHANGED <<pending, queue, compose, accepted, expired>> /\ drain[d].pc = "send"
    BY DEF DrainSend, view
<1>2. Ledger /\ Copies /\ Iterated(d) /\ m \in Messages
    <2>1. Ledger /\ Copies /\ Iterated(d)
        BY DrainIterates DEF CalmInv, KeepInv
    <2> QED  BY <2>1 DEF Iterated, Sound, Entry
<1>3. m \in Ids(queue)
    BY <1>1, <1>2 DEF Iterated, CalmInv, Current
<1>4. /\ delivered' \in {delivered, delivered \union {m}}
      /\ tries' \in {tries, Counted(m)}
    BY DEF DrainSend
<1>5. Box!Attempt(m)
    BY <1>1, <1>3, <1>4 DEF Box!Attempt, Counted
<1>6. Box!Next
    BY <1>2, <1>5 DEF Box!Next
<1>7. Alone'
    BY <1>1, <1>2, DrainStaysAlone DEF Iterated
<1>8. Current'
    <2>1. /\ \A x \in Drains \ {d} : drain'[x].pc = "idle"
          /\ compose'.pc = "idle"
        BY <1>1, <1>2, OnlyDrain DEF Iterated
    <2>2. /\ Ids(drain[d].todo) \subseteq Ids(queue)
          /\ Ids(drain[d].remaining) \subseteq Ids(queue)
          /\ \A n \in Ids(queue) : \/ n \in Ids(drain[d].todo)
                                    \/ n \in Ids(drain[d].remaining)
                                    \/ n \in delivered \/ Exhausted(n)
        BY <1>1 DEF CalmInv, Current
    <2>3. Ids(drain'[d].todo) \subseteq Ids(queue) /\ Ids(drain'[d].remaining) \subseteq Ids(queue)
        BY <1>2, <1>3, <2>2 DEF Iterated
    <2>4. Ids(queue) \subseteq Messages
        <3>1. \A i \in 1 .. Len(queue) : queue[i] \in Sound
            BY <1>2 DEF Copies
        <3> QED  BY <3>1 DEF Ids, Sound, Entry
    <2>5. ASSUME NEW n \in Ids(queue)
          PROVE  \/ n \in Ids(drain'[d].todo) \/ n \in Ids(drain'[d].remaining)
                 \/ n \in delivered' \/ tries'[n] > RetryLimit
        <3>1. CASE n \in Ids(drain[d].todo)
            BY <1>2, <3>1 DEF Iterated
        <3>2. CASE n \in Ids(drain[d].remaining)
            BY <1>2, <3>2 DEF Iterated
        <3>3. CASE n \in delivered
            BY <1>2, <3>3 DEF Iterated
        <3>4. CASE Exhausted(n)
            <4>1. /\ n \in Messages /\ tries[n] <= tries'[n] /\ tries[n] > RetryLimit
                  /\ tries[n] \in Nat /\ tries'[n] \in Nat /\ RetryLimit \in Nat
                BY <1>2, <2>4, <3>4, BoundsAssumption DEF Iterated, Exhausted, Ledger
            <4> QED  BY <4>1
        <3> QED  BY <2>2, <3>1, <3>2, <3>3, <3>4
    <2> QED  BY <1>1, <2>1, <2>3, <2>5 DEF Current, Exhausted
<1> QED  BY <1>6, <1>7, <1>8

(* The write at the end of processQueue releases what was done with.          *)
LEMMA DrainPutCalm ==
    ASSUME CalmInv, faults' = 0, NEW d \in Drains, DrainPut(d)
    PROVE  Alone' /\ Current' /\ Box!Next
<1>1. /\ drain[d].pc = "send" /\ drain[d].todo = <<>> /\ drain \in [Drains -> DrainRecord]
      /\ faults \in Nat /\ drain' = [drain EXCEPT ![d] = NoDrain]
      /\ UNCHANGED <<pending, compose, accepted, delivered, tries, expired>>
    BY DEF DrainPut, CalmInv, KeepInv, Copies, Ledger, view, fate
<1>2. queue' = drain[d].remaining
    BY <1>1 DEF DrainPut, Put
<1>3. /\ Ids(queue') \subseteq Ids(queue)
      /\ \A m \in Ids(queue) \ Ids(queue') : m \in delivered \/ tries[m] > RetryLimit
    BY <1>1, <1>2, IdsEmpty DEF CalmInv, Current, Exhausted
<1>4. Box!Release
    <2> DEFINE ms == Ids(queue) \ Ids(queue')
    <2>1. ms \in SUBSET Ids(queue) /\ Ids(queue') = Ids(queue) \ ms
        BY <1>3
    <2>2. \A m \in ms : Box!Done(m)
        BY <1>3 DEF Box!Done
    <2> HIDE DEF ms
    <2> QED  BY <1>1, <2>1, <2>2 DEF Box!Release
<1>5. Box!Next
    BY <1>4 DEF Box!Next
<1>6. drain'[d] = NoDrain /\ \A x \in Drains \ {d} : drain'[x] = drain[x]
    BY <1>1
<1>7. Alone'
    BY <1>1, <1>6, DrainStaysAlone
<1>8. compose'.pc = "idle" /\ \A x \in Drains : drain'[x].pc = "idle"
    BY <1>1, <1>6, OnlyDrain DEF NoDrain
<1>9. Current'
    BY <1>8 DEF Current
<1> QED  BY <1>5, <1>7, <1>9

(* The stored entry expires when nothing is under way.                        *)
LEMMA ExpireCalm ==
    ASSUME CalmInv, Quiet, Expire
    PROVE  Alone' /\ Current' /\ Box!Next
<1>1. /\ queue' = <<>> /\ expired' = expired \union Ids(queue)
      /\ UNCHANGED <<pending, compose, drain, accepted, delivered, tries>>
    BY DEF Expire, view
<1>2. Box!Expire
    BY <1>1, IdsEmpty DEF Box!Expire
<1>3. Box!Next
    BY <1>2 DEF Box!Next
<1>4. Alone'
    BY <1>1 DEF CalmInv, Alone
<1>5. Current'
    BY <1>1 DEF Quiet, Current
<1> QED  BY <1>3, <1>4, <1>5

(* A restart leaves the outbox as it is.                                      *)
LEMMA CrashCalm ==
    ASSUME CalmInv, Crash
    PROVE  Alone' /\ Current' /\ UNCHANGED Box!vars
<1>1. /\ compose' = NoCompose /\ drain' = [d \in Drains |-> NoDrain]
      /\ pending' = [i \in Instances |-> 0]
      /\ UNCHANGED <<queue, accepted, delivered, tries, expired>>
    BY DEF Crash, fate
<1>2. compose'.pc = "idle" /\ \A d \in Drains : drain'[d].pc = "idle"
    BY <1>1 DEF NoCompose, NoDrain
<1>3. pending' \in [Instances -> Nat] /\ pending'["hook"] = 0
    BY <1>1 DEF Instances
<1>4. Alone' /\ Current'
    BY <1>2, <1>3 DEF Alone, Current
<1> QED  BY <1>1, <1>4 DEF Box!vars

(* Every calm step preserves the invariant and is a step of the outbox, or    *)
(* none.                                                                      *)
LEMMA CalmStep ==
    CalmInv /\ [CalmNext]_vars /\ (faults = 0)' => CalmInv' /\ [Box!Next]_(Box!vars)
<1> SUFFICES ASSUME CalmInv, [CalmNext]_vars, faults' = 0
             PROVE  CalmInv' /\ [Box!Next]_(Box!vars)
    OBVIOUS
<1>1. KeepInv'
    BY CalmIsNext, NextKeeps DEF CalmInv
<1>2. Alone' /\ Current' /\ [Box!Next]_(Box!vars)
    <2>1. CASE Quiet /\ (GoOffline \/ GoOnline)
        BY <2>1, NetworkCalm
    <2>2. CASE Quiet /\ Expire
        BY <2>2, ExpireCalm
    <2>3. ASSUME Quiet, NEW m \in Messages, handleSendMessage(m)
          PROVE  Alone' /\ Current' /\ [Box!Next]_(Box!vars)
        BY <2>3, SendCalm
    <2>4. ASSUME NEW i \in Instances, SetOnline(i)
          PROVE  Alone' /\ Current' /\ [Box!Next]_(Box!vars)
        BY <2>4, SetOnlineCalm
    <2>5. CASE Queueing
        BY <2>5, QueueGetCalm, QueueSetCalm DEF Queueing
    <2>6. ASSUME NEW d \in Drains, Draining(d)
          PROVE  Alone' /\ Current' /\ [Box!Next]_(Box!vars)
        BY <2>6, DrainGetCalm, DrainSendCalm, DrainPutCalm DEF Draining, Storing
    <2>7. CASE Crash
        BY <2>7, CrashCalm
    <2>8. CASE UNCHANGED vars
        <3>1. UNCHANGED <<pending, queue, compose, drain, accepted, delivered, tries, expired>>
            BY <2>8 DEF vars, view, fate
        <3>2. Alone' /\ Current'
            BY <3>1 DEF CalmInv, Alone, Current, Exhausted
        <3> QED  BY <3>1, <3>2 DEF Box!vars
    <2> QED  BY <2>1, <2>2, <2>3, <2>4, <2>5, <2>6, <2>7, <2>8 DEF CalmNext
<1> QED  BY <1>1, <1>2 DEF CalmInv

(* As long as operations on the queue do not overlap and the storage does not *)
(* fail, the queue keeps the promise of Outbox: what it has accepted it holds *)
(* until it is delivered, has used up its retries or its day is over, for any *)
(* number of messages, restarts and lost answers.                             *)
THEOREM QueueIsOutbox == CalmSpec /\ [](faults = 0) => RefinesOutbox
<1>1. Init => CalmInv
    BY InitCalm
<1>2. Init => Box!Init
    BY IdsEmpty DEF Init, Box!Init
<1>3. CalmInv /\ [CalmNext]_vars /\ (faults = 0)' => CalmInv' /\ [Box!Next]_(Box!vars)
    BY CalmStep
<1> QED  BY <1>1, <1>2, <1>3, PTL DEF CalmSpec, RefinesOutbox, Box!Spec
================================================================================
