--------------------------------- MODULE Outbox --------------------------------
(* What an outbox for messages written offline promises its user, apart from  *)
(* how it is stored and drained: a message it has accepted stays held until   *)
(* it has been delivered at least once, or has failed more often than the     *)
(* retry limit, or the day it is kept for is over.                            *)
EXTENDS Naturals

CONSTANTS Messages, RetryLimit

VARIABLES
    held,       \* messages the outbox answers for
    accepted,   \* messages it has told the user it will send
    delivered,  \* messages the server has received
    expired,    \* messages given up because their day was over
    tries       \* failed attempts, counted up to one past the limit

vars == <<held, accepted, delivered, expired, tries>>

Init == /\ held = {} /\ accepted = {} /\ delivered = {} /\ expired = {}
        /\ tries = [m \in Messages |-> 0]

Accept(m) ==
    /\ m \notin accepted
    /\ held' = held \union {m}
    /\ accepted' = accepted \union {m}
    /\ UNCHANGED <<delivered, expired, tries>>

\* The server may have received a message whose attempt failed.
Attempt(m) ==
    /\ m \in held
    /\ delivered' \in {delivered, delivered \union {m}}
    /\ tries' \in {tries, [tries EXCEPT ![m] = IF @ > RetryLimit THEN @ ELSE @ + 1]}
    /\ UNCHANGED <<held, accepted, expired>>

Done(m) == m \in delivered \/ tries[m] > RetryLimit

Release ==
    /\ \E ms \in SUBSET held : /\ \A m \in ms : Done(m)
                               /\ held' = held \ ms
    /\ UNCHANGED <<accepted, delivered, expired, tries>>

Expire ==
    /\ held' = {}
    /\ expired' = expired \union held
    /\ UNCHANGED <<accepted, delivered, tries>>

Next == \/ \E m \in Messages : Accept(m) \/ Attempt(m)
        \/ Release
        \/ Expire

Spec == Init /\ [][Next]_vars
================================================================================
