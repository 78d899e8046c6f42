----------------------------- MODULE PublishOnce ------------------------------
(***************************************************************************)
(* What an idempotency key promises its client: of all the attempts made    *)
(* with the key at most one takes effect, its effect is never taken back,   *)
(* and success is reported only when one has.                               *)
(***************************************************************************)
CONSTANTS Requests, Attempts, RequestOf

VARIABLES
    published,  \* the attempts that took effect
    answered    \* the requests whose client was told of success

Init == published = {} /\ answered = {}

Publish(a) ==
    /\ \A b \in published : RequestOf[b] # RequestOf[a]
    /\ published' = published \cup {a}
    /\ UNCHANGED answered

Answer(r) ==
    /\ \E a \in published : RequestOf[a] = r
    /\ answered' = answered \cup {r}
    /\ UNCHANGED published

Next == (\E a \in Attempts : Publish(a)) \/ (\E r \in Requests : Answer(r))
Spec == Init /\ [][Next]_<<published, answered>>
=============================================================================
