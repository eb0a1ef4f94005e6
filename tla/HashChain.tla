------------------------------ MODULE HashChain ------------------------------
(***************************************************************************)
(* What the audit log promises whatever happens to the calls that write    *)
(* it: events are linked once, a link is never rewritten or removed, and   *)
(* no two events are linked to one predecessor ("without forking",         *)
(* services/domainEvent.service.js).  AuditChain implements it.            *)
(***************************************************************************)
EXTENDS Naturals, Sequences

CONSTANT Keys

VARIABLE links   \* the linked events: key, seq, prev and hash

Init == links = {}

Extend(k, seq, prev) ==
    /\ \A e \in links : e.key # k /\ e.seq # seq /\ e.prev # prev
    /\ seq = Len(prev) + 1
    /\ links' = links \cup {[key |-> k, seq |-> seq, prev |-> prev,
                             hash |-> Append(prev, <<seq, k>>)]}

\* The link that appeared says which event was linked, and where.
Next ==
    \E e \in links' \ links : e.key \in Keys /\ Extend(e.key, e.seq, e.prev)

Spec == Init /\ [][Next]_links
=============================================================================
