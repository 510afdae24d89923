------------------------------- MODULE Lease -------------------------------
(***************************************************************************)
(* What the conversation lock promises its callers, with no key, token,    *)
(* timeout or retry: per resource at most one call owns the lease at a     *)
(* time, ownership never passes straight from one call to another, and a   *)
(* call owns the lease during one uninterrupted stretch at most.           *)
(***************************************************************************)
CONSTANTS
    Call,        \* calls of acquire(); each of them mints a token of its own
    Resource,    \* resource ids (conversation ids)
    None,        \* no owner
    ResourceOf   \* the resource each call asks for

VARIABLES
    owner,   \* owner[r]: the call that owns the lease of r, or None
    spent    \* calls that have had their stretch, or never will

leaseVars == <<owner, spent>>

Init ==
    /\ owner = [r \in Resource |-> None]
    /\ spent = {}

\* A free lease is granted to a call that was never granted one.
Grant(c) ==
    /\ c \notin spent
    /\ owner[ResourceOf[c]] = None
    /\ owner' = [owner EXCEPT ![ResourceOf[c]] = c]
    /\ spent' = spent \cup {c}

\* A call stops asking.
Forgo(c) ==
    /\ c \notin spent
    /\ spent' = spent \cup {c}
    /\ UNCHANGED owner

\* The leases of some calls end, by release or by expiry.
End(S) ==
    /\ S # {}
    /\ \A c \in S : owner[ResourceOf[c]] = c
    /\ owner' = [r \in Resource |-> IF owner[r] \in S THEN None ELSE owner[r]]
    /\ UNCHANGED spent

Next ==
    \/ \E c \in Call : Grant(c) \/ Forgo(c)
    \/ \E S \in SUBSET Call : End(S)

Spec == Init /\ [][Next]_leaseVars
=============================================================================
