---------------------------- MODULE DataDelivery ----------------------------
(***************************************************************************)
(* What the sender side of the agent promises about collected data         *)
(* (spec.md sections 4.8 and 7): a payload handed over by a producer, or   *)
(* left in storage by an earlier run, is pending until it is delivered to *)
(* the cloud or, when its scheme does not ask for persistence, dropped     *)
(* after a failed send.  It is delivered at most once and only after it   *)
(* was handed over.  Whether it waits in a queue or in persistent storage *)
(* meanwhile is not visible at this level.                                 *)
(***************************************************************************)
CONSTANTS
    Payloads,       \* payloads the producers may hand over
    StoredAtStart,  \* payloads pending from an earlier run
    Discardable     \* payloads of schemes with persist_flag unset

VARIABLES
    pending,        \* handed over, neither delivered nor lost
    delivered,      \* delivered to the cloud
    lost            \* dropped after a failed send

vars == <<pending, delivered, lost>>

Init ==
    /\ pending = StoredAtStart
    /\ delivered = {}
    /\ lost = {}

\* A producer hands over a payload it has not handed over before.
Submit(p) ==
    /\ p \notin pending \cup delivered \cup lost
    /\ pending' = pending \cup {p}
    /\ UNCHANGED <<delivered, lost>>

\* Some pending payloads are delivered at once.
Deliver(S) ==
    /\ S # {}
    /\ S \subseteq pending
    /\ pending' = pending \ S
    /\ delivered' = delivered \cup S
    /\ UNCHANGED lost

\* Some pending payloads that need not persist are dropped.
Discard(S) ==
    /\ S # {}
    /\ S \subseteq pending \cap Discardable
    /\ pending' = pending \ S
    /\ lost' = lost \cup S
    /\ UNCHANGED delivered

Next ==
    \/ \E p \in Payloads : Submit(p)
    \/ \E S \in SUBSET pending : Deliver(S) \/ Discard(S)

Spec == Init /\ [][Next]_vars

=============================================================================
