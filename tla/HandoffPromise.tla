--------------------------- MODULE HandoffPromise ---------------------------
(***************************************************************************)
(* What the next-job hand-off promises the agent it hands a task to: the   *)
(* prompt of a hand-off is typed into the pane at most once, whatever dies *)
(* in between; it is never typed once the hand-off is closed; `sent` is    *)
(* never reported of a prompt nobody typed; and a verdict is final, except *)
(* that a sent hand-off is called cancelled when its task has ended.       *)
(***************************************************************************)
EXTENDS Naturals

CONSTANT Msgs    \* the hand-offs

VARIABLES
    offered,     \* hand-offs the journal knows
    typed,       \* how often the prompt of a hand-off has been typed
    verdict      \* what has been reported of it

vars == <<offered, typed, verdict>>

Verdicts == {"sent", "undeliverable", "cancelled"}

Init ==
    /\ offered = {}
    /\ typed = [m \in Msgs |-> 0]
    /\ verdict = [m \in Msgs |-> "open"]

\* A hand-off is journalled.
Offer(m) ==
    /\ m \notin offered
    /\ offered' = offered \cup {m}
    /\ UNCHANGED <<typed, verdict>>

\* The prompt is typed: only while the hand-off is open, and only once.
Type(m) ==
    /\ m \in offered
    /\ typed[m] = 0
    /\ verdict[m] = "open"
    /\ typed' = [typed EXCEPT ![m] = 1]
    /\ UNCHANGED <<offered, verdict>>

\* The hand-off is closed.
Close(m, v) ==
    /\ m \in offered
    /\ verdict[m] = "open"
    /\ v = "sent" => typed[m] = 1
    /\ verdict' = [verdict EXCEPT ![m] = v]
    /\ UNCHANGED <<offered, typed>>

\* The task of a sent hand-off has ended.
Retire(m) ==
    /\ verdict[m] = "sent"
    /\ verdict' = [verdict EXCEPT ![m] = "cancelled"]
    /\ UNCHANGED <<offered, typed>>

Next ==
    \E m \in Msgs :
        Offer(m) \/ Type(m) \/ Retire(m) \/ \E v \in Verdicts : Close(m, v)

Spec == Init /\ [][Next]_vars
=============================================================================
