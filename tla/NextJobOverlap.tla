--------------------------- MODULE NextJobOverlap ----------------------------
(* What daemons that run beside each other may do to one hand-off, in any    *)
(* number, with receipts that cannot be read and calls that fail.            *)
EXTENDS NextJobProofs, FiniteSetTheorems

-----------------------------------------------------------------------------
\* The inductive invariants

\* The stages of an attempt that may still be given back, or typed.
Untyped == {"reserved", "ready", "armed", "releasing"}
Attempting(m) == {p \in Procs : worker[p].msg = m /\ worker[p].at \in Untyped}

\* A daemon recovers a hand-off in the pass it starts with, and once.
CanRecover(p, m) ==
    /\ worker[p].restart
    /\ \/ m \in worker[p].todo
       \/ worker[p].msg = m /\ worker[p].at \in {"loaded", "interrupted"}
Spent(m) == {p \in Procs : up[p] # "new" /\ ~CanRecover(p, m)}

\* What a worker remembers fits where it is.
Tidy(p) ==
    /\ worker[p].at = "idle" <=> worker[p].msg = NoMsg
    /\ worker[p].msg \notin worker[p].todo
    /\ worker[p].at = "interrupted" => worker[p].restart
    /\ ~Running(p) => worker[p] = IdleWorker
    /\ \A m \in Msgs : m \in worker[p].todo \/ worker[p].msg = m => journal[m].state # "none"

\* An attempt has the daemon that reserved it as its owner.
Known(h) == h.state = "sending" => h.owner \in Procs /\ up[h.owner] # "new"

\* What was typed, and what still may be without a recovery, is paid for by the daemons that
\* have their recovery behind them.
Waiting(m) == IF journal[m].state = "pending" THEN 1 ELSE 0
Budget(m) ==
    /\ typed[m] + Cardinality(Attempting(m)) + Waiting(m) <= Cardinality(Spent(m))
    /\ journal[m].state = "none" => typed[m] = 0

OverlapInv ==
    /\ \A p \in Procs : Tidy(p) /\ Known(worker[p].h)
    /\ \A m \in Msgs : Budget(m) /\ Known(journal[m])

\* While no daemon has died: no attempt is recovered, and one daemon at most is in an attempt.
AllAlive == \A p \in Procs : up[p] # "gone"
Apart(m) ==
    /\ journal[m].state \in {"none", "pending"} => typed[m] = 0 /\ Attempting(m) = {}
    /\ typed[m] = 0 \/ Attempting(m) = {}
    /\ \A p, q \in Attempting(m) : p = q
    /\ typed[m] <= 1
AliveInv ==
    AllAlive => /\ \A p \in Procs : worker[p].at # "interrupted"
                /\ \A m \in Msgs : Apart(m)

-----------------------------------------------------------------------------
\* Steps inside `deliver`

\* How a hand-off gets from one stage to the next: what was J, T and w becomes K, U and v.
\* Nothing new may be typed, or an attempt is reserved, given back or typed, or a recovery
\* reopens one.
Moves(J, T, w, K, U, v) ==
    \/ /\ U = T /\ (K.state = "pending" => J.state = "pending")
       /\ v.at \in Untyped => w.at \in Untyped
    \/ /\ U = T /\ J.state = "pending" /\ K.state = "sending"
       /\ w.at = "loaded" /\ v.at = "reserved"
    \/ /\ U = T /\ K.state = "pending"
       /\ w.at = "releasing" /\ v.at = "idle"
    \/ /\ U = T + 1 /\ K = J
       /\ w.at = "armed" /\ v.at = "typed"
    \/ /\ U = T /\ K.state = "pending"
       /\ w.at = "interrupted" /\ v.at = "idle"

\* What a step of the worker of p inside `deliver` for m leaves alone, and what it may do.
DeliverStep(p, m) ==
    LET w == worker[p]
        v == worker'[p]
    IN  /\ Running(p) /\ up' = up
        /\ \A n \in Msgs \ {m} : journal'[n] = journal[n] /\ typed'[n] = typed[n]
        /\ \A q \in Procs \ {p} : worker'[q] = worker[q]
        /\ v.restart = w.restart
        /\ \/ w.at = "idle" /\ m \in w.todo /\ v.todo = w.todo \ {m}
           \/ w.at # "idle" /\ w.msg = m /\ v.todo = w.todo
        /\ \/ v.at = "idle" /\ v.msg = NoMsg
           \/ v.at # "idle" /\ v.msg = m
        /\ v.at = "loaded" => w.at = "idle"
        /\ v.at = "interrupted" =>
              w.at = "loaded" /\ w.restart /\ w.h.state = "sending" /\ OwnerDead(w.h)
        /\ v.h.state = "sending" => v.h \in {w.h, journal[m], journal'[m]}
        /\ journal'[m].state = "sending" =>
              \/ journal[m].state = "sending" /\ journal'[m].owner = journal[m].owner
              \/ journal'[m].owner = p
        /\ journal'[m].state = "none" => journal[m].state = "none"
        /\ Moves(journal[m], typed[m], w, journal'[m], typed'[m], v)

\* `deliver` goes on to another stage, with the journal as it is.
LEMMA GoesOn ==
    ASSUME TypeOK, NEW p \in Procs, NEW m \in Msgs, NEW stage \in Stages \ {"idle"},
           At(p, m, stage), NEW next \in Stages \ {"idle", "loaded", "interrupted"},
           Goto(p, next) \/ \E why : worker' = [worker EXCEPT ![p].at = next, ![p].reason = why],
           next \in Untyped => stage \in Untyped,
           UNCHANGED <<journal, typed, up>>
    PROVE  DeliverStep(p, m)
<1>1. worker \in [Procs -> Worker] /\ worker[p] \in Worker
    BY DEF TypeOK
<1>2. /\ \A q \in Procs \ {p} : worker'[q] = worker[q]
      /\ worker'[p].at = next /\ worker'[p].msg = worker[p].msg
      /\ worker'[p].restart = worker[p].restart /\ worker'[p].todo = worker[p].todo
      /\ worker'[p].h = worker[p].h
    BY <1>1 DEF Goto, Worker
<1> QED
    BY <1>2 DEF DeliverStep, At, Moves

\* The receipt of an interrupted attempt is read, or cannot be.
LEMMA Interrupts ==
    ASSUME TypeOK, NEW p \in Procs, NEW m \in Msgs, ReadReceipt(p, m) \/ ReceiptUnreadable(p, m)
    PROVE  DeliverStep(p, m)
<1>1. worker \in [Procs -> Worker] /\ worker[p] \in Worker
    BY DEF TypeOK
<1>2. /\ At(p, m, "loaded") /\ worker[p].restart /\ worker[p].h.state = "sending"
      /\ OwnerDead(worker[p].h) /\ UNCHANGED <<journal, typed, up>>
      /\ \E r : worker' = [worker EXCEPT ![p].at = "interrupted", ![p].r = r]
    BY DEF ReadReceipt, ReceiptUnreadable
<1>3. /\ \A q \in Procs \ {p} : worker'[q] = worker[q]
      /\ worker'[p].at = "interrupted" /\ worker'[p].msg = worker[p].msg
      /\ worker'[p].restart = worker[p].restart /\ worker'[p].todo = worker[p].todo
      /\ worker'[p].h = worker[p].h
    <2>1. PICK r : worker' = [worker EXCEPT ![p].at = "interrupted", ![p].r = r]
        BY <1>2
    <2> QED
        BY <1>1, <2>1 DEF Worker
<1> QED
    BY <1>2, <1>3 DEF DeliverStep, At, Moves, Untyped

\* `deliver` returns.
LEMMA Returned ==
    ASSUME TypeOK, NEW p \in Procs, Return(p)
    PROVE  /\ \A q \in Procs \ {p} : worker'[q] = worker[q]
           /\ worker'[p].at = "idle" /\ worker'[p].msg = NoMsg /\ worker'[p].h.state = "none"
           /\ worker'[p].restart = worker[p].restart /\ worker'[p].todo = worker[p].todo
    BY DEF TypeOK, Return, IdleWorker, NoHandoff

\* It returns, having written nothing, or something that reopens no attempt; or having given
\* one back, or reopened one.
LEMMA ReturnsWith ==
    ASSUME TypeOK, NEW p \in Procs, NEW m \in Msgs, NEW stage \in Stages \ {"idle"},
           At(p, m, stage), Return(p), UNCHANGED <<typed, up>>,
           \A n \in Msgs \ {m} : journal'[n] = journal[n],
           journal'[m].owner = journal[m].owner,
           \/ journal'[m].state = journal[m].state
           \/ journal'[m].state \in Final \cup {"sent"}
           \/ journal'[m].state = "pending" /\ stage \in {"releasing", "interrupted"}
    PROVE  DeliverStep(p, m)
    BY Returned DEF DeliverStep, At, Moves, Untyped, Final

\* The writes of the journal keep the owner of the attempt, except a reservation.
LEMMA ClosedOwner ==
    ASSUME TypeOK, NEW p \in Procs, NEW m \in Msgs, NEW s \in States, Close(p, m, s)
    PROVE  journal'[m].owner = journal[m].owner
    BY DEF TypeOK, Close, Handoff

LEMMA BoundOwner ==
    ASSUME NEW h \in Handoff, NEW r
    PROVE  Bound(h, r).owner = h.owner
    BY DEF Bound, Handoff

LEMMA SentOwner ==
    ASSUME TypeOK, NEW m \in Msgs,
           journal' = [journal EXCEPT ![m] =
                          Bound([@ EXCEPT !.state = "sent", !.reason = "none"], receipt[m])]
    PROVE  journal'[m].owner = journal[m].owner
<1> DEFINE h == [journal[m] EXCEPT !.state = "sent", !.reason = "none"]
<1>1. h \in Handoff /\ h.owner = journal[m].owner
    BY DEF TypeOK, Handoff, States, Reasons
<1>2. journal'[m] = Bound(h, receipt[m])
    BY DEF TypeOK
<1> HIDE DEF h
<1> QED
    BY <1>1, <1>2, BoundOwner

\* The hand-off is read, and the lock taken; a final one is skipped.
LEMMA LoadsIt ==
    ASSUME TypeOK, NEW p \in Procs, Tidy(p), NEW m \in Msgs, Load(p, m)
    PROVE  DeliverStep(p, m)
<1>1. worker \in [Procs -> Worker] /\ worker[p] \in Worker
    BY DEF TypeOK
<1>2. /\ Running(p) /\ worker[p].at = "idle" /\ m \in worker[p].todo
      /\ UNCHANGED <<journal, typed, up>>
    BY DEF Load
<1> DEFINE rest == [worker[p] EXCEPT !.todo = @ \ {m}]
           read == [rest EXCEPT !.at = "loaded", !.msg = m, !.h = journal[m], !.claim = claim[m]]
<1>3. /\ rest.at = "idle" /\ rest.msg = worker[p].msg /\ rest.restart = worker[p].restart
      /\ rest.todo = worker[p].todo \ {m} /\ rest.h = worker[p].h
      /\ read.at = "loaded" /\ read.msg = m /\ read.restart = worker[p].restart
      /\ read.todo = worker[p].todo \ {m} /\ read.h = journal[m]
    BY <1>1, <1>2 DEF Worker
<1>4. worker' = [worker EXCEPT ![p] = IF journal[m].state \in Final \/ claim[m] = "deleted"
                                      THEN rest ELSE read]
    BY DEF Load
<1> HIDE DEF rest, read
<1>5. /\ \A q \in Procs \ {p} : worker'[q] = worker[q]
      /\ worker'[p] = rest \/ worker'[p] = read
    BY <1>1, <1>4
<1>6. worker[p].msg = NoMsg
    BY <1>2 DEF Tidy
<1> QED
    BY <1>2, <1>3, <1>5, <1>6 DEF DeliverStep, Moves, Untyped

\* An attempt is reserved, unless somebody else was faster.
LEMMA ReservesIt ==
    ASSUME TypeOK, NEW p \in Procs, NEW m \in Msgs, Reserve(p, m)
    PROVE  DeliverStep(p, m)
<1>1. At(p, m, "loaded") /\ UNCHANGED <<typed, up>> /\ "loaded" \in Stages \ {"idle"}
    BY DEF Reserve, PendingLoaded, Stages
<1>2. CASE Return(p) /\ journal' = journal
    BY <1>1, <1>2, ReturnsWith
<1> DEFINE next == [journal[m] EXCEPT !.state = "sending", !.attempt = @ + 1, !.owner = p]
<1>3. CASE /\ journal[m].state = "pending" /\ journal' = [journal EXCEPT ![m] = next]
           /\ worker' = [worker EXCEPT ![p].at = "reserved", ![p].h = next]
    <2>1. next.state = "sending" /\ next.owner = p
        BY DEF TypeOK, Handoff
    <2> HIDE DEF next
    <2>2. journal'[m] = next /\ \A n \in Msgs \ {m} : journal'[n] = journal[n]
        BY <1>3 DEF TypeOK
    <2>3. /\ worker'[p].at = "reserved" /\ worker'[p].h = next
          /\ worker'[p].msg = worker[p].msg /\ worker'[p].todo = worker[p].todo
          /\ worker'[p].restart = worker[p].restart
          /\ \A q \in Procs \ {p} : worker'[q] = worker[q]
        BY <1>3 DEF TypeOK, Worker
    <2> QED
        BY <1>1, <1>3, <2>1, <2>2, <2>3 DEF DeliverStep, At, Moves
<1> QED
    BY <1>2, <1>3 DEF Reserve

\* The prompt is typed.
LEMMA TypesIt ==
    ASSUME TypeOK, NEW p \in Procs, NEW m \in Msgs, Type(p, m)
    PROVE  DeliverStep(p, m)
<1>1. /\ At(p, m, "armed") /\ UNCHANGED <<journal, up>> /\ Goto(p, "typed")
      /\ typed' = [typed EXCEPT ![m] = @ + 1]
    BY DEF Type
<1>2. typed'[m] = typed[m] + 1 /\ \A n \in Msgs \ {m} : typed'[n] = typed[n]
    BY <1>1 DEF TypeOK
<1>3. worker'[p].restart = worker[p].restart
    BY <1>1 DEF TypeOK, Goto, Worker
<1> QED
    BY <1>1, <1>2, <1>3, GotoEffect DEF DeliverStep, At, Moves

LEMMA RecoveryDelivers ==
    ASSUME TypeOK, NEW p \in Procs, NEW m \in Msgs, Recovery(p, m) \/ ReceiptUnreadable(p, m)
    PROVE  DeliverStep(p, m)
<1>1. /\ "loaded" \in Stages \ {"idle"} /\ "interrupted" \in Stages \ {"idle"}
      /\ "giving_up" \in Stages \ {"idle", "loaded", "interrupted"} /\ "giving_up" \notin Untyped
      /\ "pending" \in States
    BY DEF Stages, States, Untyped
<1>2. CASE ReadReceipt(p, m) \/ ReceiptUnreadable(p, m)
    BY <1>2, Interrupts
<1>3. CASE RetryInterrupted(p, m)
    <2>1. At(p, m, "interrupted") /\ Close(p, m, "pending") /\ UNCHANGED <<typed, up>>
        BY <1>3 DEF RetryInterrupted
    <2>2. Return(p)
        BY <2>1 DEF Close
    <2> QED
        BY <1>1, <2>1, <2>2, CloseEffect, ClosedOwner, ReturnsWith
<1>4. CASE AdoptReceipt(p, m)
    <2>1. /\ At(p, m, "interrupted") /\ Return(p) /\ UNCHANGED <<typed, up>>
          /\ journal' = [journal EXCEPT ![m] =
                            Bound([@ EXCEPT !.state = "sent", !.reason = "none"], receipt[m])]
        BY <1>4 DEF AdoptReceipt
    <2> QED
        BY <1>1, <2>1, SentEffect, SentOwner, ReturnsWith DEF Final
<1>5. CASE AbandonInterrupted(p, m)
    BY <1>1, <1>5, GoesOn DEF AbandonInterrupted, GiveUp
<1>6. CASE LeaveSending(p, m)
    BY <1>1, <1>6, ReturnsWith DEF LeaveSending
<1> QED
    BY <1>2, <1>3, <1>4, <1>5, <1>6 DEF Recovery

LEMMA DecisionDelivers ==
    ASSUME TypeOK, NEW p \in Procs, Tidy(p), NEW m \in Msgs, Decision(p, m) \/ Wait(p, m)
    PROVE  DeliverStep(p, m)
<1>1. /\ "loaded" \in Stages \ {"idle"} /\ "noting" \in Stages \ {"idle"}
      /\ "noting" \in Stages \ {"idle", "loaded", "interrupted"} /\ "noting" \notin Untyped
      /\ "cancelled" \in States /\ "cancelled" \in Final
    BY DEF Stages, States, Untyped, Final
<1>2. CASE Load(p, m)
    BY <1>2, LoadsIt
<1>3. CASE CancelFinished(p, m)
    <2>1. At(p, m, "loaded") /\ Close(p, m, "cancelled") /\ UNCHANGED <<typed, up>>
        BY <1>3 DEF CancelFinished
    <2>2. Return(p)
        BY <2>1 DEF Close
    <2> QED
        BY <1>1, <2>1, <2>2, CloseEffect, ClosedOwner, ReturnsWith
<1>4. CASE BindSent(p, m)
    <2>1. /\ At(p, m, "loaded") /\ Return(p) /\ UNCHANGED <<typed, up>>
          /\ journal' = [journal EXCEPT ![m] = Bound(@, receipt[m])]
        BY <1>4 DEF BindSent
    <2>2. journal[m] \in Handoff /\ journal'[m] = Bound(journal[m], receipt[m])
        BY <2>1 DEF TypeOK
    <2>3. \/ journal'[m].state = journal[m].state
          \/ journal'[m].state \in Final \cup {"sent"}
        BY <2>2, BoundEffect DEF Final
    <2>4. /\ journal'[m].owner = journal[m].owner
          /\ \A n \in Msgs \ {m} : journal'[n] = journal[n]
        BY <2>1, <2>2, BoundOwner DEF TypeOK
    <2> QED
        BY <1>1, <2>1, <2>3, <2>4, ReturnsWith
<1>5. CASE NotePaused(p, m)
    <2>1. At(p, m, "loaded") /\ UNCHANGED <<journal, typed, up>>
        BY <1>5 DEF NotePaused, PendingLoaded
    <2>2. Return(p) \/ Goto(p, "noting")
        BY <1>5 DEF NotePaused
    <2> QED
        BY <1>1, <2>1, <2>2, GoesOn, ReturnsWith
<1>6. CASE WritePaused(p, m)
    <2>1. /\ At(p, m, "noting") /\ Return(p) /\ UNCHANGED <<typed, up>>
          /\ journal' = [journal EXCEPT ![m].reason = "paused"]
        BY <1>6 DEF WritePaused
    <2>2. /\ journal'[m].state = journal[m].state /\ journal'[m].owner = journal[m].owner
          /\ \A n \in Msgs \ {m} : journal'[n] = journal[n]
        BY <2>1 DEF TypeOK, Handoff
    <2> QED
        BY <1>1, <2>1, <2>2, ReturnsWith
<1>7. CASE Wait(p, m)
    BY <1>1, <1>7, ReturnsWith DEF Wait, PendingLoaded
<1> QED
    BY <1>2, <1>3, <1>4, <1>5, <1>6, <1>7 DEF Decision

LEMMA RetryDelivers ==
    ASSUME TypeOK, NEW p \in Procs, NEW m \in Msgs,
           Retry(p, m) \/ JournalRefuses(p, m) \/ StoreError(p, m)
    PROVE  DeliverStep(p, m)
<1>1. /\ "loaded" \in Stages \ {"idle"}
      /\ "giving_up" \in Stages \ {"idle", "loaded", "interrupted"} /\ "giving_up" \notin Untyped
    BY DEF Stages, Untyped
<1>2. CASE Exhausted(p, m) \/ ClaimGone(p, m)
    BY <1>1, <1>2, GoesOn DEF Exhausted, ClaimGone, GiveUp, PendingLoaded
<1>3. CASE JournalRefuses(p, m) \/ StoreError(p, m)
    <2>1. PICK stage \in Stages \ {"idle"} : At(p, m, stage)
        BY <1>3 DEF JournalRefuses, StoreError, Stages
    <2> QED
        BY <1>3, <2>1, ReturnsWith DEF JournalRefuses, StoreError
<1> QED
    BY <1>2, <1>3, ReservesIt DEF Retry

LEMMA AttemptDelivers ==
    ASSUME TypeOK, NEW p \in Procs, NEW m \in Msgs, Attempt(p, m)
    PROVE  DeliverStep(p, m)
<1> DEFINE Later == Stages \ {"idle", "loaded", "interrupted"}
<1>1. /\ {"reserved", "ready", "armed", "releasing", "giving_up", "typed", "confirmed"}
             \subseteq Later
      /\ Later \subseteq Stages \ {"idle"} /\ "undeliverable" \in States \cap Final
    BY DEF Stages, States, Final
<1>2. CASE MaterialiseAttempt(p, m) \/ Arm(p, m)
    BY <1>1, <1>2, GoesOn DEF MaterialiseAttempt, Arm, Untyped
<1>3. CASE MaterialiseFails(p, m) \/ SendFails(p, m)
    BY <1>1, <1>3, GoesOn DEF MaterialiseFails, SendFails, GiveUp, Untyped
<1>4. CASE PauseAttempt(p, m) \/ HoldAttempt(p, m)
    <2>1. PICK stage \in {"reserved", "ready", "armed"} : At(p, m, stage)
        BY <1>4 DEF PauseAttempt, HoldAttempt
    <2>2. /\ UNCHANGED <<journal, typed, up>>
          /\ \E why : worker' = [worker EXCEPT ![p].at = "releasing", ![p].reason = why]
        BY <1>4 DEF PauseAttempt, HoldAttempt, Hold
    <2> QED
        BY <1>1, <2>1, <2>2, GoesOn DEF Untyped
<1>5. CASE ReleaseAttempt(p, m)
    <2>1. /\ At(p, m, "releasing") /\ Return(p) /\ UNCHANGED <<typed, up>>
          /\ journal' = [journal EXCEPT ![m].state = "pending", ![m].reason = worker[p].reason]
        BY <1>5 DEF ReleaseAttempt
    <2>2. /\ journal'[m].state = "pending" /\ journal'[m].owner = journal[m].owner
          /\ \A n \in Msgs \ {m} : journal'[n] = journal[n]
        BY <2>1 DEF TypeOK, Handoff
    <2> QED
        BY <1>1, <2>1, <2>2, ReturnsWith
<1>6. CASE Type(p, m)
    BY <1>6, TypesIt
<1>7. CASE Confirm(p, m)
    BY <1>1, <1>7, GoesOn DEF Confirm, Untyped
<1>8. CASE RecordSent(p, m)
    <2>1. /\ At(p, m, "confirmed") /\ Return(p) /\ UNCHANGED <<typed, up>>
          /\ journal' = [journal EXCEPT ![m] =
                            Bound([@ EXCEPT !.state = "sent", !.reason = "none"], receipt[m])]
        BY <1>8 DEF RecordSent
    <2> QED
        BY <1>1, <2>1, SentEffect, SentOwner, ReturnsWith DEF Final
<1>9. CASE RecordUndeliverable(p, m)
    <2>1. At(p, m, "giving_up") /\ Close(p, m, "undeliverable") /\ UNCHANGED <<typed, up>>
        BY <1>9 DEF RecordUndeliverable
    <2>2. Return(p)
        BY <2>1 DEF Close
    <2> QED
        BY <1>1, <2>1, <2>2, CloseEffect, ClosedOwner, ReturnsWith
<1> QED
    BY <1>2, <1>3, <1>4, <1>5, <1>6, <1>7, <1>8, <1>9 DEF Attempt

-----------------------------------------------------------------------------
\* The budget of a hand-off

\* Sets of daemons, and how many they are.
LEMMA CountDaemons ==
    ASSUME NEW S \in SUBSET Procs, NEW T \in SUBSET Procs
    PROVE  /\ Cardinality(S) \in Nat /\ Cardinality(T) \in Nat
           /\ S \subseteq T => Cardinality(S) <= Cardinality(T)
           /\ \A p \in T : S \subseteq T \ {p} => Cardinality(S) + 1 <= Cardinality(T)
           /\ \A p : T = S \cup {p} => Cardinality(T) <= Cardinality(S) + 1
<1>1. IsFiniteSet(Procs)
    BY FS_Interval, HandoffAssumption DEF Procs
<1>2. IsFiniteSet(S) /\ IsFiniteSet(T)
    BY <1>1, FS_Subset
<1>3. Cardinality(S) \in Nat /\ Cardinality(T) \in Nat
    BY <1>2, FS_CardinalityType
<1>4. S \subseteq T => Cardinality(S) <= Cardinality(T)
    BY <1>2, FS_Subset
<1>5. ASSUME NEW p \in T, S \subseteq T \ {p} PROVE Cardinality(S) + 1 <= Cardinality(T)
    <2>1. IsFiniteSet(T \ {p}) /\ Cardinality(T \ {p}) = Cardinality(T) - 1
        BY <1>2, <1>5, FS_RemoveElement
    <2>2. Cardinality(S) <= Cardinality(T \ {p})
        BY <1>5, <2>1, FS_Subset
    <2> QED
        BY <1>3, <2>1, <2>2
<1>6. ASSUME NEW p, T = S \cup {p} PROVE Cardinality(T) <= Cardinality(S) + 1
    <2>1. Cardinality(S \cup {p}) = IF p \in S THEN Cardinality(S) ELSE Cardinality(S) + 1
        BY <1>2, FS_AddElement
    <2> QED
        BY <1>3, <1>6, <2>1
<1> QED
    BY <1>3, <1>4, <1>5, <1>6

\* A step inside `deliver` costs the other hand-offs nothing.
LEMMA OthersKeepBudget ==
    ASSUME TypeOK, NEW p \in Procs, Tidy(p), NEW m \in Msgs, DeliverStep(p, m),
           NEW n \in Msgs \ {m}, Budget(n)
    PROVE  Budget(n)' /\ Attempting(n)' = Attempting(n)
<1>1. /\ journal'[n] = journal[n] /\ typed'[n] = typed[n] /\ up' = up
      /\ \A q \in Procs \ {p} : worker'[q] = worker[q]
    BY DEF DeliverStep
<1>2. /\ worker[p].msg # n /\ worker'[p].msg # n /\ worker'[p].restart = worker[p].restart
      /\ n \in worker'[p].todo <=> n \in worker[p].todo
    BY HandoffAssumption DEF DeliverStep, Tidy
<1>3. Attempting(n)' = Attempting(n)
    BY <1>1, <1>2 DEF Attempting
<1>4. Spent(n)' = Spent(n)
    BY <1>1, <1>2 DEF Spent, CanRecover
<1>5. Waiting(n)' = Waiting(n)
    BY <1>1 DEF Waiting
<1> QED
    BY <1>1, <1>3, <1>4, <1>5 DEF Budget

\* Nor does it take more than it pays.
LEMMA DeliverKeepsBudget ==
    ASSUME TypeOK, NEW p \in Procs, Tidy(p), NEW m \in Msgs, DeliverStep(p, m), Budget(m)
    PROVE  Budget(m)'
<1> DEFINE w == worker[p]
           v == worker'[p]
<1>1. /\ Running(p) /\ up' = up /\ typed[m] \in Nat
      /\ \A q \in Procs \ {p} : worker'[q] = worker[q]
    BY DEF DeliverStep, TypeOK
<1>2. journal[m].state # "none" /\ journal'[m].state # "none"
    BY DEF DeliverStep, Tidy
<1>3. /\ Attempting(m) \in SUBSET Procs /\ Attempting(m)' \in SUBSET Procs
      /\ Spent(m) \in SUBSET Procs /\ Spent(m)' \in SUBSET Procs
    BY DEF Attempting, Spent
<1>4. Spent(m) \subseteq Spent(m)'
    <2>1. p \in Spent(m) => p \in Spent(m)'
        BY <1>1 DEF DeliverStep, Spent, CanRecover, Running, Tidy
    <2> QED
        BY <1>1, <2>1 DEF Spent, CanRecover
<1>5. /\ p \in Attempting(m) <=> w.msg = m /\ w.at \in Untyped
      /\ p \in Attempting(m)' <=> v.msg = m /\ v.at \in Untyped
      /\ Attempting(m)' \ {p} = Attempting(m) \ {p}
    BY <1>1 DEF Attempting
<1>6. /\ Cardinality(Attempting(m)) \in Nat /\ Cardinality(Attempting(m)') \in Nat
      /\ Cardinality(Spent(m)) \in Nat /\ Cardinality(Spent(m)') \in Nat
      /\ Cardinality(Spent(m)) <= Cardinality(Spent(m)')
    BY <1>3, <1>4, CountDaemons
<1>7. CASE /\ typed'[m] = typed[m] /\ (journal'[m].state = "pending" => journal[m].state = "pending")
           /\ v.at \in Untyped => w.at \in Untyped
    <2>1. p \in Attempting(m)' => p \in Attempting(m)
        BY <1>5, <1>7 DEF DeliverStep, Untyped
    <2>2. Cardinality(Attempting(m)') <= Cardinality(Attempting(m))
        BY <1>3, <1>5, <2>1, CountDaemons
    <2>3. Waiting(m)' <= Waiting(m) /\ Waiting(m) \in Nat /\ Waiting(m)' \in Nat
        BY <1>7 DEF Waiting
    <2> QED
        BY <1>1, <1>2, <1>6, <1>7, <2>2, <2>3 DEF Budget
<1>8. CASE /\ typed'[m] = typed[m] /\ journal[m].state = "pending" /\ journal'[m].state = "sending"
           /\ w.at = "loaded" /\ v.at = "reserved"
    <2>1. Attempting(m)' = Attempting(m) \cup {p}
        BY <1>5, <1>8 DEF DeliverStep, Untyped
    <2>2. Cardinality(Attempting(m)') <= Cardinality(Attempting(m)) + 1
        BY <1>3, <2>1, CountDaemons
    <2>3. Waiting(m) = 1 /\ Waiting(m)' = 0
        BY <1>8 DEF Waiting
    <2> QED
        BY <1>1, <1>2, <1>6, <1>8, <2>2, <2>3 DEF Budget
<1>9. CASE /\ typed'[m] = typed[m] /\ w.at = "releasing" /\ v.at = "idle"
    <2>1. p \in Attempting(m) /\ Attempting(m)' \subseteq Attempting(m) \ {p}
        BY <1>5, <1>9 DEF DeliverStep, Untyped
    <2>2. Cardinality(Attempting(m)') + 1 <= Cardinality(Attempting(m))
        BY <1>3, <2>1, CountDaemons
    <2>3. Waiting(m) \in {0, 1} /\ Waiting(m)' \in {0, 1}
        BY DEF Waiting
    <2> QED
        BY <1>1, <1>2, <1>6, <1>9, <2>2, <2>3 DEF Budget
<1>10. CASE typed'[m] = typed[m] + 1 /\ journal'[m] = journal[m] /\ w.at = "armed" /\ v.at = "typed"
    <2>1. p \in Attempting(m) /\ Attempting(m)' \subseteq Attempting(m) \ {p}
        BY <1>5, <1>10 DEF DeliverStep, Untyped
    <2>2. Cardinality(Attempting(m)') + 1 <= Cardinality(Attempting(m))
        BY <1>3, <2>1, CountDaemons
    <2>3. Waiting(m) \in {0, 1} /\ Waiting(m)' = Waiting(m)
        BY <1>10 DEF Waiting
    <2> QED
        BY <1>1, <1>2, <1>6, <1>10, <2>2, <2>3 DEF Budget
<1>11. CASE typed'[m] = typed[m] /\ w.at = "interrupted" /\ v.at = "idle"
    <2>1. p \notin Spent(m) /\ p \in Spent(m)'
        BY <1>1, <1>11, HandoffAssumption DEF DeliverStep, Spent, CanRecover, Tidy, Running
    <2>2. Cardinality(Spent(m)) + 1 <= Cardinality(Spent(m)')
        BY <1>3, <1>4, <2>1, CountDaemons
    <2>3. Attempting(m)' = Attempting(m)
        BY <1>5, <1>11 DEF Untyped
    <2>4. Waiting(m) \in {0, 1} /\ Waiting(m)' \in {0, 1}
        BY DEF Waiting
    <2> QED
        BY <1>1, <1>2, <1>6, <1>11, <2>2, <2>3, <2>4 DEF Budget
<1> QED
    BY <1>7, <1>8, <1>9, <1>10, <1>11 DEF DeliverStep, Moves

-----------------------------------------------------------------------------
\* The invariants, step by step

\* What every worker and every hand-off but those of the step have kept.
LEMMA DeliverKeepsOverlap ==
    ASSUME TypeOK, OverlapInv, NEW p \in Procs, NEW m \in Msgs, DeliverStep(p, m)
    PROVE  OverlapInv'
<1>1. /\ up' = up /\ Running(p)
      /\ \A n \in Msgs \ {m} : journal'[n] = journal[n]
      /\ \A q \in Procs \ {p} : worker'[q] = worker[q]
    BY DEF DeliverStep
<1>2. ASSUME NEW n \in Msgs PROVE Budget(n)'
    BY OthersKeepBudget, DeliverKeepsBudget DEF OverlapInv
<1>3. ASSUME NEW n \in Msgs PROVE Known(journal[n])'
    <2>1. Known(journal[n])
        BY DEF OverlapInv
    <2>2. CASE n = m
        BY <1>1, <2>1, <2>2 DEF Known, DeliverStep, Running
    <2> QED
        BY <1>1, <2>1, <2>2 DEF Known
<1>4. \A n \in Msgs : journal[n].state # "none" => journal'[n].state # "none"
    BY <1>1 DEF DeliverStep
<1>5. ASSUME NEW q \in Procs PROVE Tidy(q)' /\ Known(worker[q].h)'
    <2>1. Tidy(q) /\ Known(worker[q].h) /\ Known(journal[m]) /\ Known(journal[m])'
        BY <1>3 DEF OverlapInv
    <2>2. CASE q # p
        BY <1>1, <1>4, <2>1, <2>2 DEF Tidy, Known, Running
    <2>3. CASE q = p
        <3>1. /\ worker[p].todo \in SUBSET Msgs /\ worker'[p].todo \subseteq worker[p].todo
              /\ m \notin worker'[p].todo /\ journal[m].state # "none"
            BY <2>1, <2>3, WorkerFields DEF Tidy, DeliverStep
        <3>2. /\ worker'[p].at = "idle" <=> worker'[p].msg = NoMsg
              /\ worker'[p].msg \in {NoMsg, m} /\ worker'[p].msg \notin worker'[p].todo
              /\ worker'[p].at = "interrupted" => worker'[p].restart
            BY <3>1, HandoffAssumption DEF DeliverStep
        <3>3. \A n \in Msgs : n \in worker'[p].todo \/ worker'[p].msg = n => journal'[n].state # "none"
            BY <1>4, <2>1, <2>3, <3>1, <3>2, HandoffAssumption DEF Tidy
        <3>4. Tidy(p)'
            BY <1>1, <3>2, <3>3 DEF Tidy, Running
        <3>5. Known(worker[p].h)'
            BY <1>1, <2>1, <2>3 DEF Known, DeliverStep
        <3> QED
            BY <2>3, <3>4, <3>5
    <2> QED
        BY <2>2, <2>3
<1> QED
    BY <1>2, <1>3, <1>5 DEF OverlapInv

\* While all daemons live no worker finds the owner of an attempt dead.
LEMMA DeliverKeepsAlive ==
    ASSUME TypeOK, OverlapInv, AliveInv, NEW p \in Procs, NEW m \in Msgs, DeliverStep(p, m)
    PROVE  AliveInv'
<1> SUFFICES ASSUME AllAlive'
             PROVE  /\ \A q \in Procs : worker'[q].at # "interrupted"
                    /\ \A n \in Msgs : Apart(n)'
    BY DEF AliveInv
<1>1. /\ up' = up /\ AllAlive /\ Running(p)
      /\ \A n \in Msgs \ {m} : journal'[n] = journal[n] /\ typed'[n] = typed[n]
      /\ \A q \in Procs \ {p} : worker'[q] = worker[q]
    BY DEF DeliverStep, AllAlive
<1>2. /\ \A q \in Procs : worker[q].at # "interrupted"
      /\ \A n \in Msgs : Apart(n)
      /\ Tidy(p) /\ Known(worker[p].h)
    BY <1>1 DEF AliveInv, OverlapInv
<1>3. \A q \in Procs : worker'[q].at # "interrupted"
    <2>1. ASSUME worker'[p].at = "interrupted" PROVE FALSE
        <3>1. worker[p].h.state = "sending" /\ OwnerDead(worker[p].h)
            BY <2>1 DEF DeliverStep
        <3>2. LET o == worker[p].h.owner IN o \in Procs /\ up[o] # "new" /\ ~Running(o)
            BY <1>2, <3>1 DEF Known, OwnerDead, Procs, NoProc
        <3> QED
            BY <1>1, <3>2 DEF AllAlive, Running, TypeOK
    <2> QED
        BY <1>1, <1>2, <2>1
<1>4. ASSUME NEW n \in Msgs \ {m} PROVE Apart(n)'
    <2>1. Attempting(n)' = Attempting(n)
        BY <1>2, OthersKeepBudget DEF OverlapInv
    <2> QED
        BY <1>1, <1>2, <2>1 DEF Apart
<1>5. Apart(m)'
    <2> DEFINE w == worker[p]
               v == worker'[p]
    <2>1. /\ p \in Attempting(m) <=> w.msg = m /\ w.at \in Untyped
          /\ p \in Attempting(m)' <=> v.msg = m /\ v.at \in Untyped
          /\ Attempting(m)' \ {p} = Attempting(m) \ {p}
        BY <1>1 DEF Attempting
    <2>2. Apart(m) /\ typed[m] \in Nat /\ journal[m].state # "none" /\ journal'[m].state # "none"
        BY <1>2 DEF TypeOK, DeliverStep, Tidy
    <2>3. w.at # "idle" => w.msg = m
        BY DEF DeliverStep
    <2>4. CASE /\ typed'[m] = typed[m]
               /\ journal'[m].state = "pending" => journal[m].state = "pending"
               /\ v.at \in Untyped => w.at \in Untyped
        <3>1. Attempting(m)' \subseteq Attempting(m)
            BY <2>1, <2>3, <2>4 DEF Untyped
        <3> QED
            BY <2>2, <2>4, <3>1 DEF Apart
    <2>5. CASE /\ typed'[m] = typed[m] /\ journal[m].state = "pending"
               /\ journal'[m].state = "sending" /\ w.at = "loaded" /\ v.at = "reserved"
        <3>1. Attempting(m) = {} /\ typed[m] = 0
            BY <2>2, <2>5 DEF Apart
        <3>2. Attempting(m)' \subseteq {p}
            BY <2>1, <3>1
        <3> QED
            BY <2>5, <3>1, <3>2 DEF Apart
    <2>6. CASE typed'[m] = typed[m] /\ w.at = "releasing" /\ v.at = "idle"
        <3>1. p \in Attempting(m) /\ p \notin Attempting(m)'
            BY <2>1, <2>3, <2>6 DEF Untyped
        <3>2. typed[m] = 0 /\ Attempting(m)' = {}
            BY <2>1, <2>2, <3>1 DEF Apart
        <3> QED
            BY <2>6, <3>2 DEF Apart
    <2>7. CASE typed'[m] = typed[m] + 1 /\ journal'[m] = journal[m] /\ w.at = "armed" /\ v.at = "typed"
        <3>1. p \in Attempting(m) /\ p \notin Attempting(m)'
            BY <2>1, <2>3, <2>7 DEF Untyped
        <3>2. typed[m] = 0 /\ Attempting(m)' = {} /\ journal[m].state # "pending"
            BY <2>1, <2>2, <3>1 DEF Apart
        <3> QED
            BY <2>2, <2>7, <3>2 DEF Apart
    <2> QED
        BY <1>2, <2>4, <2>5, <2>6, <2>7 DEF DeliverStep, Moves
<1> QED
    BY <1>3, <1>4, <1>5

\* A daemon starts: it has its recovery before it.
LEMMA StartKeeps ==
    ASSUME TypeOK, OverlapInv, AliveInv, NEW p \in Procs, Start(p) \/ BeginTick(p)
    PROVE  OverlapInv' /\ AliveInv'
<1>1. worker \in [Procs -> Worker] /\ worker[p] \in Worker /\ up \in [Procs -> {"new", "up", "gone"}]
    BY DEF TypeOK
<1>2. /\ journal' = journal /\ typed' = typed
      /\ \A q \in Procs \ {p} : worker'[q] = worker[q] /\ up'[q] = up[q]
      /\ worker'[p].at = "idle" /\ worker'[p].msg = NoMsg /\ worker'[p].h = worker[p].h
      /\ worker'[p].todo = Unfinished /\ up'[p] = "up"
      /\ worker[p].at = "idle" /\ worker[p].msg = NoMsg
      /\ up[p] # "gone" /\ (up[p] = "up" => worker'[p].restart = FALSE)
    <2>1. worker[p].at = "idle" /\ worker[p].msg = NoMsg
        BY DEF Start, BeginTick, OverlapInv, Tidy, Running, IdleWorker
    <2>2. CASE Start(p)
        BY <1>1, <2>1, <2>2 DEF Start, Worker
    <2>3. CASE BeginTick(p)
        BY <1>1, <2>1, <2>3 DEF BeginTick, Worker, Running
    <2> QED
        BY <2>2, <2>3
<1>3. ASSUME NEW n \in Msgs PROVE Budget(n)' /\ Attempting(n)' = Attempting(n)
    <2>1. Attempting(n)' = Attempting(n)
        BY <1>2 DEF Attempting, Untyped
    <2>2. Spent(n) \subseteq Spent(n)'
        BY <1>1, <1>2 DEF Spent, CanRecover
    <2>3. /\ Cardinality(Spent(n)) <= Cardinality(Spent(n)')
          /\ Cardinality(Spent(n)) \in Nat /\ Cardinality(Spent(n)') \in Nat
          /\ Cardinality(Attempting(n)) \in Nat
        <3>1. /\ Spent(n) \in SUBSET Procs /\ Spent(n)' \in SUBSET Procs
              /\ Attempting(n) \in SUBSET Procs
            BY DEF Spent, Attempting
        <3> QED
            BY <2>2, <3>1, CountDaemons
    <2>4. Waiting(n)' = Waiting(n) /\ Waiting(n) \in Nat /\ typed[n] \in Nat
        BY <1>2 DEF Waiting, TypeOK
    <2> QED
        BY <1>2, <2>1, <2>3, <2>4 DEF OverlapInv, Budget
<1>4. \A h : Known(h) => Known(h)'
    BY <1>2 DEF Known
<1>5. ASSUME NEW q \in Procs PROVE Tidy(q)'
    BY <1>2, HandoffAssumption DEF OverlapInv, Tidy, Running, Unfinished
<1>6. OverlapInv'
    BY <1>2, <1>3, <1>4, <1>5 DEF OverlapInv, Known
<1>7. AliveInv'
    BY <1>2, <1>3 DEF AliveInv, AllAlive, Apart
<1> QED
    BY <1>6, <1>7

\* A daemon dies: from then on the budget is all that is left.
LEMMA CrashKeeps ==
    ASSUME TypeOK, OverlapInv, NEW p \in Procs, Crash(p)
    PROVE  OverlapInv' /\ AliveInv'
<1>1. /\ journal' = journal /\ typed' = typed
      /\ \A q \in Procs \ {p} : worker'[q] = worker[q] /\ up'[q] = up[q]
      /\ worker'[p] = IdleWorker /\ up'[p] = "gone"
    BY DEF Crash, TypeOK
<1>2. ASSUME NEW n \in Msgs PROVE Budget(n)'
    <2>1. Attempting(n)' \subseteq Attempting(n)
        BY <1>1 DEF Attempting, Untyped, IdleWorker
    <2>2. Spent(n) \subseteq Spent(n)'
        BY <1>1 DEF Spent, CanRecover, IdleWorker
    <2>3. /\ Cardinality(Spent(n)) <= Cardinality(Spent(n)')
          /\ Cardinality(Attempting(n)') <= Cardinality(Attempting(n))
          /\ Cardinality(Spent(n)) \in Nat /\ Cardinality(Spent(n)') \in Nat
          /\ Cardinality(Attempting(n)) \in Nat /\ Cardinality(Attempting(n)') \in Nat
        <3>1. /\ Spent(n) \in SUBSET Procs /\ Spent(n)' \in SUBSET Procs
              /\ Attempting(n) \in SUBSET Procs /\ Attempting(n)' \in SUBSET Procs
            BY DEF Spent, Attempting
        <3> QED
            BY <2>1, <2>2, <3>1, CountDaemons
    <2>4. Waiting(n)' = Waiting(n) /\ Waiting(n) \in Nat /\ typed[n] \in Nat
        BY <1>1 DEF Waiting, TypeOK
    <2> QED
        BY <1>1, <2>3, <2>4 DEF OverlapInv, Budget
<1>3. \A h : Known(h) => Known(h)'
    BY <1>1 DEF Known
<1>4. ASSUME NEW q \in Procs PROVE Tidy(q)' /\ Known(worker[q].h)'
    <2>1. Tidy(q)'
        <3>1. /\ IdleWorker.at = "idle" /\ IdleWorker.msg = NoMsg /\ IdleWorker.todo = {}
              /\ Tidy(q)
            BY DEF IdleWorker, OverlapInv
        <3>2. CASE q = p
            BY <1>1, <3>1, <3>2, HandoffAssumption DEF Tidy
        <3>3. CASE q # p
            BY <1>1, <3>1, <3>3 DEF Tidy, Running
        <3> QED
            BY <3>2, <3>3
    <2>2. Known(worker[q].h)'
        BY <1>1, <1>3 DEF OverlapInv, Known, IdleWorker, NoHandoff
    <2> QED
        BY <2>1, <2>2
<1>5. OverlapInv'
    BY <1>1, <1>2, <1>3, <1>4 DEF OverlapInv, Known
<1>6. AliveInv'
    BY <1>1 DEF AliveInv, AllAlive
<1> QED
    BY <1>5, <1>6

\* A hand-off is created, by a daemon that cannot recover it.
LEMMA OfferPays ==
    ASSUME TypeOK, OverlapInv, AliveInv, NEW p \in Procs, NEW m \in Msgs, Offer(p, m)
    PROVE  OverlapInv' /\ AliveInv'
<1>1. /\ worker' = worker /\ up' = up /\ typed' = typed /\ Running(p)
      /\ \A n \in Msgs \ {m} : journal'[n] = journal[n]
      /\ journal[m].state = "none" /\ journal'[m].state = "pending"
    BY DEF Offer, TypeOK, Handoff
<1>2. \A n \in Msgs : Attempting(n)' = Attempting(n) /\ Spent(n)' = Spent(n)
    BY <1>1 DEF Attempting, Spent, CanRecover
<1>3. Attempting(m) = {} /\ p \in Spent(m) /\ typed[m] = 0
    BY <1>1 DEF OverlapInv, Budget, Tidy, Attempting, Spent, CanRecover, Running
<1>4. Budget(m)'
    <2>1. /\ Attempting(m) \in SUBSET Procs /\ Spent(m) \in SUBSET Procs /\ {} \in SUBSET Procs
        BY DEF Attempting, Spent
    <2>2. Cardinality({}) + 1 <= Cardinality(Spent(m)) /\ Cardinality({}) = 0
        BY <1>3, <2>1, CountDaemons, FS_EmptySet
    <2>3. Waiting(m)' = 1
        BY <1>1 DEF Waiting
    <2> QED
        BY <1>1, <1>2, <1>3, <2>1, <2>2, <2>3, CountDaemons DEF Budget
<1>5. ASSUME NEW n \in Msgs \ {m} PROVE Budget(n)'
    BY <1>1, <1>2 DEF OverlapInv, Budget, Waiting
<1>6. ASSUME NEW q \in Procs PROVE Tidy(q)' /\ Known(worker[q].h)'
    BY <1>1 DEF OverlapInv, Tidy, Known, Running
<1>7. ASSUME NEW n \in Msgs PROVE Known(journal[n])'
    BY <1>1 DEF OverlapInv, Known
<1>8. OverlapInv'
    BY <1>4, <1>5, <1>6, <1>7 DEF OverlapInv
<1>9. AliveInv'
    BY <1>1, <1>2, <1>3 DEF AliveInv, AllAlive, Apart
<1> QED
    BY <1>8, <1>9

\* Steps that leave the workers alone, and the states of the journal but for `started`.
LEMMA OutsideKeepsBoth ==
    ASSUME OverlapInv, AliveInv, worker' = worker, up' = up, typed' = typed,
           \A m \in Msgs :
              /\ journal'[m].owner = journal[m].owner
              /\ \/ journal'[m].state = journal[m].state
                 \/ journal[m].state = "sent" /\ journal'[m].state = "started"
    PROVE  OverlapInv' /\ AliveInv'
<1>1. \A m \in Msgs : /\ Attempting(m)' = Attempting(m) /\ Spent(m)' = Spent(m)
                      /\ Waiting(m)' = Waiting(m)
    BY DEF Attempting, Spent, CanRecover, Waiting
<1>2. \A q \in Procs : Tidy(q)' /\ Known(worker[q].h)'
    BY DEF OverlapInv, Tidy, Known, Running
<1>3. \A m \in Msgs : Budget(m)' /\ Known(journal[m])'
    BY <1>1 DEF OverlapInv, Budget, Known
<1>4. AliveInv'
    BY <1>1 DEF AliveInv, AllAlive, Apart
<1> QED
    BY <1>2, <1>3, <1>4 DEF OverlapInv

\* The rest of the system: the mailing after the offer, the turns, the claims and the gate.
LEMMA OutsideSteps ==
    ASSUME TypeOK, OverlapInv, AliveInv,
           \/ \E p \in Procs, m \in Msgs : Materialise(p, m) \/ ObserveTurn(p, m)
           \/ \E m \in Msgs : ClaimChanges(m) \/ DeleteTask(m)
           \/ GateChanges
           \/ UNCHANGED vars
    PROVE  OverlapInv' /\ AliveInv'
<1>1. worker' = worker /\ up' = up /\ typed' = typed
    BY DEF Materialise, ObserveTurn, ClaimChanges, DeleteTask, GateChanges, vars
<1>2. CASE journal' = journal
    BY <1>1, <1>2, OutsideKeepsBoth
<1>3. ASSUME NEW p \in Procs, NEW m \in Msgs, Materialise(p, m)
      PROVE  OverlapInv' /\ AliveInv'
    <2>1. journal' = journal \/ journal' = [journal EXCEPT ![m].reason = "paused"]
        BY <1>3 DEF Materialise
    <2>2. \A n \in Msgs : journal'[n].state = journal[n].state /\ journal'[n].owner = journal[n].owner
        BY <2>1 DEF TypeOK, Handoff
    <2> QED
        BY <1>1, <2>2, OutsideKeepsBoth
<1>4. ASSUME NEW p \in Procs, NEW m \in Msgs, ObserveTurn(p, m)
      PROVE  OverlapInv' /\ AliveInv'
    <2> DEFINE seen == IF journal[m].observed = "null"
                       THEN [journal[m] EXCEPT !.observed = "turn"] ELSE journal[m]
    <2>1. seen \in Handoff /\ seen.owner = journal[m].owner
        BY DEF TypeOK, Handoff
    <2>2. journal'[m] \in {journal[m], seen, Bound(seen, receipt[m])}
        BY <1>4 DEF TypeOK, ObserveTurn
    <2> HIDE DEF seen
    <2>3. journal'[m].owner = journal[m].owner
        BY <2>1, <2>2, BoundOwner
    <2> QED
        BY <1>1, <1>4, <2>3, ObserveEffect, OutsideKeepsBoth
<1> QED
    BY <1>2, <1>3, <1>4 DEF ClaimChanges, DeleteTask, GateChanges, vars

\* At first no daemon has been started and nothing has been offered.
LEMMA OverlapInit == Init => OverlapInv /\ AliveInv
<1> SUFFICES ASSUME Init PROVE OverlapInv /\ AliveInv
    OBVIOUS
<1>1. /\ \A m \in Msgs : journal[m].state = "none" /\ typed[m] = 0
      /\ \A p \in Procs : worker[p] = IdleWorker /\ up[p] = "new"
    BY DEF Init, NoHandoff
<1>2. /\ IdleWorker.at = "idle" /\ IdleWorker.msg = NoMsg /\ IdleWorker.todo = {}
      /\ IdleWorker.h.state = "none"
    BY DEF IdleWorker, NoHandoff
<1>3. \A m \in Msgs : Attempting(m) = {} /\ Spent(m) = {} /\ Waiting(m) = 0
    BY <1>1, <1>2 DEF Attempting, Spent, Waiting, Untyped
<1>4. \A m \in Msgs : Budget(m) /\ Known(journal[m])
    <2>1. Cardinality({}) = 0
        BY FS_EmptySet
    <2>2. \A m \in Msgs :
              typed[m] + Cardinality(Attempting(m)) + Waiting(m) <= Cardinality(Spent(m))
        BY <1>1, <1>3, <2>1
    <2> QED
        BY <1>1, <2>2 DEF Budget, Known
<1>5. \A p \in Procs : Tidy(p) /\ Known(worker[p].h)
    BY <1>1, <1>2, HandoffAssumption DEF Tidy, Known
<1>6. AliveInv
    BY <1>1, <1>2, <1>3 DEF AliveInv, Apart
<1> QED
    BY <1>4, <1>5, <1>6 DEF OverlapInv

\* Each kind of step in its own lemma above, together.
LEMMA OverlapStep ==
    ASSUME TypeOK, OverlapInv, AliveInv, [Next]_vars
    PROVE  OverlapInv' /\ AliveInv'
<1>1. ASSUME NEW p \in Procs, Start(p) \/ BeginTick(p) \/ Crash(p)
      PROVE  OverlapInv' /\ AliveInv'
    BY <1>1, StartKeeps, CrashKeeps
<1>2. ASSUME NEW p \in Procs, NEW m \in Msgs,
             \/ Recovery(p, m) \/ Decision(p, m) \/ Wait(p, m) \/ Retry(p, m) \/ Attempt(p, m)
             \/ ReceiptUnreadable(p, m) \/ JournalRefuses(p, m) \/ StoreError(p, m)
      PROVE  OverlapInv' /\ AliveInv'
    <2>1. Tidy(p)
        BY DEF OverlapInv
    <2>2. DeliverStep(p, m)
        BY <1>2, <2>1, RecoveryDelivers, DecisionDelivers, RetryDelivers, AttemptDelivers
    <2> QED
        BY <2>2, DeliverKeepsOverlap, DeliverKeepsAlive
<1>3. ASSUME NEW p \in Procs, NEW m \in Msgs, Offer(p, m)
      PROVE  OverlapInv' /\ AliveInv'
    BY <1>3, OfferPays
<1> QED
    BY <1>1, <1>2, <1>3, OutsideSteps DEF Next

\* Both invariants hold of every reachable state.
LEMMA AlwaysOverlapInv == Spec => [](TypeOK /\ OverlapInv /\ AliveInv)
<1>1. Init => TypeOK /\ OverlapInv /\ AliveInv
    BY InitType, OverlapInit
<1>2. TypeOK /\ OverlapInv /\ AliveInv /\ [Next]_vars => (TypeOK /\ OverlapInv /\ AliveInv)'
    BY TypeStep, OverlapStep
<1> QED
    BY <1>1, <1>2, PTL DEF Spec

-----------------------------------------------------------------------------
\* Theorems

\* Daemons that run beside each other type a prompt once between them, however their loops
\* interleave, as long as none of them dies: the compare-and-swap of the reservation gives an
\* attempt to one of them, and a recovery leaves the attempts of the living alone (deliver).
THEOREM LivingTypeOnce == Spec => []TypedOnceByLiving
<1>1. AliveInv => TypedOnceByLiving
    BY DEF AliveInv, AllAlive, Apart, TypedOnceByLiving
<1> QED
    BY <1>1, AlwaysOverlapInv, PTL

\* A prompt is typed at most once for each daemon that was started, with no condition on how
\* they overlap, on which receipts can be read and on which calls fail: a typed hand-off waits
\* again only when a recovery says so, and a daemon recovers a hand-off once (recover, deliver).
THEOREM DaemonsTypeOnceEach == Spec => []TypedPerDaemon
<1>1. TypeOK /\ OverlapInv => TypedPerDaemon
    <2> SUFFICES ASSUME TypeOK, OverlapInv, NEW m \in Msgs
                 PROVE  typed[m] <= Cardinality({p \in Procs : up[p] # "new"})
        BY DEF TypedPerDaemon
    <2> DEFINE Started == {p \in Procs : up[p] # "new"}
    <2>1. /\ Spent(m) \in SUBSET Procs /\ Started \in SUBSET Procs /\ Spent(m) \subseteq Started
          /\ Attempting(m) \in SUBSET Procs
        BY DEF Spent, Attempting
    <2> HIDE DEF Started
    <2>2. /\ Cardinality(Spent(m)) <= Cardinality(Started) /\ Cardinality(Spent(m)) \in Nat
          /\ Cardinality(Started) \in Nat /\ Cardinality(Attempting(m)) \in Nat
        BY <2>1, CountDaemons
    <2>3. typed[m] + Cardinality(Attempting(m)) + Waiting(m) <= Cardinality(Spent(m))
        BY DEF OverlapInv, Budget
    <2>4. Waiting(m) \in Nat /\ typed[m] \in Nat
        BY DEF Waiting, TypeOK
    <2>5. typed[m] <= Cardinality(Started)
        BY <2>2, <2>3, <2>4
    <2> QED
        BY <2>5 DEF Started
<1> QED
    BY <1>1, AlwaysOverlapInv, PTL

=============================================================================
