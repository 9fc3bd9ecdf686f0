---------------------------- MODULE NextJobProofs ----------------------------
(* What holds of NextJob for any number of hand-offs, daemons and attempts.  *)
EXTENDS NextJob, TLAPS

-----------------------------------------------------------------------------
\* Types

\* The fields of a hand-off that steps overwrite.
LEMMA HandoffUpdates ==
    ASSUME NEW h \in Handoff, NEW s \in States, NEW why \in Reasons
    PROVE  /\ [h EXCEPT !.state = s] \in Handoff
           /\ [h EXCEPT !.reason = why] \in Handoff
           /\ [h EXCEPT !.observed = "turn"] \in Handoff
           /\ [h EXCEPT !.state = s, !.reason = why] \in Handoff
    BY DEF Handoff

LEMMA ReservedType ==
    ASSUME NEW h \in Handoff, NEW p \in Procs
    PROVE  [h EXCEPT !.state = "sending", !.attempt = @ + 1, !.owner = p] \in Handoff
<1>1. h.attempt + 1 \in Nat /\ "sending" \in States
    BY DEF Handoff, States
<1> QED
    BY <1>1 DEF Handoff

LEMMA ReceiptUpdates ==
    ASSUME NEW r \in Receipt, NEW s \in {"none", "queued", "sent", "undeliverable"},
           NEW n \in Nat
    PROVE  [r EXCEPT !.exists = TRUE] \in Receipt /\ Notified(r, s, n) \in Receipt
    BY DEF Receipt, Notified

LEMMA BoundType == ASSUME NEW h \in Handoff, NEW r PROVE Bound(h, r) \in Handoff
    BY "started" \in States, HandoffUpdates DEF Bound, States, Final, Handoff

LEMMA EmptyTypes == NoHandoff \in Handoff /\ NoReceipt \in Receipt /\ IdleWorker \in Worker
    BY DEF NoHandoff, NoReceipt, IdleWorker, Handoff, Receipt, Worker, States, Reasons,
           Claims, Stages

\* The worker of p, and what it writes when it goes on or returns.
LEMMA WorkerFields ==
    ASSUME TypeOK, NEW p \in Procs
    PROVE  /\ worker[p] \in Worker
           /\ worker[p].h \in Handoff
           /\ worker[p].h.attempt \in Nat
           /\ worker[p].todo \in SUBSET Msgs
           /\ worker[p].reason \in Reasons
    BY DEF TypeOK, Worker, Handoff

LEMMA GotoType ==
    ASSUME TypeOK, NEW p \in Procs, NEW stage \in Stages, Goto(p, stage)
    PROVE  worker' \in [Procs -> Worker]
    BY WorkerFields, [worker[p] EXCEPT !.at = stage] \in Worker DEF TypeOK, Goto, Worker

LEMMA ReturnType ==
    ASSUME TypeOK, NEW p \in Procs, Return(p)
    PROVE  worker' \in [Procs -> Worker]
    BY WorkerFields, EmptyTypes DEF TypeOK, Return, Worker

LEMMA CloseType ==
    ASSUME TypeOK, NEW p \in Procs, NEW m \in Msgs, NEW s \in States, Close(p, m, s)
    PROVE  journal' \in [Msgs -> Handoff] /\ worker' \in [Procs -> Worker]
<1>1. journal[m] \in Handoff /\ "other" \in Reasons
    BY DEF TypeOK, Reasons
<1>2. [journal[m] EXCEPT !.state = s, !.reason = "other"] \in Handoff
    BY <1>1, HandoffUpdates
<1>3. journal' = [journal EXCEPT ![m] = [journal[m] EXCEPT !.state = s, !.reason = "other"]]
    BY <1>1 DEF Close, TypeOK, Handoff
<1> QED
    BY <1>2, <1>3, ReturnType DEF Close, TypeOK

LEMMA NotifiedType ==
    ASSUME TypeOK, NEW m \in Msgs, NEW n \in Nat,
           NEW s \in {"none", "queued", "sent", "undeliverable"},
           receipt' = [receipt EXCEPT ![m] = Notified(@, s, n)]
    PROVE  receipt' \in [Msgs -> Receipt]
    BY ReceiptUpdates DEF TypeOK

LEMMA GiveUpType ==
    ASSUME TypeOK, NEW p \in Procs, NEW m \in Msgs, NEW n \in Nat, GiveUp(p, m, n)
    PROVE  receipt' \in [Msgs -> Receipt] /\ worker' \in [Procs -> Worker]
    BY NotifiedType, GotoType, "giving_up" \in Stages DEF GiveUp, Stages

LEMMA HoldType ==
    ASSUME TypeOK, NEW p \in Procs, NEW m \in Msgs, NEW why \in Reasons, Hold(p, m, why)
    PROVE  receipt' \in [Msgs -> Receipt] /\ worker' \in [Procs -> Worker]
<1>1. [worker[p] EXCEPT !.at = "releasing", !.reason = why] \in Worker
    BY WorkerFields DEF Worker, Stages
<1>2. worker' = [worker EXCEPT ![p] = [worker[p] EXCEPT !.at = "releasing", !.reason = why]]
    BY DEF Hold, TypeOK, Worker
<1> QED
    BY <1>1, <1>2, WorkerFields, NotifiedType DEF Hold, TypeOK

\* A hand-off that becomes sent, and perhaps started at once.
LEMMA SentType ==
    ASSUME TypeOK, NEW m \in Msgs,
           journal' = [journal EXCEPT ![m] =
                          Bound([@ EXCEPT !.state = "sent", !.reason = "none"], receipt[m])]
    PROVE  journal' \in [Msgs -> Handoff]
<1>1. journal[m] \in Handoff /\ "none" \in Reasons /\ "sent" \in States
    BY DEF TypeOK, Reasons, States
<1>2. [journal[m] EXCEPT !.state = "sent", !.reason = "none"] \in Handoff
    BY <1>1, HandoffUpdates
<1> QED
    BY <1>2, BoundType DEF TypeOK

-----------------------------------------------------------------------------
\* The type invariant, by the kind of step

LEMMA InitType == Init => TypeOK
    BY EmptyTypes, HandoffAssumption DEF Init, TypeOK, Claims

LEMMA ProcessType ==
    ASSUME TypeOK, NEW p \in Procs, Start(p) \/ BeginTick(p) \/ Crash(p)
    PROVE  TypeOK'
<1>1. worker' \in [Procs -> Worker]
    <2>1. \A b \in BOOLEAN : [worker[p] EXCEPT !.todo = Unfinished, !.restart = b] \in Worker
        BY WorkerFields DEF Worker, Unfinished
    <2>2. \A b \in BOOLEAN : [worker EXCEPT ![p].todo = Unfinished, ![p].restart = b]
              = [worker EXCEPT ![p] = [worker[p] EXCEPT !.todo = Unfinished, !.restart = b]]
        BY DEF TypeOK, Worker
    <2> QED
        BY <2>1, <2>2, EmptyTypes DEF TypeOK, Start, BeginTick, Crash
<1>2. advancing' \in [Msgs -> Procs \cup {NoProc}]
    BY DEF TypeOK, Start, BeginTick, Crash
<1> QED
    BY <1>1, <1>2 DEF TypeOK, Start, BeginTick, Crash

LEMMA AdvanceType ==
    ASSUME TypeOK, NEW p \in Procs, NEW m \in Msgs, Offer(p, m) \/ Materialise(p, m)
    PROVE  TypeOK'
<1>1. journal[m] \in Handoff /\ receipt[m] \in Receipt
    BY DEF TypeOK
<1>2. /\ [journal[m] EXCEPT !.state = "pending"] \in Handoff
      /\ [journal[m] EXCEPT !.reason = "paused"] \in Handoff
      /\ [receipt[m] EXCEPT !.exists = TRUE] \in Receipt
    BY <1>1, HandoffUpdates, ReceiptUpdates DEF States, Reasons
<1>3. journal' \in [Msgs -> Handoff] /\ receipt' \in [Msgs -> Receipt]
    BY <1>2 DEF TypeOK, Offer, Materialise
<1>4. advancing' \in [Msgs -> Procs \cup {NoProc}]
    BY DEF TypeOK, Offer, Materialise
<1> QED
    BY <1>3, <1>4 DEF TypeOK, Offer, Materialise

LEMMA RecoveryType ==
    ASSUME TypeOK, NEW p \in Procs, NEW m \in Msgs,
           Recovery(p, m) \/ ReceiptUnreadable(p, m)
    PROVE  TypeOK'
<1>1. CASE ReadReceipt(p, m) \/ ReceiptUnreadable(p, m)
    <2>1. \A r \in Receipt : [worker[p] EXCEPT !.at = "interrupted", !.r = r] \in Worker
        BY WorkerFields DEF Worker, Stages
    <2>2. \A r \in Receipt : [worker EXCEPT ![p].at = "interrupted", ![p].r = r]
              = [worker EXCEPT ![p] = [worker[p] EXCEPT !.at = "interrupted", !.r = r]]
        BY DEF TypeOK, Worker
    <2>3. PICK r \in Receipt :
                worker' = [worker EXCEPT ![p].at = "interrupted", ![p].r = r]
        BY <1>1, receipt[m] \in Receipt, EmptyTypes DEF TypeOK, ReadReceipt, ReceiptUnreadable
    <2> DEFINE w == [worker[p] EXCEPT !.at = "interrupted", !.r = r]
    <2>4. worker' = [worker EXCEPT ![p] = w] /\ w \in Worker
        BY <2>1, <2>2, <2>3
    <2> HIDE DEF w
    <2>5. worker' \in [Procs -> Worker]
        BY <2>4 DEF TypeOK
    <2> QED
        BY <1>1, <2>5 DEF TypeOK, ReadReceipt, ReceiptUnreadable
<1>2. CASE RetryInterrupted(p, m)
    BY <1>2, CloseType, "pending" \in States DEF TypeOK, RetryInterrupted, States
<1>3. CASE AdoptReceipt(p, m)
    BY <1>3, SentType, ReturnType DEF TypeOK, AdoptReceipt
<1>4. CASE AbandonInterrupted(p, m)
    BY <1>4, GiveUpType, WorkerFields DEF TypeOK, AbandonInterrupted, GiveUp
<1>5. CASE LeaveSending(p, m)
    BY <1>5, ReturnType DEF TypeOK, LeaveSending
<1> QED
    BY <1>1, <1>2, <1>3, <1>4, <1>5 DEF Recovery

LEMMA LoadType ==
    ASSUME TypeOK, NEW p \in Procs, NEW m \in Msgs, Load(p, m)
    PROVE  worker' \in [Procs -> Worker]
<1> DEFINE rest == [worker[p] EXCEPT !.todo = @ \ {m}]
           read == [rest EXCEPT !.at = "loaded", !.msg = m, !.h = journal[m],
                                !.claim = claim[m]]
<1>1. worker[p] \in Worker /\ journal[m] \in Handoff /\ claim[m] \in Claims
    BY DEF TypeOK
<1>2. rest \in Worker /\ read \in Worker
    BY <1>1 DEF Worker, Stages
<1>3. worker' = [worker EXCEPT ![p] = IF journal[m].state \in Final \/ claim[m] = "deleted"
                                      THEN rest ELSE read]
    BY DEF Load
<1> HIDE DEF read, rest
<1> QED
    BY <1>2, <1>3 DEF TypeOK

LEMMA DecisionType ==
    ASSUME TypeOK, NEW p \in Procs, NEW m \in Msgs, Decision(p, m) \/ Wait(p, m)
    PROVE  TypeOK'
<1>1. CASE Load(p, m)
    BY <1>1, LoadType DEF TypeOK, Load
<1>2. CASE CancelFinished(p, m)
    BY <1>2, CloseType, "cancelled" \in States DEF TypeOK, CancelFinished, States, Final
<1>3. CASE BindSent(p, m)
    BY <1>3, BoundType, ReturnType DEF TypeOK, BindSent
<1>4. CASE NotePaused(p, m)
    <2>1. receipt' \in [Msgs -> Receipt]
        BY <1>4, NotifiedType, WorkerFields DEF TypeOK, NotePaused
    <2>2. worker' \in [Procs -> Worker]
        BY <1>4, GotoType, ReturnType, "noting" \in Stages DEF NotePaused, Stages
    <2> QED
        BY <1>4, <2>1, <2>2 DEF TypeOK, NotePaused
<1>5. CASE WritePaused(p, m)
    <2>1. journal[m] \in Handoff /\ "paused" \in Reasons
        BY DEF TypeOK, Reasons
    <2>2. [journal[m] EXCEPT !.reason = "paused"] \in Handoff
        BY <2>1 DEF Handoff
    <2> QED
        BY <1>5, <2>2, ReturnType DEF TypeOK, WritePaused
<1>6. CASE Wait(p, m)
    BY <1>6, ReturnType DEF TypeOK, Wait
<1> QED
    BY <1>1, <1>2, <1>3, <1>4, <1>5, <1>6 DEF Decision

LEMMA ReserveType ==
    ASSUME TypeOK, NEW p \in Procs, NEW m \in Msgs, Reserve(p, m)
    PROVE  TypeOK'
<1> DEFINE next == [journal[m] EXCEPT !.state = "sending", !.attempt = @ + 1, !.owner = p]
<1>1. worker[p] \in Worker /\ next \in Handoff
    BY ReservedType DEF TypeOK
<1> HIDE DEF next
<1>2. CASE Return(p) /\ journal' = journal
    BY <1>2, ReturnType DEF TypeOK, Reserve
<1>3. CASE /\ journal' = [journal EXCEPT ![m] = next]
           /\ worker' = [worker EXCEPT ![p].at = "reserved", ![p].h = next]
    <2>1. [worker[p] EXCEPT !.at = "reserved", !.h = next] \in Worker
        BY <1>1 DEF Worker, Stages
    <2>2. worker' = [worker EXCEPT ![p] = [worker[p] EXCEPT !.at = "reserved", !.h = next]]
        BY <1>1, <1>3 DEF TypeOK, Worker
    <2> QED
        BY <1>1, <1>3, <2>1, <2>2 DEF TypeOK, Reserve
<1> QED
    BY <1>2, <1>3 DEF Reserve, next

LEMMA RetryType ==
    ASSUME TypeOK, NEW p \in Procs, NEW m \in Msgs, Retry(p, m)
    PROVE  TypeOK'
<1>1. CASE Exhausted(p, m) \/ ClaimGone(p, m)
    BY <1>1, GiveUpType, WorkerFields DEF TypeOK, Exhausted, ClaimGone, GiveUp
<1> QED
    BY <1>1, ReserveType DEF Retry

LEMMA AttemptType ==
    ASSUME TypeOK, NEW p \in Procs, NEW m \in Msgs, Attempt(p, m)
    PROVE  TypeOK'
<1>1. worker[p].h.attempt \in Nat /\ worker[p].reason \in Reasons
    BY WorkerFields
<1>2. CASE MaterialiseAttempt(p, m)
    <2>1. [receipt[m] EXCEPT !.exists = TRUE] \in Receipt
        BY ReceiptUpdates DEF TypeOK
    <2> QED
        BY <1>2, <2>1, GotoType, "ready" \in Stages DEF TypeOK, MaterialiseAttempt, Stages
<1>3. CASE MaterialiseFails(p, m)
    BY <1>1, <1>3, GiveUpType DEF TypeOK, MaterialiseFails, GiveUp
<1>4. CASE Arm(p, m)
    <2>1. receipt' \in [Msgs -> Receipt]
        BY <1>1, <1>4, NotifiedType DEF Arm
    <2> QED
        BY <1>4, <2>1, GotoType, "armed" \in Stages DEF TypeOK, Arm, Stages
<1>5. CASE PauseAttempt(p, m) \/ HoldAttempt(p, m)
    BY <1>5, HoldType DEF TypeOK, PauseAttempt, HoldAttempt, Hold, Reasons
<1>6. CASE ReleaseAttempt(p, m)
    <2>1. [journal[m] EXCEPT !.state = "pending", !.reason = worker[p].reason] \in Handoff
        BY <1>1, HandoffUpdates DEF TypeOK, States
    <2>2. journal' = [journal EXCEPT ![m] = [journal[m] EXCEPT
                                !.state = "pending", !.reason = worker[p].reason]]
        BY <1>6 DEF TypeOK, ReleaseAttempt, Handoff
    <2> QED
        BY <1>6, <2>1, <2>2, ReturnType DEF TypeOK, ReleaseAttempt
<1>7. CASE Type(p, m)
    BY <1>7, GotoType, "typed" \in Stages DEF TypeOK, Type, Stages
<1>8. CASE SendFails(p, m)
    BY <1>1, <1>8, GiveUpType DEF TypeOK, SendFails, GiveUp
<1>9. CASE Confirm(p, m)
    <2>1. receipt' \in [Msgs -> Receipt]
        BY <1>1, <1>9, NotifiedType DEF Confirm
    <2> QED
        BY <1>9, <2>1, GotoType, "confirmed" \in Stages DEF TypeOK, Confirm, Stages
<1>10. CASE RecordSent(p, m)
    BY <1>10, SentType, ReturnType DEF TypeOK, RecordSent
<1>11. CASE RecordUndeliverable(p, m)
    BY <1>11, CloseType, "undeliverable" \in States
       DEF TypeOK, RecordUndeliverable, States, Final
<1> QED
    BY <1>2, <1>3, <1>4, <1>5, <1>6, <1>7, <1>8, <1>9, <1>10, <1>11 DEF Attempt

LEMMA ObserveType ==
    ASSUME TypeOK, NEW p \in Procs, NEW m \in Msgs, ObserveTurn(p, m)
    PROVE  TypeOK'
<1> DEFINE seen == IF journal[m].observed = "null"
                   THEN [journal[m] EXCEPT !.observed = "turn"] ELSE journal[m]
<1>1. journal[m] \in Handoff
    BY DEF TypeOK
<1>2. seen \in Handoff
    BY <1>1 DEF Handoff
<1>3. journal' = [journal EXCEPT ![m] = IF ~Recordable(m) THEN journal[m]
                                        ELSE IF Locked(p, m) THEN seen
                                        ELSE Bound(seen, receipt[m])]
    BY DEF ObserveTurn
<1> HIDE DEF seen
<1> QED
    BY <1>1, <1>2, <1>3, BoundType DEF TypeOK, ObserveTurn

LEMMA OutsideType ==
    ASSUME TypeOK,
           \/ \E p \in Procs, m \in Msgs : JournalRefuses(p, m) \/ StoreError(p, m)
           \/ \E m \in Msgs : ClaimChanges(m) \/ DeleteTask(m)
           \/ GateChanges
    PROVE  TypeOK'
<1>1. CASE \E p \in Procs, m \in Msgs : JournalRefuses(p, m) \/ StoreError(p, m)
    BY <1>1, ReturnType, HandoffAssumption DEF TypeOK, JournalRefuses, StoreError
<1>2. CASE \E m \in Msgs : ClaimChanges(m) \/ DeleteTask(m)
    BY <1>2 DEF TypeOK, ClaimChanges, DeleteTask, Claims
<1>3. CASE GateChanges
    BY <1>3 DEF TypeOK, GateChanges
<1> QED
    BY <1>1, <1>2, <1>3

\* Every step keeps the types.
LEMMA TypeStep == TypeOK /\ [Next]_vars => TypeOK'
<1> SUFFICES ASSUME TypeOK, [Next]_vars PROVE TypeOK'
    OBVIOUS
<1>1. CASE UNCHANGED vars
    BY <1>1 DEF TypeOK, vars
<1>2. CASE Next
    BY <1>2, ProcessType, AdvanceType, RecoveryType, DecisionType, RetryType, AttemptType,
       ObserveType, OutsideType DEF Next
<1> QED
    BY <1>1, <1>2

\* The type invariant.
THEOREM TypeInvariance == Spec => []TypeOK
    BY InitType, TypeStep, PTL DEF Spec

-----------------------------------------------------------------------------
\* What the recurring pieces of a step do to the fields

\* An update without expected fields moves the state and keeps the attempt.
LEMMA CloseEffect ==
    ASSUME TypeOK, NEW p \in Procs, NEW m \in Msgs, NEW s \in States, Close(p, m, s)
    PROVE  /\ journal'[m].state = s
           /\ journal'[m].attempt = journal[m].attempt
           /\ \A n \in Msgs \ {m} : journal'[n] = journal[n]
    BY DEF TypeOK, Close, Handoff

\* Binding a turn changes nothing but sent to started.
LEMMA BoundEffect ==
    ASSUME NEW h \in Handoff, NEW r
    PROVE  /\ Bound(h, r).attempt = h.attempt
           /\ h.state # "sent" => Bound(h, r) = h
           /\ h.state = "sent" => Bound(h, r).state \in {"sent", "started"}
    BY DEF Bound, Handoff

\* The write after a confirmed or adopted send.
LEMMA SentEffect ==
    ASSUME TypeOK, NEW m \in Msgs,
           journal' = [journal EXCEPT ![m] =
                          Bound([@ EXCEPT !.state = "sent", !.reason = "none"], receipt[m])]
    PROVE  /\ journal'[m].state \in {"sent", "started"}
           /\ journal'[m].attempt = journal[m].attempt
           /\ \A n \in Msgs \ {m} : journal'[n] = journal[n]
<1> DEFINE h == [journal[m] EXCEPT !.state = "sent", !.reason = "none"]
<1>1. h \in Handoff /\ h.state = "sent" /\ h.attempt = journal[m].attempt
    BY DEF TypeOK, Handoff, States, Reasons
<1>2. journal'[m] = Bound(h, receipt[m]) /\ \A n \in Msgs \ {m} : journal'[n] = journal[n]
    BY DEF TypeOK
<1> HIDE DEF h
<1> QED
    BY <1>1, <1>2, BoundEffect

\* A reported turn starts a sent hand-off only when its lock is free.
LEMMA ObserveEffect ==
    ASSUME TypeOK, NEW p \in Procs, NEW m \in Msgs, ObserveTurn(p, m)
    PROVE  /\ journal'[m].attempt = journal[m].attempt
           /\ \/ journal'[m].state = journal[m].state
              \/ /\ journal[m].state = "sent"
                 /\ journal'[m].state = "started"
                 /\ ~Locked(p, m)
           /\ \A n \in Msgs \ {m} : journal'[n] = journal[n]
<1> DEFINE seen == IF journal[m].observed = "null"
                   THEN [journal[m] EXCEPT !.observed = "turn"] ELSE journal[m]
<1>1. journal[m] \in Handoff
    BY DEF TypeOK
<1>2. seen \in Handoff /\ seen.state = journal[m].state /\ seen.attempt = journal[m].attempt
    BY <1>1 DEF Handoff
<1>3. /\ \/ journal'[m] = journal[m]
         \/ journal'[m] = IF Locked(p, m) THEN seen ELSE Bound(seen, receipt[m])
      /\ \A n \in Msgs \ {m} : journal'[n] = journal[n]
    BY DEF TypeOK, ObserveTurn
<1> HIDE DEF seen
<1> QED
    BY <1>2, <1>3, BoundEffect

\* A worker that returns is idle, with the rest of its pass to do.
LEMMA ReturnEffect ==
    ASSUME TypeOK, NEW p \in Procs, Return(p)
    PROVE  /\ worker'[p].at = "idle"
           /\ worker'[p].todo = worker[p].todo
           /\ \A q \in Procs \ {p} : worker'[q] = worker[q]
    BY DEF TypeOK, Return, IdleWorker

\* A worker that goes on keeps what it has read.
LEMMA GotoEffect ==
    ASSUME TypeOK, NEW p \in Procs, NEW stage, Goto(p, stage)
    PROVE  /\ worker'[p].at = stage
           /\ worker'[p].msg = worker[p].msg
           /\ worker'[p].h = worker[p].h
           /\ worker'[p].r = worker[p].r
           /\ worker'[p].todo = worker[p].todo
           /\ \A q \in Procs \ {p} : worker'[q] = worker[q]
    BY DEF TypeOK, Goto, Worker

\* Mailing changes nothing of a receipt but its existence.
LEMMA MailEffect ==
    ASSUME TypeOK, NEW m \in Msgs, receipt' = [receipt EXCEPT ![m].exists = TRUE]
    PROVE  /\ receipt'[m].exists
           /\ receipt'[m].notify = receipt[m].notify
           /\ receipt'[m].attempt = receipt[m].attempt
           /\ \A k \in Msgs \ {m} : receipt'[k] = receipt[k]
    BY DEF TypeOK, Receipt

\* A reservation takes the attempt and reads it, or leaves it.
LEMMA ReserveEffect ==
    ASSUME TypeOK, NEW p \in Procs, NEW m \in Msgs, Reserve(p, m)
    PROVE  /\ \A n \in Msgs \ {m} : journal'[n] = journal[n]
           /\ \A q \in Procs \ {p} : worker'[q] = worker[q]
           /\ worker'[p].todo = worker[p].todo
           /\ \/ journal'[m] = journal[m] /\ worker'[p].at = "idle"
              \/ /\ journal[m].state = "pending"
                 /\ journal[m].attempt < MaxAttempts
                 /\ journal'[m].state = "sending"
                 /\ journal'[m].attempt = journal[m].attempt + 1
                 /\ worker'[p].at = "reserved"
                 /\ worker'[p].msg = m
                 /\ worker'[p].h = journal'[m]
<1> DEFINE next == [journal[m] EXCEPT !.state = "sending", !.attempt = @ + 1, !.owner = p]
<1>1. CASE Return(p) /\ journal' = journal
    BY <1>1, ReturnEffect
<1>2. CASE /\ journal[m].state = "pending"
           /\ journal[m].attempt = worker[p].h.attempt
           /\ journal' = [journal EXCEPT ![m] = next]
           /\ worker' = [worker EXCEPT ![p].at = "reserved", ![p].h = next]
    <2>1. next.state = "sending" /\ next.attempt = journal[m].attempt + 1
        BY DEF TypeOK, Handoff
    <2> HIDE DEF next
    <2>2. journal'[m] = next /\ \A n \in Msgs \ {m} : journal'[n] = journal[n]
        BY <1>2 DEF TypeOK
    <2>3. /\ worker'[p].at = "reserved"
          /\ worker'[p].h = next
          /\ worker'[p].msg = worker[p].msg
          /\ worker'[p].todo = worker[p].todo
          /\ \A q \in Procs \ {p} : worker'[q] = worker[q]
        BY <1>2 DEF TypeOK, Worker
    <2>4. worker[p].msg = m /\ journal[m].attempt < MaxAttempts
        BY <1>2 DEF Reserve, PendingLoaded, At
    <2> QED
        BY <1>2, <2>1, <2>2, <2>3, <2>4
<1> QED
    BY <1>1, <1>2 DEF Reserve

-----------------------------------------------------------------------------
\* Attempts are spent

AttemptBound == \A m \in Msgs : journal[m].attempt <= MaxAttempts

\* Only a reservation changes an attempt, and it adds one below the limit.
LEMMA AttemptStep ==
    ASSUME TypeOK, [Next]_vars, NEW n \in Msgs
    PROVE  \/ journal'[n].attempt = journal[n].attempt
           \/ /\ journal[n].attempt < MaxAttempts
              /\ journal'[n].attempt = journal[n].attempt + 1
<1>1. CASE UNCHANGED journal
    BY <1>1
<1>2. CASE \E p \in Procs, m \in Msgs : Reserve(p, m)
    BY <1>2, ReserveEffect
<1>3. CASE \E p \in Procs, m \in Msgs, s \in States : Close(p, m, s)
    BY <1>3, CloseEffect
<1>4. CASE \E m \in Msgs : journal' = [journal EXCEPT ![m] =
                          Bound([@ EXCEPT !.state = "sent", !.reason = "none"], receipt[m])]
    BY <1>4, SentEffect
<1>5. CASE \E m \in Msgs : journal' = [journal EXCEPT ![m] = Bound(@, receipt[m])]
    BY <1>5, BoundEffect DEF TypeOK
<1>6. CASE \E m \in Msgs : \E why : journal' = [journal EXCEPT ![m].reason = why]
    BY <1>6 DEF TypeOK, Handoff
<1>7. CASE \E m \in Msgs : \E why : journal' = [journal EXCEPT ![m].state = "pending",
                                                         ![m].reason = why]
    BY <1>7 DEF TypeOK, Handoff
<1>8. CASE \E m \in Msgs : journal' = [journal EXCEPT ![m].state = "pending"]
    BY <1>8 DEF TypeOK, Handoff
<1>9. CASE \E p \in Procs, m \in Msgs : ObserveTurn(p, m)
    BY <1>9, ObserveEffect
<1>10. CASE \E p \in Procs, m \in Msgs : Recovery(p, m) \/ ReceiptUnreadable(p, m)
    BY <1>1, <1>3, <1>4, <1>10, "pending" \in States
       DEF Recovery, ReadReceipt, ReceiptUnreadable, RetryInterrupted, AdoptReceipt,
           AbandonInterrupted, LeaveSending, GiveUp, States
<1>11. CASE \E p \in Procs, m \in Msgs : Decision(p, m) \/ Wait(p, m)
    BY <1>1, <1>3, <1>5, <1>6, <1>11, "cancelled" \in States
       DEF Decision, Wait, Load, CancelFinished, BindSent, NotePaused, WritePaused,
           States, Final
<1>12. CASE \E p \in Procs, m \in Msgs : Retry(p, m)
    <2>1. PICK p \in Procs, m \in Msgs : Retry(p, m)
        BY <1>12
    <2>2. CASE Exhausted(p, m) \/ ClaimGone(p, m)
        BY <1>1, <2>2 DEF Exhausted, ClaimGone, GiveUp
    <2> QED
        BY <1>2, <2>1, <2>2 DEF Retry
<1>13. CASE \E p \in Procs, m \in Msgs : Attempt(p, m)
    <2>1. PICK p \in Procs, m \in Msgs : Attempt(p, m)
        BY <1>13
    <2>2. CASE ReleaseAttempt(p, m)
        BY <1>7, <2>2 DEF ReleaseAttempt
    <2>3. CASE RecordSent(p, m)
        BY <1>4, <2>3 DEF RecordSent
    <2>4. CASE RecordUndeliverable(p, m)
        BY <1>3, <2>4, "undeliverable" \in States DEF RecordUndeliverable, States, Final
    <2>5. CASE \/ MaterialiseAttempt(p, m) \/ MaterialiseFails(p, m) \/ Arm(p, m)
               \/ PauseAttempt(p, m) \/ HoldAttempt(p, m) \/ Type(p, m)
               \/ SendFails(p, m) \/ Confirm(p, m)
        BY <1>1, <2>5 DEF MaterialiseAttempt, MaterialiseFails, Arm, PauseAttempt,
           HoldAttempt, Type, SendFails, Confirm, GiveUp, Hold
    <2> QED
        BY <2>1, <2>2, <2>3, <2>4, <2>5 DEF Attempt
<1>14. CASE \E p \in Procs, m \in Msgs :
                \/ Offer(p, m) \/ Materialise(p, m)
                \/ JournalRefuses(p, m) \/ StoreError(p, m)
    BY <1>1, <1>6, <1>8, <1>14 DEF Offer, Materialise, JournalRefuses, StoreError
<1>15. CASE \/ \E p \in Procs : Start(p) \/ BeginTick(p) \/ Crash(p)
           \/ \E m \in Msgs : ClaimChanges(m) \/ DeleteTask(m)
           \/ GateChanges
    BY <1>1, <1>15 DEF Start, BeginTick, Crash, ClaimChanges, DeleteTask, GateChanges
<1> QED
    BY <1>1, <1>9, <1>10, <1>11, <1>12, <1>13, <1>14, <1>15 DEF Next, vars

\* The attempts of a hand-off only grow, and never beyond the limit.
THEOREM AttemptsBounded == Spec => AttemptsAreSpent
<1>1. Init => AttemptBound
    BY HandoffAssumption DEF Init, AttemptBound, NoHandoff
<1>2. ASSUME TypeOK, AttemptBound, [Next]_vars
      PROVE  /\ AttemptBound'
             /\ \A m \in Msgs : /\ journal'[m].attempt >= journal[m].attempt
                                /\ journal'[m].attempt <= MaxAttempts
    <2>1. \A m \in Msgs : journal[m].attempt \in Nat
        BY <1>2 DEF TypeOK, Handoff
    <2> QED
        BY <1>2, <2>1, AttemptStep, HandoffAssumption DEF AttemptBound
<1>3. TypeOK /\ AttemptBound /\ [Next]_vars => AttemptBound'
    BY <1>2
<1>4. TypeOK /\ AttemptBound /\ [Next]_vars
        => [\A m \in Msgs : /\ journal'[m].attempt >= journal[m].attempt
                            /\ journal'[m].attempt <= MaxAttempts]_vars
    BY <1>2
<1> QED
    BY <1>1, <1>3, <1>4, TypeInvariance, PTL DEF Spec, AttemptsAreSpent

-----------------------------------------------------------------------------
\* One daemon at a time: the inductive invariant

\* What the three records of a hand-off say of each other.
MsgFits(J, R, T) ==
    /\ J.state \in {"none", "pending"} => T = 0
    /\ J.state = "sending" =>
          /\ T = 1 => R.exists /\ R.attempt = J.attempt
          /\ R.exists /\ R.attempt = J.attempt /\ R.notify = "sent" => T = 1
    /\ J.state \in {"sent", "started"} =>
          T = 1 /\ R.exists /\ R.notify = "sent" /\ R.attempt = J.attempt
    /\ T <= 1
    /\ R.attempt <= J.attempt
    /\ R.notify # "none" => R.exists

\* What they say of the worker w that is inside `deliver` for it.
StageFits(w, J, R, T) ==
    /\ w.at # "idle" => w.h.attempt = J.attempt
    /\ w.at = "loaded" => w.h.state = J.state /\ J.state \notin Final \cup {"none"}
    /\ w.at = "interrupted" =>
          /\ J.state = "sending"
          /\ ~(w.r.exists /\ w.r.attempt = J.attempt) => T = 0
          /\ w.r.exists /\ w.r.attempt = J.attempt /\ w.r.notify = "sent" =>
                T = 1 /\ R.exists /\ R.notify = "sent" /\ R.attempt = J.attempt
    /\ w.at = "noting" => J.state = "pending"
    /\ w.at = "giving_up" => J.state \in {"pending", "sending"}
    /\ w.at \in {"reserved", "ready", "armed", "releasing"} => J.state = "sending" /\ T = 0
    /\ w.at = "ready" => R.exists
    /\ w.at = "armed" => R.exists /\ R.attempt = J.attempt
    /\ w.at = "typed" => J.state = "sending" /\ T = 1
    /\ w.at = "confirmed" => J.state = "sending" /\ T = 1 /\ R.notify = "sent"

OneDaemon == \A p, q \in Procs : Running(p) /\ Running(q) => p = q

MsgInv(m) == MsgFits(journal[m], receipt[m], typed[m])

WorkerInv(p) ==
    LET m == worker[p].msg
    IN  /\ worker[p].at # "idle" =>
              /\ Running(p)
              /\ m \in Msgs
              /\ StageFits(worker[p], journal[m], receipt[m], typed[m])
        /\ \A n \in worker[p].todo : journal[n].state # "none"

HandoffInv ==
    /\ OneDaemon
    /\ \A m \in Msgs : MsgInv(m)
    /\ \A p \in Procs : WorkerInv(p)

\* What one step may do to a hand-off, in the terms of HandoffPromise.
PromiseFits(J, T, J2, T2) ==
    \/ /\ Verdict(J2) = Verdict(J)
       /\ J2.state = "none" <=> J.state = "none"
       /\ T2 = T
    \/ /\ J.state = "none" /\ J2.state # "none"
       /\ Verdict(J2) = Verdict(J) /\ T2 = T
    \/ /\ J.state # "none" /\ J2.state # "none"
       /\ Verdict(J2) = Verdict(J) /\ Verdict(J) = "open"
       /\ T = 0 /\ T2 = 1
    \/ /\ J.state # "none" /\ J2.state # "none"
       /\ Verdict(J) = "open" /\ Verdict(J2) \in {"sent", "undeliverable", "cancelled"}
       /\ Verdict(J2) = "sent" => T = 1
       /\ T2 = T
    \/ /\ J.state # "none" /\ J2.state # "none"
       /\ Verdict(J) = "sent" /\ Verdict(J2) = "cancelled"
       /\ T2 = T

\* What each journal state says to the outside.
LEMMA VerdictIs ==
    ASSUME NEW h
    PROVE  /\ h.state \in {"none", "pending", "sending"} => Verdict(h) = "open"
           /\ h.state \in {"sent", "started"} => Verdict(h) = "sent"
           /\ h.state = "undeliverable" => Verdict(h) = "undeliverable"
           /\ h.state = "cancelled" => Verdict(h) = "cancelled"
    BY DEF Verdict

\* A step of the worker of p inside `deliver` for m: what it leaves alone, and what has to
\* hold of the hand-off after it.
LocalStep(p, m) ==
    /\ up' = up
    /\ \A n \in Msgs \ {m} : /\ journal'[n] = journal[n]
                             /\ receipt'[n] = receipt[n]
                             /\ typed'[n] = typed[n]
    /\ \A q \in Procs \ {p} : worker'[q] = worker[q]
    /\ worker'[p].todo \subseteq worker[p].todo
    /\ worker'[p].at # "idle" => Running(p) /\ worker'[p].msg = m
    /\ journal'[m].state # "none"
    /\ MsgFits(journal'[m], receipt'[m], typed'[m])
    /\ StageFits(worker'[p], journal'[m], receipt'[m], typed'[m])
    /\ PromiseFits(journal[m], typed[m], journal'[m], typed'[m])

\* What is known when the worker of p is in `deliver` for m.
LEMMA AtStage ==
    ASSUME TypeOK, HandoffInv, NEW p \in Procs, NEW m \in Msgs,
           NEW stage \in Stages \ {"idle"}, At(p, m, stage)
    PROVE  /\ Running(p) /\ worker[p].at = stage /\ worker[p].msg = m
           /\ MsgFits(journal[m], receipt[m], typed[m])
           /\ StageFits(worker[p], journal[m], receipt[m], typed[m])
           /\ journal[m].state # "none" /\ journal[m].state \in States
           /\ journal[m].attempt \in Nat /\ receipt[m].attempt \in Nat /\ typed[m] \in Nat
<1>1. Running(p) /\ worker[p].at = stage /\ worker[p].msg = m
    BY DEF At
<1>2. /\ MsgFits(journal[m], receipt[m], typed[m])
      /\ StageFits(worker[p], journal[m], receipt[m], typed[m])
    BY <1>1 DEF HandoffInv, MsgInv, WorkerInv
<1>3. journal[m].state # "none"
    BY <1>1, <1>2 DEF StageFits, Stages
<1>4. /\ journal[m].state \in States /\ journal[m].attempt \in Nat
      /\ receipt[m].attempt \in Nat /\ typed[m] \in Nat
    BY DEF TypeOK, Handoff, Receipt
<1> QED
    BY <1>1, <1>2, <1>3, <1>4

\* A worker that returns with the hand-off as it was.
LEMMA LeavesAlone ==
    ASSUME TypeOK, HandoffInv, NEW p \in Procs, NEW m \in Msgs,
           NEW stage \in Stages \ {"idle"}, At(p, m, stage),
           Return(p), UNCHANGED <<journal, receipt, typed, up>>
    PROVE  LocalStep(p, m)
    BY AtStage, ReturnEffect DEF LocalStep, StageFits, PromiseFits

\* The writes that close a hand-off, or reopen an attempt that was never typed.
LEMMA ClosesFit ==
    ASSUME TypeOK, HandoffInv, NEW p \in Procs, NEW m \in Msgs,
           \/ CancelFinished(p, m)
           \/ RetryInterrupted(p, m)
           \/ RecordUndeliverable(p, m)
    PROVE  LocalStep(p, m)
<1>1. CASE CancelFinished(p, m)
    <2>1. At(p, m, "loaded") /\ Close(p, m, "cancelled") /\ UNCHANGED <<receipt, typed, up>>
        BY <1>1 DEF CancelFinished
    <2>2. "loaded" \in Stages \ {"idle"} /\ "cancelled" \in States
        BY DEF Stages, States, Final
    <2>3. Return(p)
        BY <2>1 DEF Close
    <2>4. Verdict(journal[m]) \in {"open", "sent"}
        BY <2>1, <2>2, AtStage, VerdictIs DEF StageFits, States, Final
    <2> QED
        BY <2>1, <2>2, <2>3, <2>4, AtStage, CloseEffect, ReturnEffect, VerdictIs
           DEF LocalStep, StageFits, MsgFits, PromiseFits
<1>2. CASE RetryInterrupted(p, m)
    <2>1. /\ At(p, m, "interrupted") /\ Close(p, m, "pending")
          /\ UNCHANGED <<receipt, typed, up>>
          /\ ~(worker[p].r.exists /\ worker[p].r.attempt = worker[p].h.attempt)
        BY <1>2 DEF RetryInterrupted
    <2>2. "interrupted" \in Stages \ {"idle"} /\ "pending" \in States
        BY DEF Stages, States, Final
    <2>3. Return(p)
        BY <2>1 DEF Close
    <2>4. journal[m].state = "sending" /\ typed[m] = 0
        BY <2>1, <2>2, AtStage DEF StageFits
    <2> QED
        BY <2>1, <2>2, <2>3, <2>4, AtStage, CloseEffect, ReturnEffect, VerdictIs
           DEF LocalStep, StageFits, MsgFits, PromiseFits
<1>3. CASE RecordUndeliverable(p, m)
    <2>1. /\ At(p, m, "giving_up") /\ Close(p, m, "undeliverable")
          /\ UNCHANGED <<receipt, typed, up>>
        BY <1>3 DEF RecordUndeliverable
    <2>2. "giving_up" \in Stages \ {"idle"} /\ "undeliverable" \in States
        BY DEF Stages, States, Final
    <2>3. Return(p)
        BY <2>1 DEF Close
    <2>4. Verdict(journal[m]) = "open"
        BY <2>1, <2>2, AtStage, VerdictIs DEF StageFits
    <2> QED
        BY <2>1, <2>2, <2>3, <2>4, AtStage, CloseEffect, ReturnEffect, VerdictIs
           DEF LocalStep, StageFits, MsgFits, PromiseFits
<1> QED
    BY <1>1, <1>2, <1>3

\* The receipt of a hand-off that is given up is written from any stage.
LEMMA GiveUpFits ==
    ASSUME TypeOK, HandoffInv, NEW p \in Procs, NEW m \in Msgs,
           NEW stage \in Stages \ {"idle"}, At(p, m, stage),
           journal[m].state \in {"pending", "sending"},
           GiveUp(p, m, worker[p].h.attempt), UNCHANGED <<typed, up>>
    PROVE  LocalStep(p, m)
<1>1. Goto(p, "giving_up") /\ journal' = journal
    BY DEF GiveUp
<1>2. worker[p].h.attempt = journal[m].attempt
    BY AtStage DEF StageFits
<1>3. /\ receipt[m].exists => /\ receipt'[m].exists
                              /\ receipt'[m].notify = "undeliverable"
                              /\ receipt'[m].attempt = journal[m].attempt
      /\ ~receipt[m].exists => receipt'[m] = receipt[m]
      /\ \A k \in Msgs \ {m} : receipt'[k] = receipt[k]
    <2>1. receipt' = [receipt EXCEPT ![m] =
                         Notified(@, "undeliverable", journal[m].attempt)]
        BY <1>2 DEF GiveUp
    <2> QED
        BY <2>1 DEF TypeOK, Notified, Receipt
<1> QED
    BY <1>1, <1>2, <1>3, AtStage, GotoEffect
       DEF LocalStep, StageFits, MsgFits, PromiseFits

\* The places where `deliver` gives up.
LEMMA GivesUp ==
    ASSUME TypeOK, HandoffInv, NEW p \in Procs, NEW m \in Msgs,
           \/ AbandonInterrupted(p, m)
           \/ Exhausted(p, m)
           \/ ClaimGone(p, m)
           \/ MaterialiseFails(p, m)
           \/ SendFails(p, m)
    PROVE  LocalStep(p, m)
<1>1. PICK stage \in {"interrupted", "loaded", "reserved", "armed", "typed"} :
            /\ At(p, m, stage)
            /\ stage = "loaded" => worker[p].h.state = "pending"
            /\ GiveUp(p, m, worker[p].h.attempt)
            /\ UNCHANGED <<typed, up>>
    BY DEF AbandonInterrupted, Exhausted, ClaimGone, MaterialiseFails, SendFails,
           PendingLoaded
<1>2. stage \in Stages \ {"idle"}
    BY DEF Stages
<1>3. journal[m].state \in {"pending", "sending"}
    BY <1>1, <1>2, AtStage DEF StageFits
<1> QED
    BY <1>1, <1>2, <1>3, GiveUpFits

\* A hold before the first key writes the receipt; nothing has been typed.
LEMMA Holds ==
    ASSUME TypeOK, HandoffInv, NEW p \in Procs, NEW m \in Msgs,
           PauseAttempt(p, m) \/ HoldAttempt(p, m)
    PROVE  LocalStep(p, m)
<1>1. PICK stage \in {"reserved", "ready", "armed"}, why \in Reasons :
            At(p, m, stage) /\ Hold(p, m, why) /\ UNCHANGED up
    BY DEF PauseAttempt, HoldAttempt, Reasons
<1>2. stage \in Stages \ {"idle"}
    BY DEF Stages
<1>3. /\ worker[p].h.attempt = journal[m].attempt
      /\ journal[m].state = "sending" /\ typed[m] = 0
    BY <1>1, <1>2, AtStage DEF StageFits
<1>4. /\ receipt[m].exists => /\ receipt'[m].exists
                              /\ receipt'[m].notify = "queued"
                              /\ receipt'[m].attempt = journal[m].attempt
      /\ ~receipt[m].exists => receipt'[m] = receipt[m]
      /\ \A k \in Msgs \ {m} : receipt'[k] = receipt[k]
    <2>1. receipt' = [receipt EXCEPT ![m] = Notified(@, "queued", journal[m].attempt)]
        BY <1>1, <1>3 DEF Hold
    <2> QED
        BY <2>1 DEF TypeOK, Notified, Receipt
<1>5. /\ worker'[p].at = "releasing" /\ worker'[p].msg = m
      /\ worker'[p].h = worker[p].h /\ worker'[p].todo = worker[p].todo
      /\ \A q \in Procs \ {p} : worker'[q] = worker[q]
    <2>1. worker' = [worker EXCEPT ![p].at = "releasing", ![p].reason = why]
        BY <1>1 DEF Hold
    <2>2. worker \in [Procs -> Worker] /\ worker[p].msg = m
        BY <1>1 DEF TypeOK, At
    <2> QED
        BY <2>1, <2>2 DEF Worker
<1>6. UNCHANGED <<journal, typed, up>>
    BY <1>1 DEF Hold
<1>7. /\ Running(p) /\ MsgFits(journal[m], receipt[m], typed[m])
      /\ receipt[m].attempt \in Nat /\ journal[m].attempt \in Nat
    BY <1>1, <1>2, AtStage
<1>8. MsgFits(journal'[m], receipt'[m], typed'[m])
    BY <1>3, <1>4, <1>6, <1>7 DEF MsgFits
<1>9. StageFits(worker'[p], journal'[m], receipt'[m], typed'[m])
    BY <1>3, <1>5, <1>6 DEF StageFits
<1> QED
    BY <1>3, <1>4, <1>5, <1>6, <1>7, <1>8, <1>9 DEF LocalStep, PromiseFits

\* What the worker reads under the pane lock is what the journal says.
LEMMA Loads ==
    ASSUME TypeOK, HandoffInv, NEW p \in Procs, NEW m \in Msgs, Load(p, m)
    PROVE  LocalStep(p, m)
<1> DEFINE rest == [worker[p] EXCEPT !.todo = @ \ {m}]
           read == [rest EXCEPT !.at = "loaded", !.msg = m, !.h = journal[m],
                                !.claim = claim[m]]
<1>1. worker[p] \in Worker
    BY DEF TypeOK
<1>2. /\ rest.at = worker[p].at /\ rest.todo = worker[p].todo \ {m}
      /\ read.at = "loaded" /\ read.msg = m /\ read.h = journal[m]
      /\ read.todo = worker[p].todo \ {m}
    BY <1>1 DEF Worker
<1>3. worker' = [worker EXCEPT ![p] = IF journal[m].state \in Final \/ claim[m] = "deleted"
                                      THEN rest ELSE read]
    BY DEF Load
<1> HIDE DEF rest, read
<1>4. /\ worker'[p] = rest \/ (worker'[p] = read /\ journal[m].state \notin Final)
      /\ \A q \in Procs \ {p} : worker'[q] = worker[q]
    BY <1>3 DEF TypeOK
<1>5. /\ Running(p) /\ worker[p].at = "idle" /\ m \in worker[p].todo
      /\ UNCHANGED <<journal, receipt, typed, up>>
    BY DEF Load
<1>6. journal[m].state # "none" /\ MsgFits(journal[m], receipt[m], typed[m])
    BY <1>5 DEF HandoffInv, WorkerInv, MsgInv
<1> QED
    BY <1>2, <1>4, <1>5, <1>6 DEF LocalStep, StageFits, PromiseFits

\* The receipt is read of an attempt whose owner is dead, so nobody types meanwhile.
LEMMA Reads ==
    ASSUME TypeOK, HandoffInv, NEW p \in Procs, NEW m \in Msgs, ReadReceipt(p, m)
    PROVE  LocalStep(p, m)
<1>1. /\ At(p, m, "loaded") /\ worker[p].h.state = "sending"
      /\ UNCHANGED <<journal, receipt, typed, up>>
    BY DEF ReadReceipt
<1>2. /\ worker'[p].at = "interrupted" /\ worker'[p].msg = worker[p].msg
      /\ worker'[p].h = worker[p].h /\ worker'[p].r = receipt[m]
      /\ worker'[p].todo = worker[p].todo
      /\ \A q \in Procs \ {p} : worker'[q] = worker[q]
    BY DEF ReadReceipt, TypeOK, Worker
<1>3. "loaded" \in Stages \ {"idle"}
    BY DEF Stages
<1>4. journal[m].state = "sending"
    BY <1>1, <1>3, AtStage DEF StageFits
<1>5. typed[m] = 0 \/ typed[m] = 1
    BY <1>1, <1>3, AtStage DEF MsgFits
<1> QED
    BY <1>1, <1>2, <1>3, <1>4, <1>5, AtStage DEF LocalStep, StageFits, MsgFits, PromiseFits

\* The journal is told that the prompt was sent, by a recovery or by the attempt itself.
LEMMA Sends ==
    ASSUME TypeOK, HandoffInv, NEW p \in Procs, NEW m \in Msgs,
           AdoptReceipt(p, m) \/ RecordSent(p, m)
    PROVE  LocalStep(p, m)
<1>1. PICK stage \in {"interrupted", "confirmed"} :
            /\ At(p, m, stage)
            /\ stage = "interrupted" => /\ worker[p].r.exists
                                        /\ worker[p].r.attempt = worker[p].h.attempt
                                        /\ worker[p].r.notify = "sent"
    BY DEF AdoptReceipt, RecordSent
<1>2. stage \in Stages \ {"idle"}
    BY DEF Stages
<1>3. /\ journal' = [journal EXCEPT ![m] =
                        Bound([@ EXCEPT !.state = "sent", !.reason = "none"], receipt[m])]
      /\ Return(p)
      /\ UNCHANGED <<receipt, typed, up>>
    BY DEF AdoptReceipt, RecordSent
<1>4. /\ journal'[m].state \in {"sent", "started"}
      /\ journal'[m].attempt = journal[m].attempt
      /\ \A n \in Msgs \ {m} : journal'[n] = journal[n]
    BY <1>3, SentEffect
<1>5. /\ MsgFits(journal[m], receipt[m], typed[m])
      /\ StageFits(worker[p], journal[m], receipt[m], typed[m])
      /\ worker[p].at = stage
    BY <1>1, <1>2, AtStage
<1>6. /\ journal[m].state = "sending" /\ typed[m] = 1
      /\ receipt[m].exists /\ receipt[m].notify = "sent"
      /\ receipt[m].attempt = journal[m].attempt
    BY <1>1, <1>5 DEF StageFits, MsgFits
<1>7. receipt'[m] = receipt[m] /\ typed'[m] = typed[m]
    BY <1>3
<1>8. MsgFits(journal'[m], receipt'[m], typed'[m])
    BY <1>4, <1>5, <1>6, <1>7 DEF MsgFits
<1>9. PromiseFits(journal[m], typed[m], journal'[m], typed'[m])
    BY <1>4, <1>6, <1>7, VerdictIs DEF PromiseFits
<1> QED
    BY <1>3, <1>4, <1>8, <1>9, ReturnEffect DEF LocalStep, StageFits

\* A sent hand-off stays sent, or is started.
LEMMA Binds ==
    ASSUME TypeOK, HandoffInv, NEW p \in Procs, NEW m \in Msgs, BindSent(p, m)
    PROVE  LocalStep(p, m)
<1>1. /\ At(p, m, "loaded") /\ worker[p].h.state = "sent"
      /\ journal' = [journal EXCEPT ![m] = Bound(@, receipt[m])]
      /\ Return(p) /\ UNCHANGED <<receipt, typed, up>>
    BY DEF BindSent
<1>2. "loaded" \in Stages \ {"idle"}
    BY DEF Stages
<1>3. /\ MsgFits(journal[m], receipt[m], typed[m]) /\ journal[m].state = "sent"
    BY <1>1, <1>2, AtStage DEF StageFits
<1>4. /\ journal'[m].state \in {"sent", "started"}
      /\ journal'[m].attempt = journal[m].attempt
      /\ \A n \in Msgs \ {m} : journal'[n] = journal[n]
    BY <1>1, <1>3, BoundEffect DEF TypeOK
<1>5. receipt'[m] = receipt[m] /\ typed'[m] = typed[m]
    BY <1>1
<1>6. MsgFits(journal'[m], receipt'[m], typed'[m])
    BY <1>3, <1>4, <1>5 DEF MsgFits
<1>7. PromiseFits(journal[m], typed[m], journal'[m], typed'[m])
    BY <1>3, <1>4, <1>5, VerdictIs DEF PromiseFits
<1> QED
    BY <1>1, <1>4, <1>6, <1>7, ReturnEffect DEF LocalStep, StageFits

\* A refusal of the gate is noted, and the attempt stays as it was.
LEMMA NotesPause ==
    ASSUME TypeOK, HandoffInv, NEW p \in Procs, NEW m \in Msgs,
           NotePaused(p, m) \/ WritePaused(p, m)
    PROVE  LocalStep(p, m)
<1>1. CASE NotePaused(p, m)
    <2>1. /\ At(p, m, "loaded") /\ worker[p].h.state = "pending"
          /\ UNCHANGED <<journal, typed, up>>
        BY <1>1 DEF NotePaused, PendingLoaded
    <2>2. "loaded" \in Stages \ {"idle"}
        BY DEF Stages
    <2>3. /\ Running(p) /\ worker[p].msg = m
          /\ journal[m].state = "pending" /\ worker[p].h.attempt = journal[m].attempt
          /\ MsgFits(journal[m], receipt[m], typed[m])
          /\ journal[m].attempt \in Nat /\ receipt[m].attempt \in Nat
        BY <2>1, <2>2, AtStage DEF StageFits
    <2>4. CASE Return(p) /\ UNCHANGED receipt
        BY <2>1, <2>2, <2>4, LeavesAlone
    <2>5. CASE /\ receipt' = [receipt EXCEPT ![m] =
                                 Notified(@, "queued", worker[p].h.attempt)]
               /\ Goto(p, "noting")
        <3>1. receipt' = [receipt EXCEPT ![m] = Notified(@, "queued", journal[m].attempt)]
            BY <2>3, <2>5
        <3>2. /\ receipt'[m].attempt <= journal[m].attempt
              /\ receipt'[m].notify # "none" => receipt'[m].exists
              /\ \A k \in Msgs \ {m} : receipt'[k] = receipt[k]
            BY <2>3, <3>1 DEF TypeOK, Notified, Receipt, MsgFits
        <3>3. MsgFits(journal'[m], receipt'[m], typed'[m])
            BY <2>1, <2>3, <3>2 DEF MsgFits
        <3> QED
            BY <2>1, <2>3, <2>5, <3>2, <3>3, GotoEffect DEF LocalStep, StageFits, PromiseFits
    <2> QED
        BY <1>1, <2>4, <2>5 DEF NotePaused
<1>2. CASE WritePaused(p, m)
    <2>1. /\ At(p, m, "noting") /\ Return(p)
          /\ journal' = [journal EXCEPT ![m].reason = "paused"]
          /\ UNCHANGED <<receipt, typed, up>>
        BY <1>2 DEF WritePaused
    <2>2. "noting" \in Stages \ {"idle"}
        BY DEF Stages
    <2>3. journal[m].state = "pending" /\ MsgFits(journal[m], receipt[m], typed[m])
        BY <2>1, <2>2, AtStage DEF StageFits
    <2>4. /\ journal'[m].state = "pending" /\ journal'[m].attempt = journal[m].attempt
          /\ \A n \in Msgs \ {m} : journal'[n] = journal[n]
        BY <2>1, <2>3 DEF TypeOK, Handoff
    <2>5. MsgFits(journal'[m], receipt'[m], typed'[m])
        BY <2>1, <2>3, <2>4 DEF MsgFits
    <2> QED
        BY <2>1, <2>3, <2>4, <2>5, ReturnEffect, VerdictIs DEF LocalStep, StageFits, PromiseFits
<1> QED
    BY <1>1, <1>2

\* The compare-and-swap gives a new number to an attempt that was never typed.
LEMMA Reserves ==
    ASSUME TypeOK, HandoffInv, NEW p \in Procs, NEW m \in Msgs, Reserve(p, m)
    PROVE  LocalStep(p, m)
<1>1. At(p, m, "loaded") /\ UNCHANGED <<receipt, typed, up>>
    BY DEF Reserve, PendingLoaded
<1>2. "loaded" \in Stages \ {"idle"}
    BY DEF Stages
<1>3. /\ Running(p) /\ journal[m].state # "none"
      /\ MsgFits(journal[m], receipt[m], typed[m])
      /\ journal[m].attempt \in Nat /\ receipt[m].attempt \in Nat
    BY <1>1, <1>2, AtStage
<1>4. receipt'[m] = receipt[m] /\ typed'[m] = typed[m]
    BY <1>1
<1>5. CASE journal'[m] = journal[m] /\ worker'[p].at = "idle"
    BY <1>1, <1>3, <1>4, <1>5, ReserveEffect DEF LocalStep, StageFits, PromiseFits
<1>6. CASE /\ journal[m].state = "pending"
           /\ journal'[m].state = "sending"
           /\ journal'[m].attempt = journal[m].attempt + 1
           /\ worker'[p].at = "reserved"
           /\ worker'[p].msg = m
           /\ worker'[p].h = journal'[m]
    <2>1. MsgFits(journal'[m], receipt'[m], typed'[m]) /\ typed[m] = 0
        BY <1>3, <1>4, <1>6 DEF MsgFits
    <2>2. StageFits(worker'[p], journal'[m], receipt'[m], typed'[m])
        BY <1>4, <1>6, <2>1 DEF StageFits
    <2>3. PromiseFits(journal[m], typed[m], journal'[m], typed'[m])
        BY <1>4, <1>6, VerdictIs DEF PromiseFits
    <2> QED
        BY <1>1, <1>3, <1>6, <2>1, <2>2, <2>3, ReserveEffect DEF LocalStep
<1> QED
    BY <1>5, <1>6, ReserveEffect

\* In the attempt the message is put in the inbox.
LEMMA Mails ==
    ASSUME TypeOK, HandoffInv, NEW p \in Procs, NEW m \in Msgs, MaterialiseAttempt(p, m)
    PROVE  LocalStep(p, m)
<1>1. /\ At(p, m, "reserved") /\ Goto(p, "ready") /\ UNCHANGED <<journal, typed, up>>
      /\ receipt' = [receipt EXCEPT ![m].exists = TRUE]
    BY DEF MaterialiseAttempt
<1>2. "reserved" \in Stages \ {"idle"}
    BY DEF Stages
<1>3. /\ Running(p) /\ worker[p].msg = m /\ journal[m].state = "sending" /\ typed[m] = 0
      /\ MsgFits(journal[m], receipt[m], typed[m])
      /\ worker[p].h.attempt = journal[m].attempt
    BY <1>1, <1>2, AtStage DEF StageFits
<1>4. /\ receipt'[m].exists
      /\ receipt'[m].notify = receipt[m].notify /\ receipt'[m].attempt = receipt[m].attempt
      /\ \A k \in Msgs \ {m} : receipt'[k] = receipt[k]
    BY <1>1, MailEffect
<1>5. ~(receipt[m].attempt = journal[m].attempt /\ receipt[m].notify = "sent")
    BY <1>3 DEF MsgFits
<1>6. MsgFits(journal'[m], receipt'[m], typed'[m])
    BY <1>1, <1>3, <1>4, <1>5 DEF MsgFits
<1> QED
    BY <1>1, <1>3, <1>4, <1>6, GotoEffect DEF LocalStep, StageFits, PromiseFits

\* The receipt names the attempt before the first key.
LEMMA Arms ==
    ASSUME TypeOK, HandoffInv, NEW p \in Procs, NEW m \in Msgs, Arm(p, m)
    PROVE  LocalStep(p, m)
<1>1. /\ At(p, m, "ready") /\ Goto(p, "armed") /\ UNCHANGED <<journal, typed, up>>
    BY DEF Arm
<1>2. "ready" \in Stages \ {"idle"}
    BY DEF Stages
<1>3. /\ Running(p) /\ worker[p].msg = m /\ journal[m].state = "sending" /\ typed[m] = 0
      /\ MsgFits(journal[m], receipt[m], typed[m]) /\ receipt[m].exists
      /\ worker[p].h.attempt = journal[m].attempt /\ journal[m].attempt \in Nat
    BY <1>1, <1>2, AtStage DEF StageFits
<1>4. /\ receipt'[m].exists
      /\ receipt'[m].notify = "queued" /\ receipt'[m].attempt = journal[m].attempt
      /\ \A k \in Msgs \ {m} : receipt'[k] = receipt[k]
    <2>1. receipt' = [receipt EXCEPT ![m] = Notified(@, "queued", journal[m].attempt)]
        BY <1>3 DEF Arm
    <2> QED
        BY <1>3, <2>1 DEF TypeOK, Notified, Receipt
<1>5. MsgFits(journal'[m], receipt'[m], typed'[m])
    BY <1>1, <1>3, <1>4 DEF MsgFits
<1> QED
    BY <1>1, <1>3, <1>4, <1>5, GotoEffect DEF LocalStep, StageFits, PromiseFits

\* The prompt is typed by the attempt that the journal and the receipt name.
LEMMA Types ==
    ASSUME TypeOK, HandoffInv, NEW p \in Procs, NEW m \in Msgs, Type(p, m)
    PROVE  LocalStep(p, m)
<1>1. /\ At(p, m, "armed") /\ Goto(p, "typed") /\ UNCHANGED <<journal, receipt, up>>
    BY DEF Type
<1>2. "armed" \in Stages \ {"idle"}
    BY DEF Stages
<1>3. /\ Running(p) /\ worker[p].msg = m /\ journal[m].state = "sending" /\ typed[m] = 0
      /\ MsgFits(journal[m], receipt[m], typed[m])
      /\ receipt[m].exists /\ receipt[m].attempt = journal[m].attempt
      /\ worker[p].h.attempt = journal[m].attempt
    BY <1>1, <1>2, AtStage DEF StageFits
<1>4. typed'[m] = 1 /\ \A n \in Msgs \ {m} : typed'[n] = typed[n]
    BY <1>3 DEF Type, TypeOK
<1>5. MsgFits(journal'[m], receipt'[m], typed'[m])
    BY <1>1, <1>3, <1>4 DEF MsgFits
<1>6. PromiseFits(journal[m], typed[m], journal'[m], typed'[m])
    BY <1>1, <1>3, <1>4, VerdictIs DEF PromiseFits
<1> QED
    BY <1>1, <1>3, <1>4, <1>5, <1>6, GotoEffect DEF LocalStep, StageFits

\* The receipt says sent while the journal still says sending.
LEMMA Confirms ==
    ASSUME TypeOK, HandoffInv, NEW p \in Procs, NEW m \in Msgs, Confirm(p, m)
    PROVE  LocalStep(p, m)
<1>1. /\ At(p, m, "typed") /\ Goto(p, "confirmed") /\ UNCHANGED <<journal, typed, up>>
    BY DEF Confirm
<1>2. "typed" \in Stages \ {"idle"}
    BY DEF Stages
<1>3. /\ Running(p) /\ worker[p].msg = m /\ journal[m].state = "sending" /\ typed[m] = 1
      /\ MsgFits(journal[m], receipt[m], typed[m])
      /\ worker[p].h.attempt = journal[m].attempt /\ journal[m].attempt \in Nat
    BY <1>1, <1>2, AtStage DEF StageFits
<1>4. /\ receipt'[m].exists
      /\ receipt'[m].notify = "sent" /\ receipt'[m].attempt = journal[m].attempt
      /\ \A k \in Msgs \ {m} : receipt'[k] = receipt[k]
    <2>1. receipt' = [receipt EXCEPT ![m] = Notified(@, "sent", journal[m].attempt)]
        BY <1>3 DEF Confirm
    <2>2. receipt[m].exists
        BY <1>3 DEF MsgFits
    <2> QED
        BY <2>1, <2>2 DEF TypeOK, Notified, Receipt
<1>5. MsgFits(journal'[m], receipt'[m], typed'[m])
    BY <1>1, <1>3, <1>4 DEF MsgFits
<1> QED
    BY <1>1, <1>3, <1>4, <1>5, GotoEffect DEF LocalStep, StageFits, PromiseFits

\* A held attempt goes back to pending, and was not typed.
LEMMA Releases ==
    ASSUME TypeOK, HandoffInv, NEW p \in Procs, NEW m \in Msgs, ReleaseAttempt(p, m)
    PROVE  LocalStep(p, m)
<1>1. /\ At(p, m, "releasing") /\ Return(p) /\ UNCHANGED <<receipt, typed, up>>
    BY DEF ReleaseAttempt
<1>2. "releasing" \in Stages \ {"idle"}
    BY DEF Stages
<1>3. /\ journal[m].state = "sending" /\ typed[m] = 0
      /\ MsgFits(journal[m], receipt[m], typed[m])
    BY <1>1, <1>2, AtStage DEF StageFits
<1>4. /\ journal'[m].state = "pending" /\ journal'[m].attempt = journal[m].attempt
      /\ \A n \in Msgs \ {m} : journal'[n] = journal[n]
    BY DEF ReleaseAttempt, TypeOK, Handoff
<1>5. MsgFits(journal'[m], receipt'[m], typed'[m])
    BY <1>1, <1>3, <1>4 DEF MsgFits
<1>6. PromiseFits(journal[m], typed[m], journal'[m], typed'[m])
    BY <1>1, <1>3, <1>4, VerdictIs DEF PromiseFits
<1> QED
    BY <1>1, <1>4, <1>5, <1>6, ReturnEffect DEF LocalStep, StageFits

\* The steps that leave the hand-off as it was.
LEMMA Returns ==
    ASSUME TypeOK, HandoffInv, NEW p \in Procs, NEW m \in Msgs,
           \/ LeaveSending(p, m) \/ Wait(p, m)
           \/ JournalRefuses(p, m) \/ StoreError(p, m)
    PROVE  LocalStep(p, m)
<1>1. PICK stage \in Stages \ {"idle"} : At(p, m, stage)
    BY DEF LeaveSending, Wait, JournalRefuses, StoreError, PendingLoaded, Stages
<1>2. Return(p) /\ UNCHANGED <<journal, receipt, typed, up>>
    BY DEF LeaveSending, Wait, JournalRefuses, StoreError
<1> QED
    BY <1>1, <1>2, LeavesAlone

\* Every step of a worker inside `deliver` is a local step.
LEMMA DeliverSteps ==
    ASSUME TypeOK, HandoffInv, NEW p \in Procs, NEW m \in Msgs,
           \/ Recovery(p, m) \/ Decision(p, m) \/ Wait(p, m)
           \/ Retry(p, m) \/ Attempt(p, m) \/ JournalRefuses(p, m) \/ StoreError(p, m)
    PROVE  LocalStep(p, m)
<1>1. CASE Recovery(p, m)
    BY <1>1, Reads, ClosesFit, Sends, GivesUp, Returns DEF Recovery
<1>2. CASE Decision(p, m)
    BY <1>2, Loads, ClosesFit, Binds, NotesPause DEF Decision
<1>3. CASE Retry(p, m)
    BY <1>3, GivesUp, Reserves DEF Retry
<1>4. CASE Attempt(p, m)
    BY <1>4, Mails, GivesUp, Arms, Holds, Releases, Types, Confirms, Sends, ClosesFit
       DEF Attempt
<1> QED
    BY <1>1, <1>2, <1>3, <1>4, Returns

\* With one daemon no other worker is in `deliver`, so a local step keeps the invariant.
LEMMA LocalKeeps ==
    ASSUME TypeOK, HandoffInv, NEW p \in Procs, NEW m \in Msgs, Running(p), LocalStep(p, m)
    PROVE  HandoffInv'
<1>1. /\ up' = up
      /\ \A n \in Msgs \ {m} : /\ journal'[n] = journal[n]
                               /\ receipt'[n] = receipt[n]
                               /\ typed'[n] = typed[n]
      /\ \A q \in Procs \ {p} : worker'[q] = worker[q]
      /\ worker'[p].todo \subseteq worker[p].todo
      /\ worker'[p].at # "idle" => Running(p) /\ worker'[p].msg = m
      /\ journal'[m].state # "none"
      /\ MsgFits(journal'[m], receipt'[m], typed'[m])
      /\ StageFits(worker'[p], journal'[m], receipt'[m], typed'[m])
    BY DEF LocalStep
<1>2. OneDaemon'
    BY <1>1 DEF HandoffInv, OneDaemon, Running
<1>3. ASSUME NEW n \in Msgs PROVE MsgInv(n)'
    BY <1>1 DEF HandoffInv, MsgInv
<1>4. ASSUME NEW q \in Procs PROVE WorkerInv(q)'
    <2>1. \A n \in Msgs : journal[n].state # "none" => journal'[n].state # "none"
        BY <1>1
    <2>2. \A n \in worker[q].todo : n \in Msgs /\ journal[n].state # "none"
        BY DEF HandoffInv, WorkerInv, TypeOK, Worker
    <2>3. CASE q = p
        BY <1>1, <2>1, <2>2, <2>3 DEF WorkerInv, Running
    <2>4. CASE q # p
        <3>1. worker'[q] = worker[q]
            BY <1>1, <2>4
        <3>2. worker[q].at = "idle"
            BY <2>4 DEF HandoffInv, WorkerInv, OneDaemon
        <3> QED
            BY <2>1, <2>2, <3>1, <3>2 DEF WorkerInv
    <2> QED
        BY <2>3, <2>4
<1> QED
    BY <1>2, <1>3, <1>4 DEF HandoffInv

-----------------------------------------------------------------------------
\* The steps outside `deliver`

\* What a step shows to the outside: it changes one hand-off at most, and that one as
\* HandoffPromise allows.
ShowsPromise ==
    \/ UNCHANGED <<journal, typed>>
    \/ \E m \in Msgs :
          /\ \A n \in Msgs \ {m} : journal'[n] = journal[n] /\ typed'[n] = typed[n]
          /\ PromiseFits(journal[m], typed[m], journal'[m], typed'[m])

\* A daemon starts when no other one runs; a tick begins; a daemon dies.
LEMMA ProcessKeeps ==
    ASSUME ~Overlap, TypeOK, HandoffInv, NEW p \in Procs,
           Start(p) \/ BeginTick(p) \/ Crash(p)
    PROVE  HandoffInv' /\ ShowsPromise
<1>1. UNCHANGED <<journal, receipt, typed>>
    BY DEF Start, BeginTick, Crash
<1>2. OneDaemon'
    BY DEF HandoffInv, OneDaemon, Start, BeginTick, Crash, Running, TypeOK
<1>3. ASSUME NEW n \in Msgs PROVE MsgInv(n)'
    BY <1>1 DEF HandoffInv, MsgInv
<1>4. ASSUME NEW q \in Procs PROVE WorkerInv(q)'
    <2>1. WorkerInv(q) /\ worker[q] \in Worker
        BY DEF HandoffInv, TypeOK
    <2>2. CASE worker'[q] = worker[q] /\ (Running(q) => Running(q)')
        BY <1>1, <2>1, <2>2 DEF WorkerInv
    <2>3. CASE worker'[q] = IdleWorker
        BY <2>3 DEF WorkerInv, IdleWorker
    <2>4. CASE \E b \in BOOLEAN :
                  worker'[q] = [worker[q] EXCEPT !.todo = Unfinished, !.restart = b]
               /\ worker[q].at = "idle"
        <3>1. worker'[q].at = "idle" /\ worker'[q].todo = Unfinished
            BY <2>1, <2>4 DEF Worker
        <3> QED
            BY <1>1, <3>1 DEF WorkerInv, Unfinished
    <2>5. CASE Start(p)
        <3>1. worker' = [worker EXCEPT ![p] =
                            [worker[p] EXCEPT !.todo = Unfinished, !.restart = TRUE]]
            BY <2>5 DEF Start, TypeOK, Worker
        <3>2. q = p => worker[q].at = "idle"
            BY <2>1, <2>5 DEF Start, WorkerInv, Running
        <3>3. Running(q) => Running(q)'
            BY <2>5 DEF Start, Running, TypeOK
        <3> QED
            BY <2>2, <2>4, <3>1, <3>2, <3>3 DEF TypeOK
    <2>6. CASE BeginTick(p)
        <3>1. worker' = [worker EXCEPT ![p] =
                            [worker[p] EXCEPT !.todo = Unfinished, !.restart = FALSE]]
            BY <2>6 DEF BeginTick, TypeOK, Worker
        <3>2. worker[p].at = "idle" /\ (Running(q) => Running(q)')
            BY <2>6 DEF BeginTick, Running
        <3> QED
            BY <2>2, <2>4, <3>1, <3>2 DEF TypeOK
    <2>7. CASE Crash(p)
        <3>1. worker' = [worker EXCEPT ![p] = IdleWorker]
            BY <2>7 DEF Crash
        <3>2. q # p /\ Running(q) => Running(q)'
            BY <2>7 DEF Crash, Running, TypeOK
        <3> QED
            BY <2>2, <2>3, <3>1, <3>2 DEF TypeOK
    <2> QED
        BY <2>5, <2>6, <2>7
<1> QED
    BY <1>1, <1>2, <1>3, <1>4 DEF HandoffInv, ShowsPromise

\* A step that leaves the workers alone, and changes the journal or the receipt of m.
LEMMA OutsideKeeps ==
    ASSUME TypeOK, HandoffInv, NEW m \in Msgs,
           UNCHANGED <<typed, up, worker>>,
           \A n \in Msgs \ {m} : journal'[n] = journal[n] /\ receipt'[n] = receipt[n],
           journal[m].state # "none" => journal'[m].state # "none",
           MsgFits(journal'[m], receipt'[m], typed[m]),
           \A q \in Procs : worker[q].at # "idle" /\ worker[q].msg = m =>
                                StageFits(worker[q], journal'[m], receipt'[m], typed[m])
    PROVE  HandoffInv'
<1>1. OneDaemon'
    BY DEF HandoffInv, OneDaemon, Running
<1>2. ASSUME NEW n \in Msgs PROVE MsgInv(n)'
    BY DEF HandoffInv, MsgInv
<1>3. ASSUME NEW q \in Procs PROVE WorkerInv(q)'
    <2>1. WorkerInv(q) /\ worker[q] \in Worker
        BY DEF HandoffInv, TypeOK
    <2>2. \A n \in worker'[q].todo : journal'[n].state # "none"
        BY <2>1 DEF WorkerInv, Worker
    <2>3. worker'[q] = worker[q] /\ (Running(q) <=> Running(q)')
        BY DEF Running
    <2>4. ASSUME worker[q].at # "idle"
          PROVE  /\ Running(q) /\ worker[q].msg \in Msgs
                 /\ StageFits(worker[q], journal'[worker[q].msg], receipt'[worker[q].msg],
                              typed[worker[q].msg])
        BY <2>1, <2>4 DEF WorkerInv
    <2> QED
        BY <2>2, <2>3, <2>4 DEF WorkerInv
<1> QED
    BY <1>1, <1>2, <1>3 DEF HandoffInv

\* No worker is in `deliver` for a hand-off that was never offered.
LEMMA OfferKeeps ==
    ASSUME TypeOK, HandoffInv, NEW p \in Procs, NEW m \in Msgs, Offer(p, m)
    PROVE  HandoffInv' /\ ShowsPromise
<1>1. /\ journal[m].state = "none" /\ journal'[m].state = "pending"
      /\ journal'[m].attempt = journal[m].attempt
      /\ \A n \in Msgs \ {m} : journal'[n] = journal[n]
      /\ UNCHANGED <<receipt, typed, up, worker>>
    BY DEF Offer, TypeOK, Handoff
<1>2. MsgFits(journal[m], receipt[m], typed[m])
    BY DEF HandoffInv, MsgInv
<1>3. MsgFits(journal'[m], receipt'[m], typed[m])
    BY <1>1, <1>2 DEF MsgFits
<1>4. ASSUME NEW q \in Procs, worker[q].at # "idle", worker[q].msg = m PROVE FALSE
    <2>1. StageFits(worker[q], journal[m], receipt[m], typed[m]) /\ worker[q].at \in Stages
        BY <1>4 DEF HandoffInv, WorkerInv, TypeOK, Worker
    <2> QED
        BY <1>1, <1>4, <2>1 DEF StageFits, Stages
<1>5. HandoffInv'
    BY <1>1, <1>3, <1>4, OutsideKeeps
<1>6. PromiseFits(journal[m], typed[m], journal'[m], typed'[m])
    BY <1>1, VerdictIs DEF PromiseFits
<1> QED
    BY <1>1, <1>5, <1>6 DEF ShowsPromise

\* The message may reach the inbox late, under a worker that is at any stage.
LEMMA MaterialiseKeeps ==
    ASSUME TypeOK, HandoffInv, NEW p \in Procs, NEW m \in Msgs, Materialise(p, m)
    PROVE  HandoffInv' /\ ShowsPromise
<1>1. /\ journal'[m].state = journal[m].state /\ journal'[m].attempt = journal[m].attempt
      /\ \A n \in Msgs \ {m} : journal'[n] = journal[n] /\ receipt'[n] = receipt[n]
      /\ receipt'[m].exists \/ receipt'[m] = receipt[m]
      /\ receipt[m].exists => receipt'[m].exists
      /\ receipt'[m].notify = receipt[m].notify /\ receipt'[m].attempt = receipt[m].attempt
      /\ UNCHANGED <<typed, up, worker>>
    BY DEF Materialise, TypeOK, Handoff, Receipt
<1>2. MsgFits(journal[m], receipt[m], typed[m])
    BY DEF HandoffInv, MsgInv
<1>3. MsgFits(journal'[m], receipt'[m], typed[m])
    BY <1>1, <1>2 DEF MsgFits
<1>4. ASSUME NEW q \in Procs, worker[q].at # "idle", worker[q].msg = m
      PROVE  StageFits(worker[q], journal'[m], receipt'[m], typed[m])
    <2>1. StageFits(worker[q], journal[m], receipt[m], typed[m])
        BY <1>4 DEF HandoffInv, WorkerInv
    <2> QED
        BY <1>1, <2>1 DEF StageFits
<1>5. HandoffInv'
    BY <1>1, <1>3, <1>4, OutsideKeeps
<1>6. Verdict(journal'[m]) = Verdict(journal[m])
    BY <1>1 DEF Verdict
<1>7. PromiseFits(journal[m], typed[m], journal'[m], typed'[m])
    BY <1>1, <1>6 DEF PromiseFits
<1> QED
    BY <1>1, <1>5, <1>7 DEF ShowsPromise

\* The producer's callback binds a hand-off only when no worker holds its lock.
LEMMA ObserveKeeps ==
    ASSUME TypeOK, HandoffInv, NEW p \in Procs, NEW m \in Msgs, ObserveTurn(p, m)
    PROVE  HandoffInv' /\ ShowsPromise
<1>1. /\ journal'[m].attempt = journal[m].attempt
      /\ \/ journal'[m].state = journal[m].state
         \/ /\ journal[m].state = "sent"
            /\ journal'[m].state = "started"
            /\ ~Locked(p, m)
      /\ \A n \in Msgs \ {m} : journal'[n] = journal[n]
      /\ journal[m].state \in {"sending", "sent"}
      /\ Running(p)
      /\ UNCHANGED <<receipt, typed, up, worker>>
    BY ObserveEffect DEF ObserveTurn
<1>2. MsgFits(journal[m], receipt[m], typed[m])
    BY DEF HandoffInv, MsgInv
<1>3. MsgFits(journal'[m], receipt'[m], typed[m])
    BY <1>1, <1>2 DEF MsgFits
<1>4. ASSUME NEW q \in Procs, worker[q].at # "idle", worker[q].msg = m
      PROVE  StageFits(worker[q], journal'[m], receipt'[m], typed[m])
    <2>1. StageFits(worker[q], journal[m], receipt[m], typed[m]) /\ Running(q)
        BY <1>4 DEF HandoffInv, WorkerInv
    <2>2. q = p
        BY <1>1, <2>1 DEF HandoffInv, OneDaemon
    <2>3. journal'[m].state = journal[m].state
        BY <1>1, <1>4, <2>2 DEF Locked
    <2> QED
        BY <1>1, <2>1, <2>3 DEF StageFits
<1>5. HandoffInv'
    BY <1>1, <1>3, <1>4, OutsideKeeps
<1>6. Verdict(journal'[m]) = Verdict(journal[m])
    BY <1>1, VerdictIs DEF Verdict
<1>7. PromiseFits(journal[m], typed[m], journal'[m], typed'[m])
    BY <1>1, <1>6 DEF PromiseFits
<1> QED
    BY <1>1, <1>5, <1>7 DEF ShowsPromise

\* The gate and the claim say nothing of what was typed.
LEMMA EnvironmentKeeps ==
    ASSUME TypeOK, HandoffInv, GateChanges \/ \E m \in Msgs : ClaimChanges(m) \/ DeleteTask(m)
    PROVE  HandoffInv' /\ ShowsPromise
<1>1. UNCHANGED <<journal, receipt, typed, up, worker>>
    BY DEF GateChanges, ClaimChanges, DeleteTask
<1> QED
    BY <1>1 DEF HandoffInv, OneDaemon, MsgInv, WorkerInv, Running, ShowsPromise

\* Every step of `deliver` keeps the invariant.
LEMMA DeliverKeeps ==
    ASSUME TypeOK, HandoffInv, NEW p \in Procs, NEW m \in Msgs,
           \/ Recovery(p, m) \/ Decision(p, m) \/ Wait(p, m)
           \/ Retry(p, m) \/ Attempt(p, m) \/ JournalRefuses(p, m) \/ StoreError(p, m)
    PROVE  HandoffInv' /\ ShowsPromise
<1>1. LocalStep(p, m)
    BY DeliverSteps
<1>2. Running(p)
    <2>1. CASE Recovery(p, m)
        BY <2>1 DEF Recovery, ReadReceipt, RetryInterrupted, AdoptReceipt,
                    AbandonInterrupted, LeaveSending, At
    <2>2. CASE Decision(p, m) \/ Wait(p, m)
        BY <2>2 DEF Decision, Wait, Load, CancelFinished, BindSent, NotePaused, WritePaused,
                    PendingLoaded, At
    <2>3. CASE Retry(p, m)
        BY <2>3 DEF Retry, Exhausted, ClaimGone, Reserve, PendingLoaded, At
    <2>4. CASE Attempt(p, m)
        BY <2>4 DEF Attempt, MaterialiseAttempt, MaterialiseFails, Arm, PauseAttempt,
                    HoldAttempt, ReleaseAttempt, Type, SendFails, Confirm, RecordSent,
                    RecordUndeliverable, At
    <2>5. CASE JournalRefuses(p, m) \/ StoreError(p, m)
        BY <2>5 DEF JournalRefuses, StoreError, At
    <2> QED
        BY <2>1, <2>2, <2>3, <2>4, <2>5
<1>3. HandoffInv'
    BY <1>1, <1>2, LocalKeeps
<1>4. ShowsPromise
    BY <1>1 DEF LocalStep, ShowsPromise
<1> QED
    BY <1>3, <1>4

-----------------------------------------------------------------------------
\* The theorems

\* One daemon at a time, and a receipt that can be read is read.
OneAtATime == ~Overlap /\ ~Misreads

\* The invariant holds of an empty journal.
LEMMA HandoffInit == Init => HandoffInv
<1> SUFFICES ASSUME Init PROVE HandoffInv
    OBVIOUS
<1>1. OneDaemon
    BY DEF Init, OneDaemon, Running
<1>2. ASSUME NEW m \in Msgs PROVE MsgInv(m)
    BY DEF Init, MsgInv, MsgFits, NoHandoff, NoReceipt
<1>3. ASSUME NEW p \in Procs PROVE WorkerInv(p)
    BY DEF Init, WorkerInv, IdleWorker
<1> QED
    BY <1>1, <1>2, <1>3 DEF HandoffInv

\* Every step keeps the invariant and shows at most one step of the promise.
LEMMA HandoffStep ==
    ASSUME OneAtATime, TypeOK, HandoffInv, [Next]_vars
    PROVE  HandoffInv' /\ ShowsPromise
<1>1. CASE UNCHANGED vars
    BY <1>1 DEF vars, HandoffInv, OneDaemon, MsgInv, WorkerInv, Running, ShowsPromise
<1>2. CASE \E p \in Procs : Start(p) \/ BeginTick(p) \/ Crash(p)
    BY <1>2, ProcessKeeps DEF OneAtATime
<1>3. CASE \E p \in Procs, m \in Msgs : Offer(p, m)
    BY <1>3, OfferKeeps
<1>4. CASE \E p \in Procs, m \in Msgs : Materialise(p, m)
    BY <1>4, MaterialiseKeeps
<1>5. CASE \E p \in Procs, m \in Msgs :
                \/ Recovery(p, m) \/ Decision(p, m) \/ Wait(p, m)
                \/ Retry(p, m) \/ Attempt(p, m) \/ JournalRefuses(p, m) \/ StoreError(p, m)
    BY <1>5, DeliverKeeps
<1>6. CASE \E p \in Procs, m \in Msgs : ReceiptUnreadable(p, m)
    BY <1>6 DEF ReceiptUnreadable, OneAtATime
<1>7. CASE \E p \in Procs, m \in Msgs : ObserveTurn(p, m)
    BY <1>7, ObserveKeeps
<1>8. CASE GateChanges \/ \E m \in Msgs : ClaimChanges(m) \/ DeleteTask(m)
    BY <1>8, EnvironmentKeeps
<1> QED
    BY <1>1, <1>2, <1>3, <1>4, <1>5, <1>6, <1>7, <1>8 DEF Next

\* The inductive invariant: the three records of a hand-off and the memory of the worker
\* that is inside `deliver` for it fit together at every write, and across every crash.
THEOREM HandoffInvariance == OneAtATime => (Spec => []HandoffInv)
<1> SUFFICES ASSUME OneAtATime PROVE Spec => []HandoffInv
    OBVIOUS
<1>1. TypeOK /\ HandoffInv /\ [Next]_vars => HandoffInv'
    BY HandoffStep
<1> QED
    BY <1>1, HandoffInit, TypeInvariance, PTL DEF Spec

\* A hand-off that waits for a retry has never been typed: nothing goes back to pending after
\* the first key, whether by a hold or by a recovery.
THEOREM RetriesAreUntyped == OneAtATime => (Spec => []WaitingIsUntyped)
<1> SUFFICES ASSUME OneAtATime PROVE Spec => []WaitingIsUntyped
    OBVIOUS
<1>1. HandoffInv => WaitingIsUntyped
    BY DEF HandoffInv, MsgInv, MsgFits, WaitingIsUntyped
<1> QED
    BY <1>1, HandoffInvariance, PTL

\* The prompt of a hand-off is typed at most once, over any number of restarts.
THEOREM PromptTypedOnce == OneAtATime => (Spec => []TypedOnce)
<1> SUFFICES ASSUME OneAtATime PROVE Spec => []TypedOnce
    OBVIOUS
<1>1. HandoffInv => TypedOnce
    BY DEF HandoffInv, MsgInv, MsgFits, TypedOnce
<1> QED
    BY <1>1, HandoffInvariance, PTL

\* What the journal calls sent, the receipt calls sent, for the same attempt.
THEOREM DatabasesAgree == OneAtATime => (Spec => []SentAgrees)
<1> SUFFICES ASSUME OneAtATime PROVE Spec => []SentAgrees
    OBVIOUS
<1>1. HandoffInv => SentAgrees
    BY DEF HandoffInv, MsgInv, MsgFits, SentAgrees
<1> QED
    BY <1>1, HandoffInvariance, PTL

\* Nothing is offered, typed or closed at first.
LEMMA PromiseInit == Init => Promise!Init
    BY VerdictIs DEF Init, Promise!Init, NoHandoff, Verdict

\* A step that shows at most one step of the promise is one, or a stutter.
LEMMA PromiseStep ==
    ASSUME TypeOK, TypeOK', ShowsPromise
    PROVE  [Promise!Next]_(Promise!vars)
<1> DEFINE offered == {m \in Msgs : journal[m].state # "none"}
           verdict == [m \in Msgs |-> Verdict(journal[m])]
<1>1. CASE UNCHANGED <<journal, typed>>
    BY <1>1 DEF Promise!vars, Verdict
<1>2. ASSUME NEW m \in Msgs,
             \A n \in Msgs \ {m} : journal'[n] = journal[n] /\ typed'[n] = typed[n],
             PromiseFits(journal[m], typed[m], journal'[m], typed'[m])
      PROVE  [Promise!Next]_(Promise!vars)
    <2>1. typed \in [Msgs -> Nat] /\ typed' \in [Msgs -> Nat]
        BY DEF TypeOK
    <2>2. \A n \in Msgs : n # m => /\ n \in offered' <=> n \in offered
                                   /\ verdict'[n] = verdict[n]
        BY <1>2 DEF Verdict
    <2>3. /\ m \in offered <=> journal[m].state # "none"
          /\ m \in offered' <=> journal'[m].state # "none"
          /\ verdict[m] = Verdict(journal[m])
          /\ verdict'[m] = Verdict(journal'[m])
        BY DEF Verdict
    <2>4. offered \subseteq Msgs /\ offered' \subseteq Msgs
        OBVIOUS
    <2>5. verdict = [n \in Msgs |-> verdict[n]] /\ verdict' = [n \in Msgs |-> verdict'[n]]
        OBVIOUS
    <2>6. typed'[m] = typed[m] => typed' = typed
        BY <1>2, <2>1
    <2>7. verdict'[m] = verdict[m] => verdict' = verdict
        BY <2>2
    <2>8. (m \in offered' <=> m \in offered) => offered' = offered
        BY <2>2, <2>4
    <2> HIDE DEF offered, verdict
    <2>9. CASE /\ verdict'[m] = verdict[m]
               /\ m \in offered' <=> m \in offered
               /\ typed'[m] = typed[m]
        BY <2>6, <2>7, <2>8, <2>9 DEF Promise!vars, offered, verdict
    <2>10. CASE /\ m \notin offered /\ m \in offered'
                /\ verdict'[m] = verdict[m] /\ typed'[m] = typed[m]
        <3>1. offered' = offered \cup {m}
            BY <2>2, <2>4, <2>10
        <3>2. Promise!Offer(m)
            BY <2>6, <2>7, <2>10, <3>1 DEF Promise!Offer, offered, verdict
        <3> QED
            BY <3>2 DEF Promise!Next
    <2>11. CASE /\ m \in offered /\ m \in offered'
                /\ verdict'[m] = verdict[m] /\ verdict[m] = "open"
                /\ typed[m] = 0 /\ typed'[m] = 1
        <3>1. typed' = [typed EXCEPT ![m] = 1]
            BY <1>2, <2>1, <2>11
        <3>2. Promise!Type(m)
            BY <2>7, <2>8, <2>11, <3>1 DEF Promise!Type, offered, verdict
        <3> QED
            BY <3>2 DEF Promise!Next
    <2>12. CASE /\ m \in offered /\ m \in offered' /\ verdict[m] = "open"
                /\ verdict'[m] \in {"sent", "undeliverable", "cancelled"}
                /\ verdict'[m] = "sent" => typed[m] = 1
                /\ typed'[m] = typed[m]
        <3>1. verdict' = [verdict EXCEPT ![m] = verdict'[m]]
            BY <2>2, <2>5
        <3>2. Promise!Close(m, verdict'[m])
            BY <2>6, <2>8, <2>12, <3>1 DEF Promise!Close, offered, verdict
        <3> QED
            BY <2>12, <3>2 DEF Promise!Next, Promise!Verdicts
    <2>13. CASE /\ m \in offered /\ m \in offered'
                /\ verdict[m] = "sent" /\ verdict'[m] = "cancelled"
                /\ typed'[m] = typed[m]
        <3>1. verdict' = [verdict EXCEPT ![m] = "cancelled"]
            BY <2>2, <2>5, <2>13
        <3>2. Promise!Retire(m)
            BY <2>6, <2>8, <2>13, <3>1 DEF Promise!Retire, offered, verdict
        <3> QED
            BY <3>2 DEF Promise!Next
    <2> QED
        BY <1>2, <2>3, <2>9, <2>10, <2>11, <2>12, <2>13 DEF PromiseFits
<1> QED
    BY <1>1, <1>2 DEF ShowsPromise

\* The hand-off implements its promise, with any number of hand-offs and restarts.
THEOREM PromiseKept == OneAtATime => (Spec => KeepsPromise)
<1> SUFFICES ASSUME OneAtATime PROVE Spec => KeepsPromise
    OBVIOUS
<1>1. Init => Promise!Init
    BY PromiseInit
<1>2. TypeOK /\ TypeOK' /\ HandoffInv /\ [Next]_vars => [Promise!Next]_(Promise!vars)
    BY HandoffStep, PromiseStep
<1>3. Spec => []TypeOK
    BY TypeInvariance
<1>4. Spec => []HandoffInv
    BY HandoffInvariance
<1> QED
    BY <1>1, <1>2, <1>3, <1>4, PTL DEF Spec, KeepsPromise, Promise!Spec
=============================================================================
