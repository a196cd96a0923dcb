----------------------------- MODULE RefundLocks -----------------------------
(***************************************************************************)
(* The row locks of the transactions on refunds: those that write an       *)
(* execution and then its job (results, webhooks, finishing a lease, the   *)
(* administrator), and the claim of a recovery job, which starts from the  *)
(* job and whose audit entry refers to the execution.  RefundExecution     *)
(* takes each of them for one step; here is why none waits for ever.       *)
(*                                                                         *)
(* What a transaction does beside locking is left out, and it may end at   *)
(* any point: by a commit, an early return, an error or the death of its   *)
(* process.                                                                *)
(***************************************************************************)
EXTENDS Naturals

CONSTANTS
  Transactions,  \* that may be open at once
  Count,         \* refunds, numbered as the sweep's statement visits their jobs
  Events,        \* webhook event ids
  NoLock

Refunds == 1..Count

\* An event row is locked by inserting its id.
Row == ({"event"} \X Events) \cup ({"execution", "job"} \X Refunds)
Event(e) == <<"event", e>>
Execution(a) == <<"execution", a>>
Job(a) == <<"job", a>>

\* FOR KEY SHARE, FOR NO KEY UPDATE, FOR UPDATE.
Lock == [row : Row, mode : {"share", "weak", "strong"}]
LockOn(row, mode) == [row |-> row, mode |-> mode]

ASSUME LocksAssumption == Count \in Nat /\ NoLock \notin Lock

VARIABLES
  step,    \* what each transaction does next, and the refund it is at
  held,    \* the locks it holds
  wanted   \* the lock it asks for, or NoLock

vars == <<step, held, wanted>>

Step == [pc : {"idle", "execution", "job", "sweep", "swept", "audit"}, refund : 0..Count]
Idle == [pc |-> "idle", refund |-> 0]

Init ==
  /\ step = [t \in Transactions |-> Idle]
  /\ held = [t \in Transactions |-> {}]
  /\ wanted = [t \in Transactions |-> NoLock]

\* PostgreSQL's table of row-lock conflicts.
Excludes(mode) ==
  CASE mode = "share"  -> {"strong"}
    [] mode = "weak"   -> {"weak", "strong"}
    [] mode = "strong" -> {"share", "weak", "strong"}
Conflicting(one, other) == one.row = other.row /\ other.mode \in Excludes(one.mode)

Free(t, lock) ==
  \A u \in Transactions \ {t} : \A other \in held[u] : ~Conflicting(lock, other)

Running(t, pc) == step[t].pc = pc /\ wanted[t] = NoLock

\* A statement asks for a lock; pc and a say where the transaction goes on.
Ask(t, lock, pc, a) ==
  /\ wanted' = [wanted EXCEPT ![t] = lock]
  /\ step' = [step EXCEPT ![t] = [pc |-> pc, refund |-> a]]
  /\ UNCHANGED held

Grant(t) ==
  /\ wanted[t] # NoLock /\ Free(t, wanted[t])
  /\ held' = [held EXCEPT ![t] = @ \cup {wanted[t]}]
  /\ wanted' = [wanted EXCEPT ![t] = NoLock]
  /\ UNCHANGED step

End(t) ==
  /\ step[t].pc # "idle"
  /\ step' = [step EXCEPT ![t] = Idle]
  /\ held' = [held EXCEPT ![t] = {}]
  /\ wanted' = [wanted EXCEPT ![t] = NoLock]

-----------------------------------------------------------------------------
(* Transactions that write an execution.                                    *)

\* Mutant: SELECT ... FOR UPDATE.
ExecutionForUpdate(a) == LockOn(Execution(a), "strong")

\* SELECT ... FOR NO KEY UPDATE, or an UPDATE, which changes no key.
ExecutionLock(a) == LockOn(Execution(a), "weak")

\* A webhook inserts its event id; a duplicate waits for it.
Deliver(t, e, a) ==
  /\ Running(t, "idle")
  /\ Ask(t, LockOn(Event(e), "strong"), "execution", a)

WriteExecution(t, a) ==
  /\ \/ Running(t, "idle")
     \/ Running(t, "execution") /\ step[t].refund = a
  /\ Ask(t, ExecutionLock(a), "job", a)

\* The trigger, the conflict entry and the administrator UPDATE the job, finish
\* selects it FOR UPDATE.
WriteJob(t, mode) ==
  /\ Running(t, "job")
  /\ Ask(t, LockOn(Job(step[t].refund), mode), "audit", step[t].refund)

\* The foreign key of an audit entry.
AuditLock(a) == LockOn(Execution(a), "share")

Audit(t) ==
  /\ Running(t, "job") \/ Running(t, "audit")
  /\ AuditLock(step[t].refund) \notin held[t]
  /\ Ask(t, AuditLock(step[t].refund), step[t].pc, step[t].refund)

-----------------------------------------------------------------------------
(* The claim of a recovery job.                                             *)

StartClaim(t) ==
  /\ Running(t, "idle")
  /\ step' = [step EXCEPT ![t].pc = "sweep"]
  /\ UNCHANGED <<held, wanted>>

\* The UPDATE of the exhausted jobs locks one after the other,
SweepJob(t, a) ==
  /\ Running(t, "sweep") /\ step[t].refund < a
  /\ Ask(t, LockOn(Job(a), "weak"), "sweep", a)

Unaudited(t) == {a \in Refunds : LockOn(Job(a), "weak") \in held[t] /\ AuditLock(a) \notin held[t]}

\* and at its end come the foreign keys of their audit entries.
SweepAudit(t, a) ==
  /\ Running(t, "sweep") \/ Running(t, "swept")
  /\ a \in Unaudited(t)
  /\ Ask(t, AuditLock(a), "swept", step[t].refund)

\* FOR UPDATE SKIP LOCKED takes a job that is free and waits for none.
TakeCandidate(t, a) ==
  /\ Running(t, "sweep") \/ Running(t, "swept")
  /\ Unaudited(t) = {}
  /\ Free(t, LockOn(Job(a), "strong"))
  /\ held' = [held EXCEPT ![t] = @ \cup {LockOn(Job(a), "strong")}]
  /\ step' = [step EXCEPT ![t] = [pc |-> "audit", refund |-> a]]
  /\ UNCHANGED wanted

-----------------------------------------------------------------------------
Next == \E t \in Transactions :
  \/ Grant(t) \/ End(t) \/ Audit(t) \/ StartClaim(t)
  \/ \E mode \in {"weak", "strong"} : WriteJob(t, mode)
  \/ \E a \in Refunds :
       \/ \E e \in Events : Deliver(t, e, a)
       \/ WriteExecution(t, a)
       \/ SweepJob(t, a) \/ SweepAudit(t, a) \/ TakeCandidate(t, a)

Spec == Init /\ [][Next]_vars

-----------------------------------------------------------------------------
(* Deadlock freedom.                                                        *)

WaitsFor(t, u) ==
  /\ wanted[t] # NoLock /\ t # u
  /\ \E lock \in held[u] : Conflicting(wanted[t], lock)

\* Among any transactions at least one waits for none of the others: claims that
\* go from the job to the execution and writers that go from the execution to the
\* job do not block each other in a circle, however many of them there are.
NoCircularWait ==
  \A S \in SUBSET Transactions :
    S # {} => \E t \in S : \A u \in S : ~WaitsFor(t, u)

\* The order in which locks are waited for.
Rank(row) ==
  CASE row[1] = "event"     -> 0
    [] row[1] = "execution" -> 1
    [] row[1] = "job"       -> 1 + row[2]

\* Every variable has its type.
TypeOK ==
  /\ step \in [Transactions -> Step]
  /\ held \in [Transactions -> SUBSET Lock]
  /\ wanted \in [Transactions -> Lock \cup {NoLock}]

Locks(t) == held[t] \cup ({wanted[t]} \ {NoLock})

\* Only executions are shared, and nobody excludes a share of them.
ShareInv ==
  \A t \in Transactions : \A lock \in Locks(t) :
    /\ lock.mode = "share" => lock.row[1] = "execution"
    /\ lock.row[1] = "execution" => lock.mode # "strong"

\* How far up a transaction has got that may still ask for more.
Reached(t) ==
  CASE step[t].pc = "execution" -> 0
    [] step[t].pc = "job"       -> 1
    [] step[t].pc = "sweep"     -> 1 + step[t].refund
    [] OTHER                    -> Count + 1

ReachInv ==
  \A t \in Transactions :
    /\ \A lock \in Locks(t) : Rank(lock.row) <= Reached(t)
    /\ step[t].pc = "idle" => Locks(t) = {}
    /\ step[t].pc \in {"execution", "job", "audit"} => step[t].refund # 0

\* Whoever may have to wait holds lower rows only.
UpwardInv ==
  \A t \in Transactions : wanted[t] # NoLock /\ wanted[t].mode # "share" =>
    \A lock \in held[t] : Rank(lock.row) < Rank(wanted[t].row)

LocksInv ==
  /\ TypeOK
  /\ ShareInv
  /\ ReachInv
  /\ UpwardInv
=============================================================================
