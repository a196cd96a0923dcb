-------------------------- MODULE RefundLockProofs --------------------------
(***************************************************************************)
(* The transactions on refunds never wait for each other in a circle, for  *)
(* any number of transactions, refunds and webhook events.                 *)
(***************************************************************************)
EXTENDS RefundLocks, WellFoundedInduction, TLAPS

\* Ranks are numbers up to that of the last job.
LEMMA RankBound ==
  ASSUME NEW row \in Row
  PROVE  Rank(row) \in 0..(Count + 1)
BY LocksAssumption, SMT DEF Row, Refunds, Rank

\* The locks that statements ask for, and their ranks.
LEMMA ExecutionLocks ==
  ASSUME NEW a \in Refunds, NEW mode \in {"share", "weak", "strong"}
  PROVE  LET lock == LockOn(Execution(a), mode)
         IN  /\ lock \in Lock /\ lock.mode = mode
             /\ lock.row[1] = "execution" /\ Rank(lock.row) = 1
BY SMT DEF LockOn, Lock, Row, Execution, Rank

LEMMA JobLocks ==
  ASSUME NEW a \in Refunds, NEW mode \in {"share", "weak", "strong"}
  PROVE  LET lock == LockOn(Job(a), mode)
         IN  /\ lock \in Lock /\ lock.mode = mode
             /\ lock.row[1] = "job" /\ Rank(lock.row) = 1 + a
BY SMT DEF LockOn, Lock, Row, Job, Rank

LEMMA EventLock ==
  ASSUME NEW e \in Events
  PROVE  LockOn(Event(e), "strong") \in Lock /\ Rank(Event(e)) = 0 /\ Event(e)[1] = "event"
BY SMT DEF LockOn, Lock, Row, Event, Rank

\* A statement of t that asks for a lock keeps the invariant, if the lock lies above
\* what t has reached and within what it reaches then, or is a share.
LEMMA AskKeepsInv ==
  ASSUME LocksInv, NEW t \in Transactions, NEW lock \in Lock,
         NEW pc \in {"execution", "job", "sweep", "swept", "audit"}, NEW a \in 0..Count,
         wanted[t] = NoLock, Ask(t, lock, pc, a),
         lock.mode = "share" => lock.row[1] = "execution",
         lock.row[1] = "execution" => lock.mode # "strong",
         Reached(t)' >= Rank(lock.row),
         \A other \in held[t] : Rank(other.row) <= Reached(t)',
         pc \in {"execution", "job", "audit"} => a # 0,
         lock.mode # "share" => \A other \in held[t] : Rank(other.row) < Rank(lock.row)
  PROVE  LocksInv'
<1>1. TypeOK'
  BY SMT DEF LocksInv, TypeOK, Ask, Step
<1>2. /\ wanted' = [wanted EXCEPT ![t] = lock]
      /\ held' = held
      /\ step' = [step EXCEPT ![t] = [pc |-> pc, refund |-> a]]
  BY DEF Ask
<1>3. \A u \in Transactions \ {t} :
        step'[u] = step[u] /\ wanted'[u] = wanted[u] /\ Reached(u)' = Reached(u)
        /\ Locks(u)' = Locks(u)
  BY <1>2, SMT DEF LocksInv, TypeOK, Reached, Locks
<1>4. /\ wanted'[t] = lock /\ step'[t] = [pc |-> pc, refund |-> a]
      /\ Locks(t)' = held[t] \cup {lock} /\ held[t] \subseteq Locks(t)
  BY <1>2, LocksAssumption, SMT DEF LocksInv, TypeOK, Locks
<1>5. ShareInv'
  BY <1>3, <1>4, SMT DEF LocksInv, ShareInv
<1>6. ReachInv'
  <2>. SUFFICES ASSUME NEW u \in Transactions
                PROVE  /\ \A other \in Locks(u)' : Rank(other.row) <= Reached(u)'
                       /\ step'[u].pc = "idle" => Locks(u)' = {}
                       /\ step'[u].pc \in {"execution", "job", "audit"} => step'[u].refund # 0
    BY DEF ReachInv
  <2>1. CASE u = t
    BY <2>1, <1>4
  <2>2. CASE u # t
    BY <2>2, <1>3 DEF LocksInv, ReachInv
  <2>. QED  BY <2>1, <2>2
<1>7. UpwardInv'
  BY <1>2, <1>3, <1>4, SMT DEF LocksInv, UpwardInv
<1>. QED  BY <1>1, <1>5, <1>6, <1>7 DEF LocksInv

\* Every step keeps the invariant.
LEMMA StepKeepsInv ==
  ASSUME LocksInv, [Next]_vars
  PROVE  LocksInv'
<1>. USE LocksAssumption
<1>. SUFFICES ASSUME Next PROVE LocksInv'
  BY DEF vars, LocksInv, TypeOK, ShareInv, ReachInv, UpwardInv, Locks, Reached
<1>. PICK t \in Transactions :
      \/ Grant(t) \/ End(t) \/ Audit(t) \/ StartClaim(t)
      \/ \E mode \in {"weak", "strong"} : WriteJob(t, mode)
      \/ \E a \in Refunds :
           \/ \E e \in Events : Deliver(t, e, a)
           \/ WriteExecution(t, a)
           \/ SweepJob(t, a) \/ SweepAudit(t, a) \/ TakeCandidate(t, a)
  BY DEF Next
<1>r. /\ step[t] \in Step /\ held[t] \subseteq Lock
      /\ \A lock \in held[t] : Rank(lock.row) \in 0..(Count + 1)
                               /\ Rank(lock.row) <= Reached(t)
      /\ Running(t, "idle") => held[t] = {}
  BY RankBound DEF LocksInv, TypeOK, Lock, ReachInv, Locks, Running
<1>s. \A a \in Refunds : a \in 0..Count /\ a # 0
  BY SMT DEF Refunds
<1>1. CASE Grant(t)
  <2>1. \A u \in Transactions \ {t} :
          step'[u] = step[u] /\ wanted'[u] = wanted[u] /\ held'[u] = held[u]
    BY <1>1, SMT DEF Grant, LocksInv, TypeOK
  <2>2. /\ wanted'[t] = NoLock /\ held'[t] = held[t] \cup {wanted[t]}
        /\ step' = step /\ wanted[t] \in Lock
    BY <1>1, SMT DEF Grant, LocksInv, TypeOK
  <2>3. \A u \in Transactions : Locks(u)' = Locks(u) /\ Reached(u)' = Reached(u)
    BY <2>1, <2>2, <1>1, SMT DEF Locks, Reached, Grant
  <2>4. TypeOK'
    BY <1>1, <2>2, SMT DEF Grant, LocksInv, TypeOK
  <2>5. ShareInv' /\ ReachInv'
    BY <2>2, <2>3 DEF LocksInv, ShareInv, ReachInv
  <2>6. UpwardInv'
    BY <2>1, <2>2, SMT DEF LocksInv, UpwardInv
  <2>. QED  BY <2>4, <2>5, <2>6 DEF LocksInv
<1>2. CASE End(t)
  <2>1. \A u \in Transactions \ {t} :
          step'[u] = step[u] /\ wanted'[u] = wanted[u] /\ held'[u] = held[u]
    BY <1>2, SMT DEF End, LocksInv, TypeOK
  <2>2. wanted'[t] = NoLock /\ held'[t] = {} /\ step'[t] = Idle
    BY <1>2, SMT DEF End, LocksInv, TypeOK
  <2>3. TypeOK'
    BY <1>2, SMT DEF End, LocksInv, TypeOK, Idle, Step
  <2>4. /\ \A u \in Transactions \ {t} : Locks(u)' = Locks(u) /\ Reached(u)' = Reached(u)
        /\ Locks(t)' = {}
    BY <2>1, <2>2, SMT DEF Locks, Reached
  <2>5. ShareInv' /\ UpwardInv'
    BY <2>1, <2>2, <2>4, SMT DEF LocksInv, ShareInv, UpwardInv
  <2>6. ReachInv'
    BY <2>1, <2>2, <2>4, SMT DEF LocksInv, ReachInv, Idle
  <2>. QED  BY <2>3, <2>5, <2>6 DEF LocksInv
<1>3. CASE Audit(t)
  <2>. DEFINE a == step[t].refund
  <2>1. /\ a \in Refunds /\ step[t].pc \in {"job", "audit"} /\ wanted[t] = NoLock
        /\ Ask(t, AuditLock(a), step[t].pc, a)
    BY <1>3, <1>r, SMT DEF Audit, Running, Step, Refunds, LocksInv, ReachInv
  <2>2. /\ AuditLock(a) \in Lock /\ AuditLock(a).mode = "share"
        /\ AuditLock(a).row[1] = "execution" /\ Rank(AuditLock(a).row) = 1
    BY <2>1, ExecutionLocks DEF AuditLock
  <2>3. step'[t] = step[t] /\ Reached(t)' = Reached(t) /\ Reached(t) >= 1
    BY <2>1, <1>r, SMT DEF Ask, LocksInv, TypeOK, Reached, Step
  <2>. QED  BY <2>1, <2>2, <2>3, <1>r, <1>s, AskKeepsInv
<1>4. CASE StartClaim(t)
  <2>1. /\ held' = held /\ wanted' = wanted /\ held[t] = {} /\ wanted[t] = NoLock
        /\ \A u \in Transactions \ {t} : step'[u] = step[u]
        /\ step'[t].pc = "sweep"
    BY <1>4, <1>r, SMT DEF StartClaim, Running, LocksInv, TypeOK, Step
  <2>2. TypeOK'
    BY <1>4, SMT DEF StartClaim, LocksInv, TypeOK, Step
  <2>3. /\ \A u \in Transactions : Locks(u)' = Locks(u)
        /\ \A u \in Transactions \ {t} : Reached(u)' = Reached(u)
        /\ Locks(t) = {}
    BY <2>1, SMT DEF Locks, Reached
  <2>4. ShareInv' /\ UpwardInv'
    BY <2>1, <2>3 DEF LocksInv, ShareInv, UpwardInv
  <2>5. ReachInv'
    BY <2>1, <2>3, SMT DEF LocksInv, ReachInv
  <2>. QED  BY <2>2, <2>4, <2>5 DEF LocksInv
<1>5. ASSUME NEW mode \in {"weak", "strong"}, WriteJob(t, mode)
      PROVE  LocksInv'
  <2>. DEFINE a == step[t].refund
              lock == LockOn(Job(a), mode)
  <2>1. /\ a \in Refunds /\ step[t].pc = "job" /\ wanted[t] = NoLock
        /\ Ask(t, lock, "audit", a)
    BY <1>5, <1>r, SMT DEF WriteJob, Running, Step, Refunds, LocksInv, ReachInv
  <2>2. lock \in Lock /\ lock.mode = mode /\ lock.row[1] = "job" /\ Rank(lock.row) = 1 + a
    BY <2>1, JobLocks
  <2>3. Reached(t) = 1 /\ Reached(t)' = Count + 1
    BY <2>1, SMT DEF Ask, LocksInv, TypeOK, Reached
  <2>4. /\ \A other \in held[t] : Rank(other.row) < 1 + a /\ Rank(other.row) <= Count + 1
        /\ 1 + a <= Count + 1
    BY <2>1, <2>3, <1>r, SMT DEF Refunds
  <2>5. a \in 0..Count /\ a # 0
    BY <2>1, <1>s
  <2>. HIDE DEF a, lock
  <2>6. lock.mode # "share" /\ lock.row[1] # "execution"
    BY <2>2
  <2>7. Reached(t)' >= Rank(lock.row)
    BY <2>2, <2>3, <2>4, <2>5, SMT
  <2>8. \A other \in held[t] : /\ Rank(other.row) <= Reached(t)'
                               /\ Rank(other.row) < Rank(lock.row)
    BY <2>2, <2>3, <2>4
  <2>. QED  BY <2>1, <2>2, <2>5, <2>6, <2>7, <2>8, AskKeepsInv
<1>6. ASSUME NEW a \in Refunds, NEW e \in Events, Deliver(t, e, a)
      PROVE  LocksInv'
  <2>. DEFINE lock == LockOn(Event(e), "strong")
  <2>1. wanted[t] = NoLock /\ held[t] = {} /\ Ask(t, lock, "execution", a)
    BY <1>6, <1>r DEF Deliver, Running
  <2>2. lock \in Lock /\ lock.mode = "strong" /\ lock.row[1] = "event" /\ Rank(lock.row) = 0
    BY EventLock, SMT DEF LockOn
  <2>3. Reached(t)' = 0
    BY <2>1, SMT DEF Ask, LocksInv, TypeOK, Reached
  <2>4. a \in 0..Count /\ a # 0
    BY <1>s
  <2>. HIDE DEF lock
  <2>5. lock.mode # "share" /\ lock.row[1] # "execution"
    BY <2>2
  <2>6. Reached(t)' >= Rank(lock.row)
    BY <2>2, <2>3, SMT
  <2>. QED  BY <2>1, <2>2, <2>4, <2>5, <2>6, AskKeepsInv
<1>7. ASSUME NEW a \in Refunds, WriteExecution(t, a)
      PROVE  LocksInv'
  <2>. DEFINE lock == ExecutionLock(a)
  <2>1. wanted[t] = NoLock /\ Ask(t, lock, "job", a) /\ step[t].pc \in {"idle", "execution"}
    BY <1>7 DEF WriteExecution, Running
  <2>2. lock \in Lock /\ lock.mode = "weak" /\ lock.row[1] = "execution" /\ Rank(lock.row) = 1
    BY ExecutionLocks DEF ExecutionLock
  <2>3. Reached(t)' = 1 /\ (step[t].pc = "execution" => Reached(t) = 0)
    BY <2>1, SMT DEF Ask, LocksInv, TypeOK, Reached
  <2>4. \A other \in held[t] : Rank(other.row) < 1 /\ Rank(other.row) <= 1
    BY <1>7, <1>r, <2>1, <2>3, SMT DEF Running
  <2>5. a \in 0..Count /\ a # 0
    BY <1>s
  <2>. HIDE DEF lock
  <2>6. lock.mode # "strong" /\ lock.mode # "share"
    BY <2>2
  <2>7. Reached(t)' >= Rank(lock.row)
    BY <2>2, <2>3, SMT
  <2>8. \A other \in held[t] : /\ Rank(other.row) <= Reached(t)'
                               /\ Rank(other.row) < Rank(lock.row)
    BY <2>2, <2>3, <2>4
  <2>. QED  BY <2>1, <2>2, <2>5, <2>6, <2>7, <2>8, AskKeepsInv
<1>8. ASSUME NEW a \in Refunds, SweepJob(t, a)
      PROVE  LocksInv'
  <2>. DEFINE lock == LockOn(Job(a), "weak")
  <2>1. /\ wanted[t] = NoLock /\ Ask(t, lock, "sweep", a)
        /\ step[t].pc = "sweep" /\ step[t].refund < a
    BY <1>8 DEF SweepJob, Running
  <2>2. lock \in Lock /\ lock.mode = "weak" /\ lock.row[1] = "job" /\ Rank(lock.row) = 1 + a
    BY JobLocks
  <2>3. Reached(t)' = 1 + a /\ Reached(t) = 1 + step[t].refund
    BY <2>1, SMT DEF Ask, LocksInv, TypeOK, Reached
  <2>4. \A other \in held[t] : Rank(other.row) < 1 + a /\ Rank(other.row) <= 1 + a
    BY <1>r, <2>1, <2>3, SMT DEF Step, Refunds
  <2>5. a \in 0..Count /\ 1 + a \in Nat
    BY <1>s, SMT
  <2>. HIDE DEF lock
  <2>6. lock.mode # "share" /\ lock.row[1] # "execution"
    BY <2>2
  <2>7. Reached(t)' >= Rank(lock.row)
    BY <2>2, <2>3, <2>5, SMT
  <2>8. \A other \in held[t] : /\ Rank(other.row) <= Reached(t)'
                               /\ Rank(other.row) < Rank(lock.row)
    BY <2>2, <2>3, <2>4
  <2>. QED  BY <2>1, <2>2, <2>5, <2>6, <2>7, <2>8, AskKeepsInv
<1>9. ASSUME NEW a \in Refunds, SweepAudit(t, a)
      PROVE  LocksInv'
  <2>. DEFINE lock == AuditLock(a)
  <2>1. /\ wanted[t] = NoLock /\ Ask(t, lock, "swept", step[t].refund)
        /\ step[t].refund \in 0..Count
    BY <1>9, <1>r, SMT DEF SweepAudit, Running, Step
  <2>2. lock \in Lock /\ lock.mode = "share" /\ lock.row[1] = "execution" /\ Rank(lock.row) = 1
    BY ExecutionLocks DEF AuditLock
  <2>3. Reached(t)' = Count + 1
    BY <2>1, SMT DEF Ask, LocksInv, TypeOK, Reached
  <2>4. \A other \in held[t] : Rank(other.row) <= Count + 1
    BY <1>r, SMT
  <2>. HIDE DEF lock
  <2>5. Reached(t)' >= Rank(lock.row)
    BY <2>2, <2>3, SMT
  <2>6. \A other \in held[t] : Rank(other.row) <= Reached(t)'
    BY <2>3, <2>4
  <2>7. lock.mode # "strong" /\ "swept" \notin {"execution", "job", "audit"}
    BY <2>2
  <2>. QED  BY <2>1, <2>2, <2>5, <2>6, <2>7, AskKeepsInv
<1>10. ASSUME NEW a \in Refunds, TakeCandidate(t, a)
       PROVE  LocksInv'
  <2>. DEFINE lock == LockOn(Job(a), "strong")
  <2>1. /\ wanted' = wanted /\ wanted[t] = NoLock
        /\ held' = [held EXCEPT ![t] = @ \cup {lock}]
        /\ step' = [step EXCEPT ![t] = [pc |-> "audit", refund |-> a]]
    BY <1>10 DEF TakeCandidate, Running
  <2>2. lock \in Lock /\ lock.mode = "strong" /\ lock.row[1] = "job" /\ Rank(lock.row) = 1 + a
    BY JobLocks
  <2>. HIDE DEF lock
  <2>3. TypeOK'
    BY <2>1, <2>2, <1>s, SMT DEF LocksInv, TypeOK, Step
  <2>4. /\ \A u \in Transactions \ {t} :
             /\ step'[u] = step[u] /\ held'[u] = held[u]
             /\ Locks(u)' = Locks(u) /\ Reached(u)' = Reached(u)
        /\ Locks(t) = held[t] /\ Locks(t)' = held[t] \cup {lock}
        /\ Reached(t)' = Count + 1
        /\ step'[t] = [pc |-> "audit", refund |-> a]
    BY <2>1, SMT DEF LocksInv, TypeOK, Locks, Reached
  <2>5. ShareInv'
    BY <2>2, <2>4 DEF LocksInv, ShareInv
  <2>6. 1 + a <= Count + 1
    BY SMT DEF Refunds
  <2>7. \A other \in Locks(t)' : Rank(other.row) <= Reached(t)'
    BY <2>2, <2>4, <2>6, <1>r, SMT
  <2>8. ReachInv'
    <3>. SUFFICES ASSUME NEW u \in Transactions
                  PROVE  /\ \A other \in Locks(u)' : Rank(other.row) <= Reached(u)'
                         /\ step'[u].pc = "idle" => Locks(u)' = {}
                         /\ step'[u].pc \in {"execution", "job", "audit"} => step'[u].refund # 0
      BY DEF ReachInv
    <3>1. CASE u = t
      BY <3>1, <2>4, <2>7, <1>s
    <3>2. CASE u # t
      BY <3>2, <2>4 DEF LocksInv, ReachInv
    <3>. QED  BY <3>1, <3>2
  <2>9. UpwardInv'
    BY <2>1, <2>4 DEF LocksInv, UpwardInv
  <2>. QED  BY <2>3, <2>5, <2>8, <2>9 DEF LocksInv
<1>. QED  BY <1>1, <1>2, <1>3, <1>4, <1>5, <1>6, <1>7, <1>8, <1>9, <1>10

\* The locks of the transactions on refunds are held and asked for in the order of
\* LocksInv, in every reachable state.
THEOREM LocksInvariant == Spec => []LocksInv
<1>1. Init => LocksInv
  BY LocksAssumption, SMT DEF Init, LocksInv, TypeOK, ShareInv, ReachInv, UpwardInv, Locks, Idle, Step, Reached
<1>2. LocksInv /\ [Next]_vars => LocksInv'
  BY StepKeepsInv
<1>. QED  BY <1>1, <1>2, PTL DEF Spec

-----------------------------------------------------------------------------
(* No circle.                                                               *)

\* A transaction that holds what another waits for waits, if at all, for a row
\* further up: the length of the way that is left gets shorter.
Left(t) == Count + 1 - Rank(wanted[t].row)

LEMMA HolderIsAhead ==
  ASSUME LocksInv, NEW t \in Transactions, NEW u \in Transactions, WaitsFor(t, u),
         NEW v \in Transactions, WaitsFor(u, v)
  PROVE  Left(t) \in Nat /\ Left(u) \in Nat /\ Left(u) < Left(t)
<1>. USE LocksAssumption
<1>1. /\ wanted[t] # NoLock /\ wanted[t] \in Lock
      /\ wanted[u] # NoLock /\ wanted[u] \in Lock
  BY DEF WaitsFor, LocksInv, TypeOK
<1>2. PICK lock \in held[u] : lock.row = wanted[t].row
  BY DEF WaitsFor, Conflicting
<1>3. wanted[u].mode # "share"
  <2>. SUFFICES ASSUME wanted[u].mode = "share" PROVE FALSE
    OBVIOUS
  <2>1. PICK other \in held[v] : other.row = wanted[u].row /\ other.mode \in Excludes("share")
    BY DEF WaitsFor, Conflicting
  <2>2. other.mode = "strong"
    BY <2>1 DEF Excludes
  <2>3. wanted[u] \in Locks(u) /\ other \in Locks(v)
    BY <1>1, <2>1 DEF Locks
  <2>4. wanted[u].row[1] = "execution" /\ (other.row[1] = "execution" => other.mode # "strong")
    BY <2>3 DEF LocksInv, ShareInv
  <2>. QED  BY <2>1, <2>2, <2>4
<1>4. Rank(wanted[t].row) < Rank(wanted[u].row)
  BY <1>1, <1>2, <1>3 DEF LocksInv, UpwardInv
<1>5. Rank(wanted[t].row) \in 0..(Count + 1) /\ Rank(wanted[u].row) \in 0..(Count + 1)
  BY <1>1, RankBound DEF Lock
<1>. QED  BY <1>4, <1>5, SMT DEF Left

\* The transactions on refunds never wait for each other in a circle.
THEOREM NoDeadlock == Spec => []NoCircularWait
<1>1. LocksInv => NoCircularWait
  <2>. SUFFICES ASSUME LocksInv, NEW S \in SUBSET Transactions, S # {},
                       \A t \in S : \E u \in S : WaitsFor(t, u)
                PROVE  FALSE
    BY DEF NoCircularWait
  <2>. DEFINE T == {Left(t) : t \in S}
  <2>1. T \subseteq Nat /\ T # {}
    BY HolderIsAhead
  <2>2. PICK least \in T : \A other \in T : <<other, least>> \notin OpToRel(<, Nat)
    BY <2>1, NatLessThanWellFounded, WFMin
  <2>3. \A other \in T : ~(other < least)
    BY <2>1, <2>2, Zenon DEF OpToRel
  <2>4. PICK t \in S : least = Left(t)
    OBVIOUS
  <2>5. PICK u \in S : WaitsFor(t, u)
    OBVIOUS
  <2>6. Left(u) < Left(t)
    BY <2>5, HolderIsAhead
  <2>. QED  BY <2>3, <2>4, <2>6
<1>. QED  BY <1>1, LocksInvariant, PTL
=============================================================================
