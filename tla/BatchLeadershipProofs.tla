------------------------ MODULE BatchLeadershipProofs ------------------------
(***************************************************************************)
(* Proofs about BatchLeadership, for any number of slots, executors and    *)
(* keys, any lease lengths, budgets and bounds.                            *)
(***************************************************************************)
EXTENDS BatchLeadership, TLAPS

\* Only the batches that have taken the leadership and not yet ended it hold a
\* generation, and the audit has seen none that was not handed out.
HeldOnlyWhenAcquired ==
    /\ \A s \in Slots : phase[s] = "acquired" => generation[s] > 0
    /\ \A a \in audit : a[2] <= leader.generation

LeadInv == TypeOK /\ HeldOnlyWhenAcquired /\ GenerationIsOneBatch

------------------------------------------------------------------------------
\* Every step keeps the types of the tables and of the slots.
LEMMA TypeInvariant == TypeOK /\ [Next]_vars => TypeOK'
<1> USE LeadershipAssumption DEF TypeOK, Leader, Invocation, Phase
<1> SUFFICES ASSUME TypeOK, [Next]_vars PROVE TypeOK'
  OBVIOUS
<1>1. ASSUME NEW s \in Slots, BeginBatch(s) PROVE TypeOK'
  <2>1. CASE s \in Keyed
    <3>1. PICK k \in Keys, t \in 0 .. clock :
            /\ invocation' = [invocation EXCEPT ![k] =
                  [state |-> "open", expiresAt |-> t + InvocationLease]]
            /\ key' = [key EXCEPT ![s] = k]
            /\ until' = [until EXCEPT ![s] = t + InvocationLease]
      BY <1>1, <2>1 DEF BeginBatch
    <3>2. t + InvocationLease \in Nat
      OBVIOUS
    <3> QED BY <1>1, <3>1, <3>2 DEF BeginBatch, Goto
  <2>2. CASE s \notin Keyed
    BY <1>1, <2>2 DEF BeginBatch, Goto
  <2> QED BY <2>1, <2>2
<1>2. ASSUME NEW s \in Slots, AcquireProcessorLeadership(s) PROVE TypeOK'
  <2>1. PICK began \in Instants(s), t \in Instants(s) :
          \/ /\ leader' = [executor |-> ExecutorOf[s],
                           generation |-> NextGeneration,
                           expiresAt |-> t + LeadershipLease]
             /\ generation' = [generation EXCEPT ![s] = NextGeneration]
             /\ startedAt' = [startedAt EXCEPT ![s] = began]
             /\ Goto(s, "acquired")
          \/ /\ Goto(s, "finishing")
             /\ UNCHANGED <<leader, generation, startedAt>>
    BY <1>2 DEF AcquireProcessorLeadership
  <2>2. /\ began \in 0 .. MaxTime
        /\ t + LeadershipLease \in Nat
        /\ NextGeneration \in Nat
        /\ ExecutorOf[s] \in Executors
    BY DEF Instants, NextGeneration
  <2> QED BY <1>2, <2>1, <2>2 DEF AcquireProcessorLeadership, Goto
<1>3. ASSUME NEW s \in Slots, RecordAcquisition(s) PROVE TypeOK'
  BY <1>3 DEF RecordAcquisition, Goto
<1>4. ASSUME NEW s \in Slots, BeginItem(s) PROVE TypeOK'
  <2>1. PICK t \in Instants(s) :
          leader' = [leader EXCEPT !.expiresAt = t + LeadershipLease]
    BY <1>4 DEF BeginItem
  <2>2. t + LeadershipLease \in Nat
    BY DEF Instants
  <2>3. attempted[s] + 1 \in 0 .. BatchSize
    BY <1>4 DEF BeginItem, MoreToCome
  <2> QED BY <1>4, <2>1, <2>2, <2>3 DEF BeginItem, Goto
<1>5. ASSUME NEW s \in Slots, StopLoop(s) \/ EndItem(s) \/ Fail(s) PROVE TypeOK'
  BY <1>5 DEF StopLoop, EndItem, Fail, Goto
<1>6. ASSUME NEW gone \in SUBSET Slots, Leave(gone) PROVE
        /\ phase' \in [Slots -> Phase]
        /\ key' \in [Slots -> Keys \cup {NoKey}]
        /\ until' \in [Slots -> Nat]
        /\ generation' \in [Slots -> Nat]
        /\ attempted' \in [Slots -> 0 .. BatchSize]
        /\ startedAt' \in [Slots -> 0 .. MaxTime]
        /\ since' \in [Slots -> 0 .. MaxTime]
  BY <1>6 DEF Leave
<1>7. ASSUME NEW s \in Slots, FinishBatch(s) \/ AbandonBatch(s) PROVE TypeOK'
  <2>1. invocation' \in [Keys -> Invocation]
    BY <1>7 DEF FinishBatch, AbandonBatch, InvocationCompleted,
                InvocationAbandoned, NoInvocation
  <2> QED BY <1>6, <1>7, <2>1 DEF FinishBatch, AbandonBatch
<1>8. ASSUME NEW e \in Executors, Crash(e) PROVE TypeOK'
  BY <1>6, <1>8 DEF Crash
<1>9. CASE Tick
  BY <1>9 DEF Tick, slotVars
<1>10. CASE UNCHANGED vars
  BY <1>10 DEF vars, slotVars
<1> QED BY <1>1, <1>2, <1>3, <1>4, <1>5, <1>7, <1>8, <1>9, <1>10 DEF Next, RunBatch

\* Type correctness of the leadership and the batches (TypeOK).
THEOREM TypeCorrect == Spec => []TypeOK
<1>1. Init => TypeOK
  BY LeadershipAssumption
     DEF Init, TypeOK, Leader, Invocation, NoInvocation, Phase
<1> QED BY <1>1, TypeInvariant, PTL DEF Spec

------------------------------------------------------------------------------
(* What a step does to the leadership.                                     *)

\* A slot that runs no acquisition keeps its generation or gives it up.
Kept(s) == generation'[s] \in {0, generation[s]}

\* Every step hands out one new generation, records one that is held, or
\* leaves generations as they are or gives them up.
LEMMA GenerationForms ==
    ASSUME TypeOK, [Next]_vars
    PROVE  \/ \E s \in Slots :
                /\ phase[s] = "begun"
                /\ leader'.generation = leader.generation + 1
                /\ leader'.executor = ExecutorOf[s]
                /\ generation' = [generation EXCEPT ![s] = leader.generation + 1]
                /\ phase' = [phase EXCEPT ![s] = "acquired"]
                /\ audit' = audit
           \/ \E s \in Slots :
                /\ phase[s] = "acquired"
                /\ phase' = [phase EXCEPT ![s] = "leading"]
                /\ audit' = audit \cup {<<ExecutorOf[s], generation[s]>>}
                /\ UNCHANGED <<leader, generation>>
           \/ /\ \A s \in Slots : Kept(s)
              /\ \A s \in Slots : phase'[s] = "acquired" =>
                    phase[s] = "acquired" /\ generation'[s] = generation[s]
              /\ leader'.generation = leader.generation
              /\ leader'.executor = leader.executor
              /\ audit' = audit
<1> USE DEF TypeOK, Leader, Phase
<1>1. ASSUME NEW s \in Slots, AcquireProcessorLeadership(s)
      PROVE  \/ /\ phase[s] = "begun"
                /\ leader'.generation = leader.generation + 1
                /\ leader'.executor = ExecutorOf[s]
                /\ generation' = [generation EXCEPT ![s] = leader.generation + 1]
                /\ phase' = [phase EXCEPT ![s] = "acquired"]
                /\ audit' = audit
             \/ /\ phase' = [phase EXCEPT ![s] = "finishing"]
                /\ UNCHANGED <<leader, generation, audit>>
  BY <1>1 DEF AcquireProcessorLeadership, Goto, NextGeneration
<1>2. ASSUME NEW s \in Slots, RecordAcquisition(s)
      PROVE  /\ phase[s] = "acquired"
             /\ phase' = [phase EXCEPT ![s] = "leading"]
             /\ audit' = audit \cup {<<ExecutorOf[s], generation[s]>>}
             /\ UNCHANGED <<leader, generation>>
  BY <1>2 DEF RecordAcquisition, Goto
<1>3. ASSUME NEW s \in Slots, BeginItem(s)
      PROVE  /\ phase' = [phase EXCEPT ![s] = "working"]
             /\ leader'.generation = leader.generation
             /\ leader'.executor = leader.executor
             /\ UNCHANGED <<generation, audit>>
  BY <1>3 DEF BeginItem, Goto
<1>4. ASSUME NEW s \in Slots, BeginBatch(s) \/ StopLoop(s) \/ EndItem(s) \/ Fail(s)
      PROVE  /\ \E p \in Phase \ {"acquired"} : phase' = [phase EXCEPT ![s] = p]
             /\ UNCHANGED <<leader, generation, audit>>
  BY <1>4 DEF BeginBatch, StopLoop, EndItem, Fail, Goto
<1>5. ASSUME NEW gone \in SUBSET Slots, Leave(gone)
      PROVE  /\ \A s \in Slots : Kept(s)
             /\ \A s \in Slots : phase'[s] = "acquired" =>
                   phase[s] = "acquired" /\ generation'[s] = generation[s]
  BY <1>5 DEF Leave, Kept
<1>6. ASSUME NEW s \in Slots, FinishBatch(s) \/ AbandonBatch(s)
      PROVE  Leave({s}) /\ UNCHANGED <<leader, audit>>
  BY <1>6 DEF FinishBatch, AbandonBatch
<1>7. ASSUME NEW e \in Executors, Crash(e)
      PROVE  Leave({s \in Slots : ExecutorOf[s] = e}) /\ UNCHANGED <<leader, audit>>
  BY <1>7 DEF Crash
<1>8. ASSUME Tick \/ UNCHANGED vars
      PROVE  UNCHANGED <<phase, generation, leader, audit>>
  BY <1>8 DEF Tick, vars, slotVars
<1> DEFINE Quiet ==
      /\ \A s \in Slots : Kept(s)
      /\ \A s \in Slots : phase'[s] = "acquired" =>
            phase[s] = "acquired" /\ generation'[s] = generation[s]
      /\ leader'.generation = leader.generation
      /\ leader'.executor = leader.executor
      /\ audit' = audit
<1>9. ASSUME NEW s \in Slots, NEW p \in Phase \ {"acquired"},
             phase' = [phase EXCEPT ![s] = p],
             leader'.generation = leader.generation,
             leader'.executor = leader.executor,
             UNCHANGED <<generation, audit>>
      PROVE  Quiet
  BY <1>9 DEF Kept
<1>10. ASSUME NEW s \in Slots, FinishBatch(s) \/ AbandonBatch(s) PROVE Quiet
  BY <1>5, <1>6, <1>10
<1>11. ASSUME NEW e \in Executors, Crash(e) PROVE Quiet
  BY <1>5, <1>7, <1>11
<1>12. ASSUME Tick \/ UNCHANGED vars PROVE Quiet
  BY <1>8, <1>12 DEF Kept
<1>13. ASSUME NEW s \in Slots,
              BeginBatch(s) \/ StopLoop(s) \/ EndItem(s) \/ Fail(s)
       PROVE  Quiet
  <2>1. PICK p \in Phase \ {"acquired"} : phase' = [phase EXCEPT ![s] = p]
    BY <1>4, <1>13
  <2> QED BY <1>4, <1>9, <1>13, <2>1
<1>14. ASSUME NEW s \in Slots, BeginItem(s) PROVE Quiet
  BY <1>3, <1>9, <1>14
<1>15. ASSUME NEW s \in Slots, AcquireProcessorLeadership(s),
              phase' = [phase EXCEPT ![s] = "finishing"],
              UNCHANGED <<leader, generation, audit>>
       PROVE  Quiet
  BY <1>9, <1>15
<1> HIDE DEF Quiet
<1>16. \/ \E s \in Slots : AcquireProcessorLeadership(s)
       \/ \E s \in Slots : RecordAcquisition(s)
       \/ Quiet
  BY <1>10, <1>11, <1>12, <1>13, <1>14 DEF Next, RunBatch
<1>17. CASE \E s \in Slots : AcquireProcessorLeadership(s)
  BY <1>1, <1>15, <1>17 DEF Quiet
<1>18. CASE \E s \in Slots : RecordAcquisition(s)
  BY <1>2, <1>18
<1>19. CASE Quiet
  BY <1>19 DEF Quiet
<1> QED BY <1>16, <1>17, <1>18, <1>19

------------------------------------------------------------------------------
\* Fencing is preserved: a new generation is above all the others, a recorded
\* one is held by the executor recorded, and nothing else makes one.
LEMMA LeadInvariant == LeadInv /\ [Next]_vars => LeadInv'
<1> SUFFICES ASSUME LeadInv, [Next]_vars
             PROVE  HeldOnlyWhenAcquired' /\ GenerationIsOneBatch'
  BY TypeInvariant DEF LeadInv
<1>0. TypeOK /\ TypeOK' /\ HeldOnlyWhenAcquired /\ GenerationIsOneBatch
  BY TypeInvariant DEF LeadInv
<1> USE DEF Leads
<1>1. ASSUME NEW s \in Slots, phase[s] = "begun",
             leader'.generation = leader.generation + 1,
             leader'.executor = ExecutorOf[s],
             generation' = [generation EXCEPT ![s] = leader.generation + 1],
             phase' = [phase EXCEPT ![s] = "acquired"],
             audit' = audit
      PROVE  HeldOnlyWhenAcquired' /\ GenerationIsOneBatch'
  <2>1. leader.generation \in Nat /\ generation \in [Slots -> Nat]
    BY <1>0 DEF TypeOK, Leader
  <2>2. \A r \in Slots : generation[r] <= leader.generation
    BY <1>0, <2>1 DEF GenerationIsOneBatch
  <2>3. \A a \in audit : a[2] <= leader.generation /\ a[2] \in Nat
    BY <1>0 DEF HeldOnlyWhenAcquired, TypeOK
  <2>4. HeldOnlyWhenAcquired'
    BY <1>0, <1>1, <2>1, <2>3 DEF HeldOnlyWhenAcquired, TypeOK
  <2>5. \A r, q \in Slots : r # q /\ generation'[r] > 0 =>
           generation'[r] # generation'[q]
    BY <1>0, <1>1, <2>1, <2>2 DEF GenerationIsOneBatch
  <2>6. ASSUME NEW r \in Slots, generation'[r] > 0
        PROVE  /\ generation'[r] <= leader'.generation
               /\ generation'[r] = leader'.generation =>
                     leader'.executor = ExecutorOf[r]
               /\ \A a \in audit' : a[2] = generation'[r] => a[1] = ExecutorOf[r]
    <3>1. CASE r = s
      BY <1>1, <2>1, <2>3, <3>1
    <3>2. CASE r # s
      <4>1. generation'[r] = generation[r]
        BY <1>1, <2>1, <3>2
      <4> QED BY <1>0, <1>1, <2>1, <2>2, <2>6, <4>1 DEF GenerationIsOneBatch
    <3> QED BY <3>1, <3>2
  <2>7. \A a, b \in audit' : a[2] = b[2] => a = b
    BY <1>0, <1>1 DEF GenerationIsOneBatch
  <2> QED BY <2>4, <2>5, <2>6, <2>7 DEF GenerationIsOneBatch
<1>2. ASSUME NEW s \in Slots, phase[s] = "acquired",
             phase' = [phase EXCEPT ![s] = "leading"],
             audit' = audit \cup {<<ExecutorOf[s], generation[s]>>},
             UNCHANGED <<leader, generation>>
      PROVE  HeldOnlyWhenAcquired' /\ GenerationIsOneBatch'
  <2>1. generation[s] > 0 /\ generation[s] <= leader.generation
    BY <1>0, <1>2 DEF HeldOnlyWhenAcquired, GenerationIsOneBatch
  <2>2. HeldOnlyWhenAcquired'
    BY <1>0, <1>2, <2>1 DEF HeldOnlyWhenAcquired, TypeOK
  <2>3. \A a \in audit : a[2] = generation[s] => a = <<ExecutorOf[s], generation[s]>>
    BY <1>0, <2>1 DEF GenerationIsOneBatch, TypeOK
  <2>4. \A a, b \in audit' : a[2] = b[2] => a = b
    BY <1>0, <1>2, <2>3 DEF GenerationIsOneBatch
  <2>5. \A r \in Slots : generation'[r] > 0 =>
           \A a \in audit' : a[2] = generation'[r] => a[1] = ExecutorOf[r]
    BY <1>0, <1>2, <2>1 DEF GenerationIsOneBatch
  <2> QED BY <1>0, <1>2, <2>2, <2>4, <2>5 DEF GenerationIsOneBatch
<1>3. ASSUME \A s \in Slots : Kept(s),
             \A s \in Slots : phase'[s] = "acquired" =>
                phase[s] = "acquired" /\ generation'[s] = generation[s],
             leader'.generation = leader.generation,
             leader'.executor = leader.executor,
             audit' = audit
      PROVE  HeldOnlyWhenAcquired' /\ GenerationIsOneBatch'
  <2>1. HeldOnlyWhenAcquired'
    BY <1>0, <1>3 DEF HeldOnlyWhenAcquired
  <2>2. \A r \in Slots : generation'[r] > 0 => generation'[r] = generation[r]
    BY <1>3 DEF Kept
  <2>3. \A r, q \in Slots : r # q /\ generation'[r] > 0 =>
           generation'[r] # generation'[q]
    BY <1>0, <1>3, <2>2 DEF GenerationIsOneBatch, Kept
  <2> QED BY <1>0, <1>3, <2>1, <2>2, <2>3 DEF GenerationIsOneBatch
<1> QED BY <1>0, <1>1, <1>2, <1>3, GenerationForms

LEMMA LeadInit == Init => LeadInv
BY LeadershipAssumption
   DEF Init, LeadInv, HeldOnlyWhenAcquired, GenerationIsOneBatch, Leads,
       TypeOK, Leader, Invocation, NoInvocation, Phase

\* For any number of processes and requests a leadership generation belongs to
\* one batch, so that it can fence the others (acquireProcessorLeadership).
THEOREM GenerationsExclusive == Spec => []GenerationIsOneBatch
<1>1. LeadInv => GenerationIsOneBatch
  BY DEF LeadInv
<1> QED BY <1>1, LeadInit, LeadInvariant, PTL DEF Spec

------------------------------------------------------------------------------
\* A batch begins an item only in the newest generation handed out
\* (renewProcessorLeadership before every item of processLeadBatch).
THEOREM ItemsFenced == Spec => ItemsFollowTheNewestLeader
<1> DEFINE Fenced ==
      \A s \in Slots : phase[s] # "working" /\ phase'[s] = "working" =>
         \A r \in Slots : generation[r] <= generation[s]
<1>1. ASSUME LeadInv, [Next]_vars PROVE Fenced
  <2> SUFFICES ASSUME NEW s \in Slots, phase[s] # "working", phase'[s] = "working",
                      NEW r \in Slots
               PROVE  generation[r] <= generation[s]
    OBVIOUS
  <2> USE DEF LeadInv, TypeOK, Phase
  <2>1. BeginItem(s)
    <3>1. ASSUME NEW q \in Slots, NEW p, Goto(q, p), p # "working" PROVE FALSE
      BY <1>1, <3>1 DEF Goto
    <3>2. ASSUME NEW gone \in SUBSET Slots, Leave(gone) PROVE FALSE
      BY <1>1, <3>2 DEF Leave
    <3>3. ASSUME NEW q \in Slots, BeginItem(q) PROVE q = s
      BY <1>1, <3>3 DEF BeginItem, Goto
    <3>4. ASSUME NEW q \in Slots,
                 BeginBatch(q) \/ RecordAcquisition(q) \/ StopLoop(q)
                   \/ EndItem(q) \/ Fail(q)
          PROVE  FALSE
      BY <3>1, <3>4
         DEF BeginBatch, RecordAcquisition, StopLoop, EndItem, Fail
    <3>5. ASSUME NEW q \in Slots, AcquireProcessorLeadership(q) PROVE FALSE
      BY <3>1, <3>5 DEF AcquireProcessorLeadership
    <3>6. ASSUME NEW q \in Slots, FinishBatch(q) \/ AbandonBatch(q) PROVE FALSE
      BY <3>2, <3>6 DEF FinishBatch, AbandonBatch
    <3>7. ASSUME NEW e \in Executors, Crash(e) PROVE FALSE
      BY <3>2, <3>7 DEF Crash
    <3>8. ASSUME Tick \/ UNCHANGED vars PROVE FALSE
      BY <1>1, <3>8 DEF Tick, vars, slotVars
    <3> QED BY <1>1, <3>3, <3>4, <3>5, <3>6, <3>7, <3>8 DEF Next, RunBatch
  <2>2. generation[s] = leader.generation
    BY <2>1 DEF BeginItem, Renewable
  <2>3. generation[r] <= leader.generation
    BY <1>1 DEF GenerationIsOneBatch, Leads, Leader
  <2> QED BY <2>2, <2>3
<1>2. LeadInv /\ [Next]_vars => [Fenced]_vars
  BY <1>1
<1> QED BY <1>2, LeadInit, LeadInvariant, PTL DEF Spec, ItemsFollowTheNewestLeader

\* The leadership changes hands only after its lease has run out by the true
\* clock: an instant read late or used late can only be early.
THEOREM TakeoverAfterExpiry == Spec => LeadershipIsNotTaken
<1> DEFINE NotTaken == leader.generation > 0 /\ leader'.executor # leader.executor
                         => leader.expiresAt <= clock
<1>1. ASSUME TypeOK, [Next]_vars PROVE NotTaken
  <2> SUFFICES ASSUME leader.generation > 0, leader'.executor # leader.executor
               PROVE  leader.expiresAt <= clock
    OBVIOUS
  <2>1. PICK s \in Slots : AcquireProcessorLeadership(s)
    <3>1. ASSUME NEW q \in Slots, BeginItem(q) PROVE FALSE
      BY <1>1, <3>1 DEF BeginItem, TypeOK, Leader
    <3>2. ASSUME leader' = leader PROVE FALSE
      BY <3>2
    <3> QED BY <1>1, <3>1, <3>2
            DEF Next, RunBatch, BeginBatch, RecordAcquisition, StopLoop, EndItem,
                Fail, FinishBatch, AbandonBatch, Crash, Tick, vars
  <2>2. PICK t \in Instants(s) : Acquirable(s, t) /\ leader'.executor = ExecutorOf[s]
    BY <2>1 DEF AcquireProcessorLeadership
  <2>3. leader.expiresAt <= t
    BY <1>1, <2>2 DEF Acquirable, TypeOK, Leader
  <2> QED BY <1>1, <2>3 DEF Instants, TypeOK, Leader
<1>2. TypeOK /\ [Next]_vars => [NotTaken]_vars
  BY <1>1
<1> QED BY <1>2, TypeCorrect, PTL DEF Spec, LeadershipIsNotTaken

\* Nothing reopens or deletes an invocation that completed.
THEOREM CompletionsStay == Spec => CompletedInvocationStays
<1> DEFINE Stays == \A k \in Keys : invocation[k].state = "completed" =>
                       invocation'[k].state = "completed"
<1>1. ASSUME TypeOK, [Next]_vars PROVE Stays
  <2> USE <1>1 DEF TypeOK, Invocation
  <2>1. ASSUME NEW s \in Slots, BeginBatch(s) PROVE Stays
    BY <2>1 DEF BeginBatch, Openable
  <2>2. ASSUME NEW s \in Slots, FinishBatch(s) PROVE Stays
    BY <2>2 DEF FinishBatch, InvocationCompleted
  <2>3. ASSUME NEW s \in Slots, AbandonBatch(s) PROVE Stays
    BY <2>3 DEF AbandonBatch, InvocationAbandoned
  <2>4. ASSUME invocation' = invocation PROVE Stays
    BY <2>4
  <2> HIDE DEF Stays
  <2> QED BY <2>1, <2>2, <2>3, <2>4
          DEF Next, RunBatch, AcquireProcessorLeadership, RecordAcquisition,
              BeginItem, StopLoop, EndItem, Fail, Crash, Tick, vars
<1>2. TypeOK /\ [Next]_vars => [Stays]_vars
  BY <1>1
<1> QED BY <1>2, TypeCorrect, PTL DEF Spec, CompletedInvocationStays

==============================================================================
