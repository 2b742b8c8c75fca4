-------------------------- MODULE SchedulerProofs --------------------------
(***************************************************************************)
(* The invariants of Scheduler hold for any number of processes and        *)
(* threads.                                                                *)
(***************************************************************************)
EXTENDS SchedulerSteps, FiniteSetTheorems

\* The laws of Cardinality() that the counts need hold of finite sets.
LEMMA Counting == CountingLaws
<1>1. IsFiniteSet(Thread \union Proc)  BY FiniteAssumption, FS_Union, Zenon
<1>2. ASSUME NEW L \in SUBSET (Thread \union Proc)
      PROVE  /\ Cardinality(L) \in Nat
             /\ \A x \in Thread \union Proc :
                  x \notin L => Cardinality(L \union {x}) = Cardinality(L) + 1
             /\ \A S \in SUBSET L : Cardinality(L \ S) = Cardinality(L) - Cardinality(S)
  <2>1. IsFiniteSet(L)  BY <1>1, FS_Subset, Zenon
  <2>2. ASSUME NEW x, x \notin L  PROVE Cardinality(L \union {x}) = Cardinality(L) + 1
    BY <2>1, <2>2, FS_AddElement, Zenon
  <2>3. ASSUME NEW S \in SUBSET L  PROVE Cardinality(L \ S) = Cardinality(L) - Cardinality(S)
    <3>1. L \intersect S = S  OBVIOUS
    <3> QED  BY <2>1, <3>1, FS_Difference, Zenon
  <2> QED  BY <2>1, <2>2, <2>3, FS_CardinalityType, Zenon
<1> QED  BY <1>2, FS_EmptySet, Zenon DEF CountingLaws

\* The inductive invariant holds in every reachable state.
THEOREM Inductive == Spec => []IInv
<1>1. Init => IInv  BY Counting, InitIInv
<1> QED  BY <1>1, NextIInv, PTL DEF Spec

\* Every variable keeps its type, whatever kernel calls the programs make.
THEOREM TypeCorrect == Spec => []TypeOK
<1>1. IInv => TypeOK  BY DEF IInv
<1> QED  BY Inductive, <1>1, PTL

\* Every process is on the list that matches its threads and exactly one
\* thread is on the CPU, for any number of processes and threads.
THEOREM PlacementCorrect == Spec => []ProcessPlacement
<1>1. IInv => ProcessPlacement  BY DEF IInv, ProcessPlacement, KernelAlwaysRunnable, Sound, Consistent
<1> QED  BY Inductive, <1>1, PTL

\* wakeup() can find every sleeping thread, although it does not search the
\* interrupted list.
THEOREM WakeupsFindSleepers == Spec => []SleepersCanBeWoken
<1>1. IInv => SleepersCanBeWoken  BY DEF IInv, SleepersCanBeWoken, Sound
<1> QED  BY Inductive, <1>1, PTL

\* The deferred reaping of a detached thread always comes before the harvest
\* of its process.
THEOREM DeferralsReaped == Spec => []DeferredBeforeHarvest
<1>1. IInv => DeferredBeforeHarvest  BY DEF IInv, DeferredBeforeHarvest, Sound, Consistent
<1> QED  BY Inductive, <1>1, PTL

\* The live counts of threads and of processes are exact and bounded.
THEOREM CountsExact == Spec => []LiveCounts
<1>1. IInv => LiveCounts  BY DEF IInv, LiveCounts, DeferredBeforeHarvest, Sound, Consistent
<1> QED  BY Inductive, <1>1, PTL

\* There is always a thread to dispatch: the panic of take_earliest_ready()
\* is unreachable.
THEOREM KernelNeverBlocks == Spec => []KernelAlwaysRunnable
<1>1. IInv => KernelAlwaysRunnable  BY DEF IInv, KernelAlwaysRunnable, Sound, Consistent
<1> QED  BY Inductive, <1>1, PTL

\* Blocked threads can rely on WInv in every reachable state.
THEOREM WaitersInductive == Spec => [](IInv /\ WInv)
<1>1. Init => IInv /\ WInv  BY Counting, InitIInv, InitWInv
<1>2. (IInv /\ WInv) /\ [Next]_vars => (IInv /\ WInv)'
  BY NextIInv, NextWInv
<1> QED  BY <1>1, <1>2, PTL DEF Spec

\* An interrupt reason is never left for a thread that continues in user mode.
THEOREM ReasonsReachSleepers == Spec => []ReasonReachesSleeper
<1>1. WInv => ReasonReachesSleeper  BY DEF WInv, Resumed, ReasonReachesSleeper
<1> QED  BY WaitersInductive, <1>1, PTL

\* No thread sleeps in join_thread() for a thread that has exited, although the
\* one exits and the other blocks without a common lock.
THEOREM JoinersWaitForTheLiving == Spec => []JoinersNotStranded
<1>1. WInv => JoinersNotStranded  BY DEF WInv, Joined, Live, JoinersNotStranded
<1> QED  BY WaitersInductive, <1>1, PTL

\* The status of the first exit() of a process is what it is harvested with.
THEOREM ExitStatusStable == Spec => FirstExitStatusKept
<1>1. (IInv /\ WInv) /\ [Next]_vars => [StatusKept]_vars  BY NextWInv
<1>2. Spec => [][StatusKept]_vars  BY WaitersInductive, <1>1, PTL DEF Spec
<1> QED  BY <1>2 DEF FirstExitStatusKept, StatusKept

\* Unless a program sets alarms, no thread of a process that exited or was
\* terminated runs in user mode again, and exit_thread() never returns to a
\* thread that the process manager has switched away from.
THEOREM NoSurvivors ==
  ASSUME "sleep" \notin Calls
  PROVE  Spec => []NoUserModeAfterExit
<1>1. Init => IInv /\ WInv /\ TInv  BY Counting, InitIInv, InitWInv, InitTInv
<1>2. (IInv /\ WInv /\ TInv) /\ [Next]_vars => (IInv /\ WInv /\ TInv)'
  BY NextIInv, NextWInv, NextTInv
<1>3. IInv /\ WInv /\ TInv => NoUserModeAfterExit
  BY DEF WInv, Resumed, TInv, Struck, NoUserModeAfterExit, InUser
<1> QED  BY <1>1, <1>2, <1>3, PTL DEF Spec

=============================================================================
