---------------------------- MODULE HydrationProofs ----------------------------
(* Hydration for every set of islands, every schedule and every hold: no      *)
(* island runs out of the document, the schedule's memory is that of the runs *)
(* under way, no wake and no click is lost, the hold below the fold is kept,  *)
(* and whoever waits for a turn is owed a drain.                              *)
EXTENDS Hydration, FiniteSetTheorems, TLAPS

\* A scheduled island is in the document, or its teardown is queued.
ScheduledIsIn == \A e \in scheduled : where[e] = "in" \/ e \in leaving

\* What is queued to be torn down has left before.
LeavingHasLeft == \A e \in leaving : leaves[e] > 0

\* An import of an island that never left is known to the schedule.
ImportIsLoading == \A e \in Island : run[e] = "import" /\ leaves[e] = 0 => e \in loading

\* What holds of where the islands are, of the runs and of their wakes.
Placed == AppIsAttached /\ ScheduledIsIn /\ LeavingHasLeft
Runs == LoadingIsInFlight /\ TurnsAreRuns /\ ImportIsLoading

IInv == TypeOK /\ Placed /\ Runs /\ WakeIsKept

LEMMA InitIInv == Init => IInv
<1> SUFFICES ASSUME Init PROVE IInv
  OBVIOUS
<1> USE DEF Init
<1>1. TypeOK
  <2>1. 0 \in 0 .. HoldFor /\ \A e \in Island : 0 <= MaxLeaves[e]
    BY WaitAssumption, BoundAssumption
  <2> QED
    BY <2>1 DEF TypeOK, Stages, NoTimer
<1>2. Placed /\ Runs /\ WakeIsKept
  BY DEF Placed, AppIsAttached, ScheduledIsIn, LeavingHasLeft, Runs, LoadingIsInFlight,
         TurnsAreRuns, ImportIsLoading, WakeIsKept
<1> QED
  BY <1>1, <1>2 DEF IInv

-----------------------------------------------------------------------------
(* In and out of the document.                                                *)

\* The first time an island connects it gets a place in the order.
LEMMA StampType ==
  ASSUME TypeOK, NEW e \in Island, Stamp(e)
  PROVE order' \in [Island -> Nat]
<1> DEFINE stamped == {d \in Island : order[d] # 0}
<1>1. Cardinality(stamped) \in Nat
  BY IslandAssumption, FS_Subset, FS_CardinalityType
<1> HIDE DEF stamped
<1>2. order' = IF order[e] # 0 THEN order ELSE [order EXCEPT ![e] = 1 + Cardinality(stamped)]
  BY DEF Stamp, stamped
<1> QED
  BY <1>1, <1>2 DEF TypeOK

LEMMA ConnectKeeps == ASSUME IInv, NEW e \in Island, Connect(e) PROVE IInv'
<1>1. /\ where[e] = "out" /\ where' = [where EXCEPT ![e] = "in"]
      /\ scheduled' = scheduled \cup {e} /\ UNCHANGED <<leaves, leaving>>
      /\ UNCHANGED <<run, app, verdict, swallowed, replays>>
      /\ UNCHANGED <<pending, age, inview, loading, draining, timer, hidden>>
  BY DEF Connect, wakes, schedule
<1>2. \/ e \in scheduled /\ UNCHANGED <<armed, starting, capture, order, observing>>
      \/ e \notin scheduled /\ Stamp(e) /\ observing' = observing \cup {e} /\ Arm(e)
  BY DEF Connect, wakes, schedule
<1>3. TypeOK'
  <2>1. order' \in [Island -> Nat]
    BY <1>2, StampType DEF IInv, TypeOK
  <2>2. armed' \subseteq Island /\ starting' \subseteq Island /\ observing' \subseteq Island
    BY <1>2 DEF IInv, TypeOK, Arm
  <2>3. capture' \in [Island -> {"none", "fresh", "woken"}]
    BY <1>2 DEF IInv, TypeOK, Arm
  <2> QED
    BY <1>1, <2>1, <2>2, <2>3 DEF IInv, TypeOK
<1>4. Placed'
  BY <1>1 DEF IInv, TypeOK, Placed, AppIsAttached, ScheduledIsIn, LeavingHasLeft
<1>5. Runs'
  BY <1>1 DEF IInv, Runs, LoadingIsInFlight, TurnsAreRuns, ImportIsLoading
<1>6. WakeIsKept'
  <2> SUFFICES ASSUME NEW d \in scheduled' PROVE d \in app' \/ HasAWake(d)' \/ verdict'[d] # "none"
    BY DEF WakeIsKept
  <2>1. CASE e \in scheduled
    BY <1>1, <1>2, <2>1 DEF IInv, WakeIsKept, HasAWake
  <2>2. CASE e \notin scheduled
    <3>1. /\ capture' = [capture EXCEPT ![e] = "fresh"]
          /\ armed \subseteq armed' /\ starting \subseteq starting'
      BY <1>2, <2>2 DEF Arm
    <3> QED
      BY <1>1, <3>1 DEF IInv, TypeOK, WakeIsKept, HasAWake
  <2> QED
    BY <2>1, <2>2
<1> QED
  BY <1>3, <1>4, <1>5, <1>6 DEF IInv

LEMMA DisconnectKeeps == ASSUME IInv, NEW e \in Island, Disconnect(e) PROVE IInv'
<1>1. /\ where' = [where EXCEPT ![e] = "out"] /\ leaves' = [leaves EXCEPT ![e] = @ + 1]
      /\ leaves[e] < MaxLeaves[e] /\ leaving' = leaving \cup {e}
      /\ UNCHANGED <<scheduled, armed, starting, wakes, schedule>>
  BY DEF Disconnect
<1> USE DEF wakes, schedule
<1>2. TypeOK'
  <2>1. leaves' \in [Island -> Nat] /\ \A d \in Island : leaves'[d] <= MaxLeaves[d]
    <3>1. /\ leaves \in [Island -> Nat] /\ \A d \in Island : leaves[d] <= MaxLeaves[d]
          /\ MaxLeaves \in [Island -> Nat]
      BY BoundAssumption DEF IInv, TypeOK
    <3>2. leaves[e] + 1 \in Nat /\ leaves[e] + 1 <= MaxLeaves[e]
      BY <1>1, <3>1
    <3> QED
      BY <1>1, <3>1, <3>2
  <2> QED
    BY <1>1, <2>1 DEF IInv, TypeOK
<1>3. Placed'
  BY <1>1, BoundAssumption DEF IInv, TypeOK, Placed, AppIsAttached, ScheduledIsIn, LeavingHasLeft
<1>4. Runs'
  BY <1>1, BoundAssumption DEF IInv, TypeOK, Runs, LoadingIsInFlight, TurnsAreRuns, ImportIsLoading
<1>5. WakeIsKept'
  BY <1>1 DEF IInv, WakeIsKept, HasAWake
<1> QED
  BY <1>2, <1>3, <1>4, <1>5 DEF IInv

LEMMA TeardownKeeps == ASSUME IInv, NEW e \in Island, Teardown(e) PROVE IInv'
<1> USE DEF wakes, schedule
<1>1. e \in leaving /\ leaving' = leaving \ {e} /\ UNCHANGED <<where, leaves, starting>>
  BY DEF Teardown
<1>2. CASE where[e] = "in"
  <2>1. UNCHANGED <<scheduled, armed, wakes, schedule>>
    BY <1>2 DEF Teardown
  <2> QED
    BY <1>1, <1>2, <2>1 DEF IInv, TypeOK, Placed, AppIsAttached, ScheduledIsIn, LeavingHasLeft,
       Runs, LoadingIsInFlight, TurnsAreRuns, ImportIsLoading, WakeIsKept, HasAWake
<1>3. CASE where[e] # "in"
  <2>1. /\ armed' = armed \ {e} /\ capture' = [capture EXCEPT ![e] = "none"]
        /\ app' = app \ {e} /\ verdict' = [verdict EXCEPT ![e] = "none"]
        /\ scheduled' = scheduled \ {e} /\ UNCHANGED <<swallowed, replays, order, timer, hidden>>
    BY <1>3 DEF Teardown, Unscheduled
  <2>2. /\ observing' = observing \ {e} /\ inview' = [inview EXCEPT ![e] = "unknown"]
        /\ loading' = loading \ {e} /\ pending' = pending \ {e}
        /\ age' = [age EXCEPT ![e] = 0] /\ draining' = (draining \/ pending' # {})
        /\ run' = IF e \in pending THEN [run EXCEPT ![e] = "granted"] ELSE run
    BY <1>3 DEF Teardown, Unregister, Released
  <2>3. TypeOK'
    BY <1>1, <2>1, <2>2, WaitAssumption DEF IInv, TypeOK, Stages
  <2>4. Placed'
    BY <1>1, <2>1 DEF IInv, Placed, AppIsAttached, ScheduledIsIn, LeavingHasLeft
  <2>5. Runs'
    BY <1>1, <2>2 DEF IInv, TypeOK, Placed, LeavingHasLeft, Runs, LoadingIsInFlight, TurnsAreRuns, ImportIsLoading
  <2>6. WakeIsKept'
    BY <1>1, <2>1, <2>2 DEF IInv, TypeOK, WakeIsKept, HasAWake
  <2> QED
    BY <2>3, <2>4, <2>5, <2>6 DEF IInv
<1> QED
  BY <1>2, <1>3

-----------------------------------------------------------------------------
(* The wakes.                                                                 *)

\* A wake that fires leaves something behind, unless the island is live.
LEMMA FiredKeeps ==
  ASSUME IInv, NEW e \in Island, run' = Fired(e) \/ run' = run, UNCHANGED <<leaves, loading, pending>>
  PROVE /\ run' \in [Island -> Stages] /\ Runs'
        /\ \A d \in Island : run[d] # "none" => run'[d] # "none"
<1>1. run' = run \/ (run[e] = "none" /\ run' = [run EXCEPT ![e] = "slot"])
  BY DEF Fired
<1>2. run' \in [Island -> Stages] /\ \A d \in Island : run[d] # "none" => run'[d] # "none"
  BY <1>1 DEF IInv, TypeOK, Stages
<1>3. Runs'
  BY <1>1 DEF IInv, TypeOK, Runs, LoadingIsInFlight, TurnsAreRuns, ImportIsLoading
<1> QED
  BY <1>2, <1>3

\* In the document, who was woken has a run or is live.
LEMMA FiredRuns ==
  ASSUME IInv, NEW e \in Island, run' = Fired(e), where[e] = "in"
  PROVE run'[e] # "none" \/ e \in app
  BY DEF Fired, IInv, TypeOK

LEMMA InViewKeeps == ASSUME IInv, NEW e \in Island, InView(e) PROVE IInv'
<1> USE DEF wakes, schedule
<1>1. /\ e \in armed /\ armed' = armed \ {e} /\ starting' = starting \cup {e}
      /\ UNCHANGED <<where, leaves, leaving, scheduled, wakes, schedule>>
  BY DEF InView
<1>2. TypeOK'
  BY <1>1 DEF IInv, TypeOK
<1>3. Placed' /\ Runs'
  BY <1>1 DEF IInv, Placed, AppIsAttached, ScheduledIsIn, LeavingHasLeft,
              Runs, LoadingIsInFlight, TurnsAreRuns, ImportIsLoading
<1>4. WakeIsKept'
  BY <1>1 DEF IInv, WakeIsKept, HasAWake
<1> QED
  BY <1>2, <1>3, <1>4 DEF IInv

LEMMA StartKeeps == ASSUME IInv, NEW e \in Island, Start(e) PROVE IInv'
<1> USE DEF schedule
<1>1. /\ e \in starting /\ starting' = starting \ {e} /\ run' = Fired(e) /\ leaving = {}
      /\ UNCHANGED <<where, leaves, leaving, scheduled, armed, schedule>>
      /\ UNCHANGED <<app, verdict, capture, swallowed, replays>>
  BY DEF Start, TaskEnds
<1>2. /\ run' \in [Island -> Stages] /\ Runs'
      /\ \A d \in Island : run[d] # "none" => run'[d] # "none"
  BY <1>1, FiredKeeps
<1>3. TypeOK'
  BY <1>1, <1>2 DEF IInv, TypeOK
<1>4. Placed'
  BY <1>1 DEF IInv, Placed, AppIsAttached, ScheduledIsIn, LeavingHasLeft
<1>5. WakeIsKept'
  <2> SUFFICES ASSUME NEW d \in scheduled PROVE d \in app' \/ HasAWake(d)' \/ verdict'[d] # "none"
    BY <1>1 DEF WakeIsKept
  <2>1. d \in Island /\ (d \in app \/ HasAWake(d) \/ verdict[d] # "none")
    BY DEF IInv, TypeOK, WakeIsKept
  <2>2. CASE d = e
    <3>1. where[e] = "in"
      BY <1>1, <2>2 DEF IInv, Placed, ScheduledIsIn
    <3>2. run'[e] # "none" \/ e \in app
      BY <1>1, <3>1, FiredRuns
    <3> QED
      BY <1>1, <2>2, <3>2 DEF HasAWake
  <2>3. CASE d # e
    BY <1>1, <1>2, <2>1, <2>3 DEF HasAWake
  <2> QED
    BY <2>2, <2>3
<1> QED
  BY <1>2, <1>3, <1>4, <1>5 DEF IInv

\* A click that is captured is a wake.
LEMMA CapturedKeeps ==
  ASSUME IInv, NEW e \in Island, NEW n \in Nat, Captured(e, n), UNCHANGED <<element, schedule, app, verdict>>,
         replays' \in [Island -> Nat]
  PROVE IInv'
<1> USE DEF schedule, element
<1>1. /\ swallowed' = [swallowed EXCEPT ![e] = @ + n]
      /\ capture' = [capture EXCEPT ![e] = "woken"]
      /\ run' = Fired(e) \/ run' = run
  BY DEF Captured
<1>2. /\ run' \in [Island -> Stages] /\ Runs'
      /\ \A d \in Island : run[d] # "none" => run'[d] # "none"
  BY <1>1, FiredKeeps
<1>3. TypeOK'
  <2>1. swallowed[e] + n \in Nat
    BY DEF IInv, TypeOK
  <2>2. swallowed' \in [Island -> Nat]
    BY <1>1, <2>1 DEF IInv, TypeOK
  <2> QED
    BY <1>1, <1>2, <2>2 DEF IInv, TypeOK
<1>4. Placed'
  BY DEF IInv, Placed, AppIsAttached, ScheduledIsIn, LeavingHasLeft
<1>5. WakeIsKept'
  <2>1. \A d \in Island : capture[d] # "none" => capture'[d] # "none"
    BY <1>1 DEF IInv, TypeOK
  <2> QED
    BY <1>2, <2>1 DEF IInv, TypeOK, WakeIsKept, HasAWake
<1> QED
  BY <1>2, <1>3, <1>4, <1>5 DEF IInv

LEMMA ClickKeeps == ASSUME IInv, NEW e \in Island, Click(e) \/ Replay(e) PROVE IInv'
<1>1. CASE Click(e)
  <2>1. Captured(e, 1) /\ UNCHANGED <<element, schedule, app, verdict, replays>>
    BY <1>1 DEF Click
  <2> QED
    BY <2>1, CapturedKeeps DEF IInv, TypeOK
<1>2. CASE Replay(e)
  <2>1. /\ replays' = [replays EXCEPT ![e] = 0] /\ UNCHANGED <<element, schedule, app, verdict>>
        /\ Captured(e, replays[e]) \/ UNCHANGED <<swallowed, capture, run>>
    BY <1>2 DEF Replay
  <2>2. replays' \in [Island -> Nat] /\ replays[e] \in Nat
    BY <2>1 DEF IInv, TypeOK
  <2>3. CASE UNCHANGED <<swallowed, capture, run>>
    BY <2>1, <2>2, <2>3 DEF element, schedule, IInv, TypeOK, Placed, AppIsAttached, ScheduledIsIn,
       LeavingHasLeft, Runs, LoadingIsInFlight, TurnsAreRuns, ImportIsLoading, WakeIsKept, HasAWake
  <2> QED
    BY <2>1, <2>2, <2>3, CapturedKeeps
<1> QED
  BY <1>1, <1>2

-----------------------------------------------------------------------------
(* The run, stage by stage.                                                   *)

\* A run that ends where no turn waits keeps the schedule true; it leaves its island
\* live, with a verdict, or out of the document and no longer scheduled.
LEMMA EndsKeeps ==
  ASSUME IInv, NEW e \in Island, run[e] # "turn", NEW how \in {"none", "cold", "forgotten"},
         Ends(e, how), how # "none" \/ e \in app \/ e \notin scheduled,
         UNCHANGED <<element, app, order, pending, age, inview, observing, timer, hidden>>
  PROVE IInv'
<1> USE DEF element
<1>1. /\ run' = [run EXCEPT ![e] = "none"] /\ verdict' = [verdict EXCEPT ![e] = how]
      /\ capture' = [capture EXCEPT ![e] = "none"] /\ swallowed' = [swallowed EXCEPT ![e] = 0]
      /\ replays' = [replays EXCEPT ![e] = @ + swallowed[e]] /\ loading' = loading \ {e}
      /\ draining' = (draining \/ (e \in loading /\ pending # {}))
  BY DEF Ends, Unloaded
<1>2. TypeOK'
  <2>1. replays[e] + swallowed[e] \in Nat
    BY DEF IInv, TypeOK
  <2>2. replays' \in [Island -> Nat]
    BY <1>1, <2>1 DEF IInv, TypeOK
  <2> QED
    BY <1>1, <2>2 DEF IInv, TypeOK, Stages
<1>3. Placed'
  BY DEF IInv, Placed, AppIsAttached, ScheduledIsIn, LeavingHasLeft
<1>4. Runs'
  BY <1>1 DEF IInv, TypeOK, Runs, LoadingIsInFlight, TurnsAreRuns, ImportIsLoading
<1>5. WakeIsKept'
  BY <1>1 DEF IInv, TypeOK, WakeIsKept, HasAWake
<1> QED
  BY <1>2, <1>3, <1>4, <1>5 DEF IInv

\* So does one that finds its element gone.
LEMMA GoneKeeps ==
  ASSUME IInv, NEW e \in Island, run[e] # "turn", e \notin leaving, where[e] # "in" \/ e \in app,
         Gone(e), UNCHANGED <<element, app, order, pending, age, inview, observing, timer, hidden>>
  PROVE IInv'
<1>1. verdict[e] \in {"none", "cold", "forgotten"}
  BY DEF IInv, TypeOK
<1>2. e \in app \/ e \notin scheduled
  BY DEF IInv, Placed, ScheduledIsIn
<1> QED
  BY <1>1, <1>2, EndsKeeps DEF Gone

LEMMA SlotKeeps == ASSUME IInv, NEW e \in Island, SlotGranted(e) PROVE IInv'
<1>1. /\ run[e] = "slot" /\ e \notin leaving
      /\ UNCHANGED <<element, app, order, pending, age, inview, observing, timer, hidden>>
  BY DEF SlotGranted, At
<1>2. CASE where[e] = "in"
  <2>1. /\ run' = [run EXCEPT ![e] = "import"] /\ loading' = loading \cup {e}
        /\ UNCHANGED <<verdict, capture, swallowed, replays, draining>>
    BY <1>2 DEF SlotGranted
  <2>2. TypeOK' /\ Placed'
    BY <1>1, <2>1 DEF element, IInv, TypeOK, Stages, Placed, AppIsAttached, ScheduledIsIn, LeavingHasLeft
  <2>3. Runs'
    BY <1>1, <2>1 DEF element, IInv, TypeOK, Runs, LoadingIsInFlight, TurnsAreRuns, ImportIsLoading
  <2>4. WakeIsKept'
    BY <1>1, <2>1 DEF element, IInv, TypeOK, WakeIsKept, HasAWake
  <2> QED
    BY <2>2, <2>3, <2>4 DEF IInv
<1>3. CASE where[e] # "in"
  <2>1. Gone(e)
    BY <1>3 DEF SlotGranted
  <2> QED
    BY <1>1, <1>3, <2>1, GoneKeeps
<1> QED
  BY <1>2, <1>3

LEMMA ImportKeeps == ASSUME IInv, NEW e \in Island, ImportFails(e) \/ Imported(e) PROVE IInv'
<1>1. run[e] = "import" /\ e \notin leaving
      /\ UNCHANGED <<element, app, order, inview, observing, timer, hidden>>
  BY DEF ImportFails, Imported, At
<1>2. CASE ImportFails(e)
  <2>1. /\ Ends(e, IF where[e] = "in" THEN "cold" ELSE verdict[e]) /\ UNCHANGED <<pending, age>>
    BY <1>2 DEF ImportFails
  <2>2. CASE where[e] = "in"
    BY <1>1, <2>1, <2>2, EndsKeeps
  <2>3. CASE where[e] # "in"
    BY <1>1, <2>1, <2>3, GoneKeeps DEF Gone
  <2> QED
    BY <2>2, <2>3
<1>3. CASE Imported(e) /\ where[e] # "in"
  <2>1. Gone(e) /\ UNCHANGED <<pending, age>>
    BY <1>3 DEF Imported
  <2> QED
    BY <1>1, <1>3, <2>1, GoneKeeps
<1>4. CASE Imported(e) /\ where[e] = "in"
  <2>1. /\ run' = [run EXCEPT ![e] = "turn"] /\ pending' = pending \cup {e}
        /\ age' = [age EXCEPT ![e] = 0] /\ draining' = TRUE
        /\ UNCHANGED <<verdict, capture, swallowed, replays, loading>>
    BY <1>4 DEF Imported, AskTurn
  <2>2. TypeOK'
    BY <1>1, <2>1, WaitAssumption DEF element, IInv, TypeOK, Stages
  <2>3. Placed'
    BY <1>1 DEF element, IInv, Placed, AppIsAttached, ScheduledIsIn, LeavingHasLeft
  <2>4. Runs'
    BY <1>1, <2>1 DEF element, IInv, TypeOK, Runs, LoadingIsInFlight, TurnsAreRuns, ImportIsLoading
  <2>5. WakeIsKept'
    BY <1>1, <2>1 DEF element, IInv, TypeOK, WakeIsKept, HasAWake
  <2> QED
    BY <2>2, <2>3, <2>4, <2>5 DEF IInv
<1> QED
  BY <1>2, <1>3, <1>4

LEMMA TurnKeeps == ASSUME IInv, NEW e \in Island, Turn(e) PROVE IInv'
<1>1. run[e] = "granted" /\ e \notin leaving
      /\ UNCHANGED <<element, order, pending, age, inview, observing, timer, hidden>>
  BY DEF Turn, At
<1>2. CASE ~MayHydrate(e)
  BY <1>1, <1>2, GoneKeeps DEF Turn, MayHydrate
<1>3. CASE MayHydrate(e) /\ Ends(e, "cold") /\ UNCHANGED app
  BY <1>1, <1>3, EndsKeeps
<1>4. CASE MayHydrate(e) /\ ~(Ends(e, "cold") /\ UNCHANGED app)
  <2>1. /\ app' = app \cup {e} /\ run' = [run EXCEPT ![e] = "settle"] /\ where[e] = "in"
        /\ UNCHANGED <<verdict, capture, swallowed, replays, loading, draining>>
    BY <1>4 DEF Turn, MayHydrate
  <2>2. TypeOK' /\ Placed'
    BY <1>1, <2>1 DEF element, IInv, TypeOK, Stages, Placed, AppIsAttached, ScheduledIsIn, LeavingHasLeft
  <2>3. Runs'
    BY <1>1, <2>1 DEF element, IInv, TypeOK, Runs, LoadingIsInFlight, TurnsAreRuns, ImportIsLoading
  <2>4. WakeIsKept'
    BY <1>1, <2>1 DEF element, IInv, TypeOK, WakeIsKept, HasAWake
  <2> QED
    BY <2>2, <2>3, <2>4 DEF IInv
<1> QED
  BY <1>2, <1>3, <1>4

LEMMA SettledKeeps == ASSUME IInv, NEW e \in Island, Settled(e) PROVE IInv'
<1>1. run[e] = "settle" /\ e \notin leaving
      /\ UNCHANGED <<element, app, order, pending, age, inview, observing, timer, hidden>>
  BY DEF Settled, At
<1>2. CASE where[e] = "in" /\ e \notin app
  BY <1>1, <1>2, EndsKeeps DEF Settled
<1>3. CASE ~(where[e] = "in" /\ e \notin app)
  BY <1>1, <1>3, GoneKeeps DEF Settled, Gone
<1> QED
  BY <1>2, <1>3

-----------------------------------------------------------------------------
(* The schedule of turns.                                                     *)

\* A timer set for the rest of a wait is no longer than the hold.
LEMMA DrainAfterType ==
  ASSUME IInv, NEW e \in Island, NEW wait \in {SnapshotWait, HoldFor}, age[e] < wait,
         DrainAfter(wait - age[e])
  PROVE timer' \in {NoTimer} \cup (0 .. HoldFor)
<1>1. age[e] \in Nat /\ wait \in Nat /\ wait <= HoldFor /\ HoldFor \in Nat
  BY WaitAssumption DEF IInv, TypeOK
<1>2. wait - age[e] \in 0 .. HoldFor
  BY <1>1
<1> QED
  BY <1>2 DEF DrainAfter, IInv, TypeOK

\* What a drain does to the queue: nothing, but for the turn it hands out.
LEMMA DrainCases ==
  ASSUME IInv, Drain
  PROVE /\ UNCHANGED <<element, app, verdict, capture, swallowed, replays, order, inview, hidden>>
        /\ draining' \in BOOLEAN /\ timer' \in {NoTimer} \cup (0 .. HoldFor)
        /\ \/ UNCHANGED <<pending, age, loading, observing, run>>
           \/ \E e \in pending : First(e) /\ (hidden \/ ~Held(e)) /\ HandTurn(e)
<1>1. /\ UNCHANGED <<element, app, verdict, capture, swallowed, replays, order, inview, hidden>>
      /\ draining' \in BOOLEAN
  BY DEF Drain
<1>2. timer \in {NoTimer} \cup (0 .. HoldFor)
  BY DEF IInv, TypeOK
<1>3. CASE UNCHANGED <<pending, age, loading, observing, run, timer>>
  BY <1>1, <1>2, <1>3
<1>4. ASSUME NEW e \in Unreported, DrainAfter(SnapshotWait - age[e])
      PROVE /\ timer' \in {NoTimer} \cup (0 .. HoldFor)
            /\ UNCHANGED <<pending, age, loading, observing, run>>
  <2>1. e \in Island /\ age[e] < SnapshotWait
    BY DEF Unreported, IInv, TypeOK
  <2>2. UNCHANGED <<pending, age, loading, observing, run>>
    BY <1>4 DEF DrainAfter
  <2> QED
    BY <1>4, <2>1, <2>2, DrainAfterType
<1>5. ASSUME NEW e \in pending, ~hidden, Held(e), DrainAfter(HoldFor - age[e])
      PROVE /\ timer' \in {NoTimer} \cup (0 .. HoldFor)
            /\ UNCHANGED <<pending, age, loading, observing, run>>
  <2>1. e \in Island /\ age[e] < HoldFor
    BY <1>5 DEF Held, IInv, TypeOK
  <2>2. UNCHANGED <<pending, age, loading, observing, run>>
    BY <1>5 DEF DrainAfter
  <2> QED
    BY <1>5, <2>1, <2>2, DrainAfterType
<1>6. ASSUME NEW e \in pending, First(e), ~(~hidden /\ Held(e)), HandTurn(e)
      PROVE /\ timer' \in {NoTimer} \cup (0 .. HoldFor)
            /\ \E d \in pending : First(d) /\ (hidden \/ ~Held(d)) /\ HandTurn(d)
  BY <1>2, <1>6 DEF HandTurn
<1>7. \/ UNCHANGED <<pending, age, loading, observing, run, timer>>
      \/ \E e \in Unreported : DrainAfter(SnapshotWait - age[e])
      \/ \E e \in pending : ~hidden /\ Held(e) /\ DrainAfter(HoldFor - age[e])
      \/ \E e \in pending : First(e) /\ ~(~hidden /\ Held(e)) /\ HandTurn(e)
  BY DEF Drain
<1> QED
  BY <1>1, <1>3, <1>4, <1>5, <1>6, <1>7

LEMMA DrainKeeps == ASSUME IInv, Drain PROVE IInv'
<1> USE DEF element
<1>1. /\ UNCHANGED <<element, app, verdict, capture, swallowed, replays, order, inview, hidden>>
      /\ draining' \in BOOLEAN /\ timer' \in {NoTimer} \cup (0 .. HoldFor)
  BY DrainCases
<1>2. CASE UNCHANGED <<pending, age, loading, observing, run>>
  BY <1>1, <1>2 DEF IInv, TypeOK, Placed, AppIsAttached, ScheduledIsIn, LeavingHasLeft,
     Runs, LoadingIsInFlight, TurnsAreRuns, ImportIsLoading, WakeIsKept, HasAWake
<1>3. ASSUME NEW e \in pending, HandTurn(e) PROVE IInv'
  <2>1. /\ e \in Island /\ run[e] = "turn"
        /\ pending' = pending \ {e} /\ age' = [age EXCEPT ![e] = 0] /\ loading' = loading \ {e}
        /\ observing' = observing \ {e} /\ run' = [run EXCEPT ![e] = "granted"]
    BY <1>3 DEF HandTurn, IInv, TypeOK, Runs, TurnsAreRuns
  <2>2. TypeOK'
    BY <1>1, <2>1, WaitAssumption DEF IInv, TypeOK, Stages
  <2>3. Placed'
    BY <1>1 DEF IInv, Placed, AppIsAttached, ScheduledIsIn, LeavingHasLeft
  <2>4. Runs'
    BY <1>1, <2>1 DEF IInv, TypeOK, Runs, LoadingIsInFlight, TurnsAreRuns, ImportIsLoading
  <2>5. WakeIsKept'
    BY <1>1, <2>1 DEF IInv, TypeOK, WakeIsKept, HasAWake
  <2> QED
    BY <2>2, <2>3, <2>4, <2>5 DEF IInv
<1> QED
  BY <1>2, <1>3, DrainCases

\* Reports, timers and the clock move no run and no wake.
LEMMA ClockKeeps ==
  ASSUME IInv, (\E e \in Island : Report(e)) \/ TimerFires \/ Tick \/ VisibilityChange
  PROVE IInv'
<1> USE DEF element, wakes
<1>1. UNCHANGED <<element, wakes, order, pending, observing, loading>>
  BY DEF Report, TimerFires, Tick, VisibilityChange
<1>2. Placed' /\ Runs' /\ WakeIsKept'
  BY <1>1 DEF IInv, Placed, AppIsAttached, ScheduledIsIn, LeavingHasLeft,
     Runs, LoadingIsInFlight, TurnsAreRuns, ImportIsLoading, WakeIsKept, HasAWake
<1>3. inview' \in [Island -> {"unknown", "yes", "no"}]
  BY DEF Report, TimerFires, Tick, VisibilityChange, IInv, TypeOK
<1>4. draining' \in BOOLEAN /\ hidden' \in BOOLEAN
  BY DEF Report, TimerFires, Tick, VisibilityChange, IInv, TypeOK
<1>5. timer' \in {NoTimer} \cup (0 .. HoldFor)
  <2>1. timer \in {NoTimer} \cup (0 .. HoldFor)
    BY DEF IInv, TypeOK
  <2>2. CASE Tick
    BY <2>1, <2>2, WaitAssumption DEF Tick, NoTimer
  <2>3. CASE ~Tick
    BY <2>1, <2>3 DEF Report, TimerFires, VisibilityChange
  <2> QED
    BY <2>2, <2>3
<1>6. age' \in [Island -> 0 .. HoldFor]
  <2>1. age \in [Island -> 0 .. HoldFor]
    BY DEF IInv, TypeOK
  <2>2. CASE Tick
    <3>1. \A e \in Island : Aged(e) \in 0 .. HoldFor
      BY <2>1, WaitAssumption DEF Aged
    <3> QED
      BY <2>2, <3>1 DEF Tick
  <2>3. CASE ~Tick
    BY <2>1, <2>3 DEF Report, TimerFires, VisibilityChange
  <2> QED
    BY <2>2, <2>3
<1>7. TypeOK'
  BY <1>1, <1>3, <1>4, <1>5, <1>6 DEF IInv, TypeOK
<1> QED
  BY <1>2, <1>7 DEF IInv

LEMMA StepKeeps == IInv /\ [Next]_vars => IInv'
<1> SUFFICES ASSUME IInv, [Next]_vars PROVE IInv'
  OBVIOUS
<1>1. ASSUME NEW e \in Island, Connect(e) \/ Disconnect(e) \/ Teardown(e) PROVE IInv'
  BY <1>1, ConnectKeeps, DisconnectKeeps, TeardownKeeps
<1>2. ASSUME NEW e \in Island, Wake(e) PROVE IInv'
  BY <1>2, InViewKeeps, StartKeeps, ClickKeeps DEF Wake
<1>3. ASSUME NEW e \in Island, Hydrate(e) PROVE IInv'
  BY <1>3, SlotKeeps, ImportKeeps, TurnKeeps, SettledKeeps DEF Hydrate
<1>4. ASSUME UNCHANGED vars PROVE IInv'
  BY <1>4 DEF vars, element, wakes, schedule, IInv, TypeOK, Placed, AppIsAttached, ScheduledIsIn,
     LeavingHasLeft, Runs, LoadingIsInFlight, TurnsAreRuns, ImportIsLoading, WakeIsKept, HasAWake
<1> QED
  BY <1>1, <1>2, <1>3, <1>4, DrainKeeps, ClockKeeps DEF Next

-----------------------------------------------------------------------------
(* The theorems.                                                              *)

\* The invariant, whatever the islands and their schedules.
THEOREM Invariant == Spec => []IInv
  BY InitIInv, StepKeeps, PTL DEF Spec

\* The elements, their runs and the schedule keep their types.
THEOREM TypeCorrect == Spec => []TypeOK
<1>1. IInv => TypeOK
  BY DEF IInv
<1> QED
  BY <1>1, Invariant, PTL

\* No island ever runs in an element that is out of the document for good: every
\* check after an await of `#hydrate`, and `#teardown`, leave no gap.
THEOREM NoAppDetached == Spec => []AppIsAttached
<1>1. IInv => AppIsAttached
  BY DEF IInv, Placed
<1> QED
  BY <1>1, Invariant, PTL

\* The schedule's queue and its memory of modules in flight are exactly those of the
\* runs under way (`pending`, `loading`).
THEOREM ScheduleIsTrue == Spec => []ScheduleIsExact
<1>1. IInv => ScheduleIsExact
  BY DEF IInv, Runs, ScheduleIsExact
<1> QED
  BY <1>1, Invariant, PTL

\* A scheduled island is live, has a wake to come, or a run of it ended without it.
THEOREM NoWakeIsLost == Spec => []WakeIsKept
<1>1. IInv => WakeIsKept
  BY DEF IInv
<1> QED
  BY <1>1, Invariant, PTL

\* A turn goes below the fold only when nobody in the viewport is ready, and, unless the
\* document is hidden, past the hold or with no import under way there (`drain`).
THEOREM ViewportComesFirst == Spec => HoldsForViewport
<1> DEFINE Holds == \A e, v \in Island :
             /\ run[e] = "turn" /\ run'[e] = "granted" /\ e \in scheduled'
             /\ inview[e] # "yes" /\ inview[v] = "yes"
             => /\ v \notin pending
                /\ hidden \/ age[e] = HoldFor \/ run[v] # "import" \/ leaves[v] > 0
<1>1. IInv /\ [Next]_vars => [Holds]_vars
  <2> SUFFICES ASSUME IInv, [Next]_vars, NEW e \in Island, NEW v \in Island,
                      run[e] = "turn", run'[e] = "granted", e \in scheduled',
                      inview[e] # "yes", inview[v] = "yes"
               PROVE /\ v \notin pending
                     /\ hidden \/ age[e] = HoldFor \/ run[v] # "import" \/ leaves[v] > 0
    OBVIOUS
  <2>1. ASSUME NEW d \in Island, Connect(d) \/ Disconnect(d) \/ Wake(d) PROVE FALSE
    BY <2>1 DEF Connect, Disconnect, Wake, InView, Start, Click, Replay, Captured, Fired, wakes, IInv, TypeOK
  <2>2. ASSUME NEW d \in Island, Teardown(d) PROVE FALSE
    BY <2>2 DEF Teardown, Unregister, Released, Unscheduled, wakes, IInv, TypeOK
  <2>3. ASSUME NEW d \in Island, Hydrate(d) PROVE FALSE
    BY <2>3 DEF Hydrate, SlotGranted, ImportFails, Imported, AskTurn, Turn, Settled, Gone, Ends, At, IInv, TypeOK
  <2>4. ~(\E d \in Island : Report(d)) /\ ~TimerFires /\ ~Tick /\ ~VisibilityChange /\ ~UNCHANGED vars
    BY DEF Report, TimerFires, Tick, VisibilityChange, vars, wakes
  <2>5. Drain
    BY <2>1, <2>2, <2>3, <2>4 DEF Next
  <2>6. PICK d \in pending : First(d) /\ (hidden \/ ~Held(d)) /\ HandTurn(d)
    BY <2>5, DrainCases
  <2>7. d = e
    BY <2>6 DEF HandTurn, IInv, TypeOK
  <2>8. v \notin pending
    BY <2>6, <2>7 DEF First
  <2>9. ASSUME ~hidden, age[e] # HoldFor, run[v] = "import", leaves[v] = 0 PROVE FALSE
    <3>1. age[e] < HoldFor
      BY <2>9, WaitAssumption DEF IInv, TypeOK
    <3>2. v \in loading
      BY <2>9 DEF IInv, Runs, ImportIsLoading
    <3> QED
      BY <2>6, <2>7, <2>9, <3>1, <3>2 DEF Held
  <2>10. leaves[v] \in Nat
    BY DEF IInv, TypeOK
  <2> QED
    BY <2>8, <2>9, <2>10
<1> QED
  BY <1>1, Invariant, PTL DEF Spec, HoldsForViewport

\* A run that ends gives the clicks it held to a live island, to markup that stays
\* static, or to one that has left (`#fire_hydrate`, `wake`): no other step of any
\* island's life takes a held click.
THEOREM ClicksAreNotLost == Spec => ClicksMeetTheIsland
<1> DEFINE Meets(e) == swallowed[e] > 0 /\ swallowed'[e] = 0 =>
                         e \in app' \/ where[e] = "out" \/ verdict'[e] # "none"
<1>1. IInv /\ [Next]_vars => [\A e \in Island : Meets(e)]_vars
  <2> SUFFICES ASSUME IInv, [Next]_vars, NEW e \in Island, swallowed[e] > 0, swallowed'[e] = 0
               PROVE  e \in app' \/ where[e] = "out" \/ verdict'[e] # "none"
    OBVIOUS
  <2>t. /\ swallowed \in [Island -> Nat] /\ replays \in [Island -> Nat]
        /\ verdict \in [Island -> {"none", "cold", "forgotten"}]
        /\ where[e] = "in" \/ where[e] = "out"
    BY DEF IInv, TypeOK
  <2>1. swallowed' # swallowed
    OBVIOUS
  <2>2. ASSUME NEW d \in Island, NEW n \in Nat, Captured(d, n) PROVE FALSE
    BY <2>2, <2>t DEF Captured
  <2>3. ASSUME NEW d \in Island, Wake(d) PROVE FALSE
    BY <2>1, <2>2, <2>3, <2>t DEF Wake, InView, Start, Click, Replay, wakes
  <2>4. ~(\E d \in Island : Connect(d) \/ Disconnect(d) \/ Teardown(d) \/ Report(d))
    BY <2>1 DEF Connect, Disconnect, Teardown, Report, wakes
  <2>5. ~Drain /\ ~TimerFires /\ ~Tick /\ ~VisibilityChange /\ ~UNCHANGED vars
    BY <2>1 DEF Drain, TimerFires, Tick, VisibilityChange, vars, wakes
  <2>6. PICK d \in Island : Hydrate(d)
    BY <2>3, <2>4, <2>5 DEF Next
  <2>7. PICK how \in {"none", "cold", "forgotten"} :
          /\ Ends(d, how) /\ UNCHANGED where
          /\ how # "none" \/ where[d] # "in" \/ d \in app'
    BY <2>1, <2>6, <2>t
       DEF Hydrate, SlotGranted, ImportFails, Imported, AskTurn, Turn, MayHydrate, Settled, Gone, element
  <2>8. d = e
    BY <2>7, <2>t DEF Ends
  <2> QED
    BY <2>7, <2>8, <2>t DEF Ends
<1> QED
  BY <1>1, Invariant, PTL DEF Spec, ClicksMeetTheIsland

\* While a turn is asked for, a drain is queued as a task, or the one timer is set.
DrainIsOwed == pending # {} => draining \/ timer # NoTimer

LEMMA OwedKeeps ==
  ASSUME IInv, DrainIsOwed, [Next]_vars
  PROVE  DrainIsOwed'
<1> USE DEF DrainIsOwed
<1>1. ASSUME UNCHANGED timer, draining => draining', pending' \subseteq pending \/ draining'
      PROVE  DrainIsOwed'
  BY <1>1
<1>2. ASSUME NEW e \in Island, Connect(e) \/ Disconnect(e) \/ Wake(e) PROVE DrainIsOwed'
  BY <1>1, <1>2 DEF Connect, Disconnect, Wake, InView, Start, Click, Replay, Captured, schedule
<1>3. ASSUME NEW e \in Island, Teardown(e) PROVE DrainIsOwed'
  BY <1>1, <1>3 DEF Teardown, Unregister, schedule
<1>4. ASSUME NEW e \in Island, Hydrate(e) PROVE DrainIsOwed'
  BY <1>1, <1>4 DEF Hydrate, SlotGranted, ImportFails, Imported, AskTurn, Turn, Settled, Gone, Ends
<1>5. ASSUME NEW e \in Island, Report(e) PROVE DrainIsOwed'
  BY <1>1, <1>5 DEF Report
<1>6. CASE Drain
  <2>1. ASSUME NEW wait, wait \in Nat, DrainAfter(wait) PROVE timer' # NoTimer
    BY <2>1 DEF DrainAfter, NoTimer
  <2>2. ASSUME NEW e \in Unreported, DrainAfter(SnapshotWait - age[e]) PROVE timer' # NoTimer
    <3>1. SnapshotWait - age[e] \in Nat
      BY WaitAssumption DEF Unreported, IInv, TypeOK
    <3> QED
      BY <2>1, <2>2, <3>1
  <2>3. ASSUME NEW e \in pending, Held(e), DrainAfter(HoldFor - age[e]) PROVE timer' # NoTimer
    <3>1. HoldFor - age[e] \in Nat
      BY <2>3, WaitAssumption DEF Held, IInv, TypeOK
    <3> QED
      BY <2>1, <2>3, <3>1
  <2>4. ASSUME NEW e \in pending, HandTurn(e), draining' = (pending' # pending /\ pending' # {})
        PROVE  DrainIsOwed'
    <3>1. pending' # pending
      BY <2>4 DEF HandTurn
    <3> QED
      BY <2>4, <3>1
  <2> QED
    BY <1>6, <2>2, <2>3, <2>4 DEF Drain
<1>7. CASE TimerFires
  BY <1>7 DEF TimerFires
<1>8. CASE Tick
  <2>1. timer # NoTimer => timer' # NoTimer
    BY <1>8 DEF Tick, NoTimer, IInv, TypeOK
  <2> QED
    BY <1>8, <2>1 DEF Tick
<1>9. CASE VisibilityChange
  BY <1>9 DEF VisibilityChange
<1>10. CASE UNCHANGED vars
  BY <1>10 DEF vars, schedule
<1> QED
  BY <1>2, <1>3, <1>4, <1>5, <1>6, <1>7, <1>8, <1>9, <1>10 DEF Next

\* No turn is forgotten in the queue: whatever leaves, fails, reports or is held, and
\* though one timer serves every hold, something will drain again (`drain_after`,
\* `hydrate_settled`, `unregister_region`).
THEOREM TurnsAreWatched == Spec => []DrainIsOwed
<1>1. Init => DrainIsOwed
  BY DEF Init, DrainIsOwed
<1>2. IInv /\ DrainIsOwed /\ [Next]_vars => DrainIsOwed'
  BY OwedKeeps
<1> QED
  BY <1>1, <1>2, Invariant, PTL DEF Spec
=============================================================================
