------------------------------ MODULE Hydration ------------------------------
(* How a cold island wakes: the element's #hydrate run (runtime/core.ts), the *)
(* turns handed out one per task (runtime/schedule.ts), and the clicks that   *)
(* land before the island is live (runtime/interaction.ts).                   *)
(*                                                                            *)
(* Time is a number of ticks since a turn was asked for; a tick passes only   *)
(* while no drain is queued and no timer is due.  Awaits that follow each     *)
(* other with the same check behind them are one stage: dom_ready and the     *)
(* download slot ("slot"), the import and Kit's page ("import").              *)
EXTENDS Integers, FiniteSets

CONSTANTS
  Island,        \* the self-running islands of the page
  When,          \* their schedule: "load", "visible" (idle, media) or "interaction"
  SnapshotWait,  \* SNAPSHOT_WAIT_MS in ticks
  HoldFor,       \* HOLD_FOR_VIEWPORT_MS in ticks
  MaxLeaves,     \* bound: how often an island leaves the document
  MaxClicks      \* bound: clicks under way on an island

ASSUME WhenAssumption == When \in [Island -> {"load", "visible", "interaction"}]
ASSUME WaitAssumption ==
  SnapshotWait \in Nat \ {0} /\ HoldFor \in Nat /\ SnapshotWait < HoldFor
ASSUME BoundAssumption ==
  MaxLeaves \in [Island -> Nat] /\ MaxClicks \in [Island -> Nat]
ASSUME IslandAssumption == IsFiniteSet(Island)

NoTimer == -1

VARIABLES
  where, leaves,     \* isConnected, and how often it left
  leaving,           \* #leaving: the teardown's microtask is queued
  scheduled,         \* #scheduled
  armed,             \* waits for the viewport, an idle moment, a media query
  starting,          \* its start is in the background queue
  capture,           \* its entry in interaction.ts's armed map
  swallowed,         \* clicks held by wakes that await its run
  replays,           \* clicks given back in the next frame
  run,               \* the stage of #hydrate_run
  app,               \* #app
  verdict            \* how its last run ended without an island: failed or not ours
                     \* ("cold"), or disposed meanwhile ("forgotten")

element == <<where, leaves, leaving, scheduled, armed, starting>>
wakes == <<run, app, verdict, capture, swallowed, replays>>

VARIABLES
  order,       \* order_of
  pending,     \* the turns asked for
  age,         \* ticks since each was asked for, up to HoldFor (0 once handed out)
  inview,      \* in_viewport, "unknown" before the first report
  observing,   \* unobserve_of
  loading,     \* loading
  draining,    \* draining: a drain is queued as a task
  timer,       \* wait_timer: ticks left
  hidden       \* document.visibilityState

schedule == <<order, pending, age, inview, observing, loading, draining, timer, hidden>>
vars == <<element, wakes, schedule>>

Stages == {"none", "slot", "import", "turn", "granted", "settle"}

TypeOK ==
  /\ where \in [Island -> {"in", "out"}]
  /\ leaves \in [Island -> Nat] /\ \A e \in Island : leaves[e] <= MaxLeaves[e]
  /\ leaving \subseteq Island /\ scheduled \subseteq Island
  /\ armed \subseteq Island /\ starting \subseteq Island
  /\ capture \in [Island -> {"none", "fresh", "woken"}]
  /\ swallowed \in [Island -> Nat] /\ replays \in [Island -> Nat]
  /\ run \in [Island -> Stages]
  /\ app \subseteq Island
  /\ verdict \in [Island -> {"none", "cold", "forgotten"}]
  /\ order \in [Island -> Nat]
  /\ pending \subseteq Island /\ observing \subseteq Island /\ loading \subseteq Island
  /\ age \in [Island -> 0..HoldFor]
  /\ inview \in [Island -> {"unknown", "yes", "no"}]
  /\ draining \in BOOLEAN /\ hidden \in BOOLEAN
  /\ timer \in {NoTimer} \cup (0..HoldFor)

Init ==
  /\ where = [e \in Island |-> "out"] /\ leaves = [e \in Island |-> 0]
  /\ leaving = {} /\ scheduled = {} /\ armed = {} /\ starting = {}
  /\ capture = [e \in Island |-> "none"]
  /\ swallowed = [e \in Island |-> 0] /\ replays = [e \in Island |-> 0]
  /\ run = [e \in Island |-> "none"] /\ app = {}
  /\ verdict = [e \in Island |-> "none"]
  /\ order = [e \in Island |-> 0] /\ age = [e \in Island |-> 0]
  /\ pending = {} /\ observing = {} /\ loading = {}
  /\ inview = [e \in Island |-> "unknown"]
  /\ draining = FALSE /\ timer = NoTimer /\ hidden \in BOOLEAN

(* A task starts when the microtasks of the last one are done.                *)
TaskEnds == leaving = {} /\ \A e \in Island : run[e] # "granted"

-----------------------------------------------------------------------------
(* The element enters and leaves the document.                                *)

Stamp(e) ==
  order' = IF order[e] # 0 THEN order
           ELSE [order EXCEPT ![e] = 1 + Cardinality({d \in Island : order[d] # 0})]

Arm(e) ==
  /\ starting' = IF When[e] = "load" THEN starting \cup {e} ELSE starting
  /\ armed' = IF When[e] = "visible" THEN armed \cup {e} ELSE armed
  /\ capture' = [capture EXCEPT ![e] = "fresh"]

Connect(e) ==
  /\ where[e] = "out"
  /\ where' = [where EXCEPT ![e] = "in"]
  /\ IF e \in scheduled
     THEN UNCHANGED <<scheduled, armed, starting, wakes, schedule>>
     ELSE /\ scheduled' = scheduled \cup {e}
          /\ Stamp(e)
          /\ observing' = observing \cup {e}
          /\ Arm(e)
          /\ UNCHANGED <<run, app, verdict, swallowed, replays>>
          /\ UNCHANGED <<pending, age, inview, loading, draining, timer, hidden>>
  /\ UNCHANGED <<leaves, leaving>>

Disconnect(e) ==
  /\ where[e] = "in" /\ leaves[e] < MaxLeaves[e]
  /\ leaves' = [leaves EXCEPT ![e] = @ + 1]
  /\ where' = [where EXCEPT ![e] = "out"]
  /\ leaving' = leaving \cup {e}
  /\ UNCHANGED <<scheduled, armed, starting, wakes, schedule>>

\* Mutant of Released: the waiting run is dropped with its turn.
ReleasedNever(e) == run
Released(e) == IF e \in pending THEN [run EXCEPT ![e] = "granted"] ELSE run

(* unregister_region hands the pending turn out at once.                      *)
Unregister(e) ==
  /\ observing' = observing \ {e}
  /\ inview' = [inview EXCEPT ![e] = "unknown"]
  /\ loading' = loading \ {e}
  /\ pending' = pending \ {e}
  /\ age' = [age EXCEPT ![e] = 0]
  /\ run' = Released(e)
  /\ draining' = (draining \/ pending' # {})

\* Mutant of Unscheduled: only a live island may be scheduled again.
UnscheduledIfLive(e) == IF e \in app THEN scheduled \ {e} ELSE scheduled
Unscheduled(e) == scheduled \ {e}

(* The microtask of disconnectedCallback: a move came back before it.         *)
Teardown(e) ==
  /\ e \in leaving
  /\ leaving' = leaving \ {e}
  /\ IF where[e] = "in"
     THEN UNCHANGED <<scheduled, armed, wakes, schedule>>
     ELSE /\ Unregister(e)
          /\ armed' = armed \ {e}
          /\ capture' = [capture EXCEPT ![e] = "none"]
          /\ app' = app \ {e}
          /\ verdict' = [verdict EXCEPT ![e] = "none"]
          /\ scheduled' = Unscheduled(e)
          /\ UNCHANGED <<swallowed, replays, order, timer, hidden>>
  /\ UNCHANGED <<where, leaves, starting>>

-----------------------------------------------------------------------------
(* The wake fires.  A run already under way is joined; an island that is live *)
(* or out of the document ends its run at once.                               *)

Fired(e) ==
  IF run[e] = "none" /\ e \notin app /\ where[e] = "in"
  THEN [run EXCEPT ![e] = "slot"] ELSE run

InView(e) ==
  /\ TaskEnds /\ e \in armed
  /\ armed' = armed \ {e}
  /\ starting' = starting \cup {e}
  /\ UNCHANGED <<where, leaves, leaving, scheduled, wakes, schedule>>

Start(e) ==
  /\ TaskEnds /\ e \in starting
  /\ starting' = starting \ {e}
  /\ run' = Fired(e)
  /\ UNCHANGED <<where, leaves, leaving, scheduled, armed, schedule>>
  /\ UNCHANGED <<app, verdict, capture, swallowed, replays>>

(* n clicks reach the region's capture: they are cancelled and queued, and    *)
(* the first wakes the island.                                                *)
Captured(e, n) ==
  /\ swallowed' = [swallowed EXCEPT ![e] = @ + n]
  /\ capture' = [capture EXCEPT ![e] = "woken"]
  /\ run' = IF capture[e] = "fresh" THEN Fired(e) ELSE run

Click(e) ==
  /\ TaskEnds /\ where[e] = "in" /\ capture[e] # "none"
  /\ swallowed[e] + replays[e] < MaxClicks[e]
  /\ Captured(e, 1)
  /\ UNCHANGED <<element, schedule, app, verdict, replays>>

(* The frame after a wake: the clicks are dispatched where the island stands, *)
(* and captured again if it was armed again.                                  *)
Replay(e) ==
  /\ TaskEnds /\ ~hidden /\ replays[e] > 0
  /\ replays' = [replays EXCEPT ![e] = 0]
  /\ IF where[e] = "in" /\ capture[e] # "none"
     THEN Captured(e, replays[e])
     ELSE UNCHANGED <<swallowed, capture, run>>
  /\ UNCHANGED <<element, schedule, app, verdict>>

-----------------------------------------------------------------------------
(* #hydrate, stage by stage.  A script that moves an element does so in one   *)
(* go: no stage of its run falls between its removal and the microtask that   *)
(* looks where it is.                                                         *)

At(e, stage) == run[e] = stage /\ e \notin leaving

\* Mutant of Unloaded: a run that fails stays in the schedule's memory.
UnloadedIfLive(e) == IF e \in app THEN loading \ {e} ELSE loading
Unloaded(e) == loading \ {e}

(* Its finally: the schedule forgets it, the capture is disarmed, and the     *)
(* wakes that awaited it give their clicks back in the next frame.            *)
Ends(e, how) ==
  /\ run' = [run EXCEPT ![e] = "none"]
  /\ verdict' = [verdict EXCEPT ![e] = how]
  /\ capture' = [capture EXCEPT ![e] = "none"]
  /\ swallowed' = [swallowed EXCEPT ![e] = 0]
  /\ replays' = [replays EXCEPT ![e] = @ + swallowed[e]]
  /\ loading' = Unloaded(e)
  /\ draining' = (draining \/ (e \in loading /\ pending # {}))

(* A run that finds its element gone ends without a word.                     *)
Gone(e) == Ends(e, verdict[e])

\* Mutant of SlotGranted: a wake awaits the start of the download only.
SlotGrantedGivesBack(e) ==
  /\ At(e, "slot") /\ where[e] = "in"
  /\ run' = [run EXCEPT ![e] = "import"]
  /\ loading' = loading \cup {e}
  /\ swallowed' = [swallowed EXCEPT ![e] = 0]
  /\ replays' = [replays EXCEPT ![e] = @ + swallowed[e]]
  /\ UNCHANGED <<element, app, verdict, capture>>
  /\ UNCHANGED <<order, pending, age, inview, observing, draining, timer, hidden>>

SlotGranted(e) ==
  /\ At(e, "slot")
  /\ IF where[e] = "in"
     THEN /\ run' = [run EXCEPT ![e] = "import"]
          /\ loading' = loading \cup {e}
          /\ UNCHANGED <<verdict, capture, swallowed, replays, draining>>
     ELSE Gone(e)
  /\ UNCHANGED <<element, app, order, pending, age, inview, observing, timer, hidden>>

ImportFails(e) ==
  /\ At(e, "import")
  /\ Ends(e, IF where[e] = "in" THEN "cold" ELSE verdict[e])
  /\ UNCHANGED <<element, app, order, pending, age, inview, observing, timer, hidden>>

(* hydrate_turn                                                               *)
AskTurn(e) ==
  /\ run' = [run EXCEPT ![e] = "turn"]
  /\ pending' = pending \cup {e}
  /\ age' = [age EXCEPT ![e] = 0]
  /\ draining' = TRUE

Imported(e) ==
  /\ At(e, "import")
  /\ IF where[e] = "in"
     THEN AskTurn(e) /\ UNCHANGED <<verdict, capture, swallowed, replays, loading>>
     ELSE Gone(e) /\ UNCHANGED <<pending, age>>
  /\ UNCHANGED <<element, app, order, inview, observing, timer, hidden>>

\* Mutant of MayHydrate: the element is not looked at again after the wait.
MayHydrateAnywhere(e) == e \notin app
MayHydrate(e) == where[e] = "in" /\ e \notin app

(* The turn is one synchronous step: core.hydrate_island answers an island,   *)
(* null (not ours), or throws.                                                *)
Turn(e) ==
  /\ At(e, "granted")
  /\ IF ~MayHydrate(e)
     THEN Gone(e) /\ UNCHANGED app
     ELSE \/ /\ app' = app \cup {e}
             /\ run' = [run EXCEPT ![e] = "settle"]
             /\ UNCHANGED <<verdict, capture, swallowed, replays, loading, draining>>
          \/ /\ Ends(e, "cold")
             /\ UNCHANGED app
  /\ UNCHANGED <<element, order, pending, age, inview, observing, timer, hidden>>

(* snippets_settled                                                           *)
Settled(e) ==
  /\ At(e, "settle")
  /\ Ends(e, IF where[e] = "in" /\ e \notin app THEN "forgotten" ELSE verdict[e])
  /\ UNCHANGED <<element, app, order, pending, age, inview, observing, timer, hidden>>

-----------------------------------------------------------------------------
(* The schedule of turns.                                                     *)

Unreported == {e \in pending : inview[e] = "unknown" /\ age[e] < SnapshotWait}

(* The one a drain looks at: in the viewport first, then in order.            *)
First(e) == \A d \in pending \ {e} :
  IF (inview[e] = "yes") # (inview[d] = "yes") THEN inview[e] = "yes"
  ELSE order[e] < order[d]

\* Mutant of Held: only an island that is ready holds the others.
HeldByReady(e) == /\ inview[e] # "yes" /\ age[e] < HoldFor
                  /\ \E v \in loading \cap pending : inview[v] = "yes"

Held(e) == /\ inview[e] # "yes" /\ age[e] < HoldFor
           /\ \E v \in loading : inview[v] = "yes"

(* drain_after: one timer, and whoever comes later rides it.                  *)
DrainAfter(ticks) ==
  /\ timer' = IF timer = NoTimer THEN ticks ELSE timer
  /\ UNCHANGED <<pending, age, loading, observing, run>>

HandTurn(e) ==
  /\ pending' = pending \ {e}
  /\ age' = [age EXCEPT ![e] = 0]
  /\ loading' = loading \ {e}
  /\ observing' = observing \ {e}
  /\ run' = [run EXCEPT ![e] = "granted"]
  /\ UNCHANGED timer

Drain ==
  /\ TaskEnds /\ draining
  /\ \/ pending = {} /\ UNCHANGED <<pending, age, loading, observing, run, timer>>
     \/ /\ ~hidden
        /\ \E e \in Unreported : /\ \A d \in Unreported : age[d] <= age[e]
                               /\ DrainAfter(SnapshotWait - age[e])
     \/ /\ hidden \/ Unreported = {}
        /\ \E e \in pending : First(e) /\ IF ~hidden /\ Held(e)
                                         THEN DrainAfter(HoldFor - age[e])
                                         ELSE HandTurn(e)
  /\ draining' = (pending' # pending /\ pending' # {})
  /\ UNCHANGED <<element, app, verdict, capture, swallowed, replays>>
  /\ UNCHANGED <<order, inview, hidden>>

\* Mutant of TimerFires: the timer ends and no drain follows.
TimerFiresOnly ==
  /\ TaskEnds /\ timer = 0
  /\ timer' = NoTimer
  /\ UNCHANGED <<element, wakes, order, pending, age, inview, observing, loading, draining, hidden>>

TimerFires ==
  /\ TaskEnds /\ timer = 0
  /\ timer' = NoTimer /\ draining' = TRUE
  /\ UNCHANGED <<element, wakes, order, pending, age, inview, observing, loading, hidden>>

(* A report of the shared observer; a hidden document has none.               *)
Report(e) ==
  /\ TaskEnds /\ ~hidden /\ e \in observing
  /\ \E v \in {"yes", "no"} : v # inview[e] /\ inview' = [inview EXCEPT ![e] = v]
  /\ draining' = (draining \/ pending # {})
  /\ UNCHANGED <<element, wakes, order, pending, age, observing, loading, timer, hidden>>

\* Mutant of Aged: a turn's wait is counted past the hold.
AgedForever(e) == IF e \in pending THEN age[e] + 1 ELSE age[e]
Aged(e) == IF e \in pending /\ age[e] < HoldFor THEN age[e] + 1 ELSE age[e]

Tick ==
  /\ TaskEnds /\ ~draining /\ timer # 0
  /\ timer # NoTimer \/ \E e \in pending : age[e] < HoldFor
  /\ timer' = IF timer = NoTimer THEN NoTimer ELSE timer - 1
  /\ age' = [e \in Island |-> Aged(e)]
  /\ UNCHANGED <<element, wakes, order, pending, inview, observing, loading, draining, hidden>>

VisibilityChange ==
  /\ TaskEnds
  /\ hidden' = ~hidden
  /\ UNCHANGED <<element, wakes, order, pending, age, inview, observing, loading, draining, timer>>

-----------------------------------------------------------------------------
Wake(e) == InView(e) \/ Start(e) \/ Click(e) \/ Replay(e)

Hydrate(e) == SlotGranted(e) \/ ImportFails(e) \/ Imported(e) \/ Turn(e) \/ Settled(e)

Next ==
  \/ \E e \in Island : Connect(e) \/ Disconnect(e) \/ Teardown(e)
  \/ \E e \in Island : Wake(e)
  \/ \E e \in Island : Hydrate(e)
  \/ \E e \in Island : Report(e)
  \/ Drain \/ TimerFires \/ Tick \/ VisibilityChange

(* Queued tasks and microtasks run, timers fire, time passes whenever the     *)
(* page is idle, a download slot is granted (LoadScheduler's Starts) and      *)
(* snippets settle or hit their cap.  An import need not settle, an observer  *)
(* need not report, a frame need not come, nobody need click or scroll.       *)
Fairness ==
  /\ \A e \in Island : /\ WF_vars(Teardown(e)) /\ WF_vars(Start(e))
                       /\ WF_vars(SlotGranted(e)) /\ WF_vars(Turn(e)) /\ WF_vars(Settled(e))
  /\ WF_vars(Drain) /\ WF_vars(TimerFires) /\ SF_vars(Tick)

Spec == Init /\ [][Next]_vars /\ Fairness

-----------------------------------------------------------------------------
(* An app belongs to an element of the document (or one whose teardown is     *)
(* queued): no run hydrates into a detached tree and no removal leaves its    *)
(* island running (core.ts: every check after an await, and #teardown).       *)
AppIsAttached == \A e \in app : where[e] = "in" \/ e \in leaving

(* The schedule's memory of a module in flight is true: a region in `loading` *)
(* has a run between its import and its turn.  A stale entry would hold every *)
(* island below the fold for a second (schedule.ts hydrate_settled).          *)
LoadingIsInFlight == \A e \in loading : run[e] \in {"import", "turn"}

(* Every turn asked for is still wanted by the run that waits for it, and no  *)
(* waiting run was dropped from the queue (schedule.ts pending).              *)
TurnsAreRuns == \A e \in Island : e \in pending <=> run[e] = "turn"

(* The schedule knows the runs for what they are, through every removal,      *)
(* failure and drain (schedule.ts, against core.ts's runs).                   *)
ScheduleIsExact == LoadingIsInFlight /\ TurnsAreRuns

(* A drain hands a turn to an island below the fold only if no island in the  *)
(* viewport is ready, and while one that never left the page is importing its *)
(* module only once the hold is over (schedule.ts drain).                     *)
HoldsForViewport ==
  [][\A e, v \in Island :
       /\ run[e] = "turn" /\ run'[e] = "granted" /\ e \in scheduled'
       /\ inview[e] # "yes" /\ inview[v] = "yes"
       => /\ v \notin pending
          /\ hidden \/ age[e] = HoldFor \/ run[v] # "import" \/ leaves[v] > 0]_vars

(* A swallowed click is given back when its run is over, to a live island, to *)
(* markup that will stay static, or to one that has left meanwhile            *)
(* (interaction.ts wake, core.ts #fire_hydrate: "an early return would replay *)
(* the click before the island is live").                                     *)
ClicksMeetTheIsland ==
  [][\A e \in Island :
       swallowed[e] > 0 /\ swallowed'[e] = 0 =>
         e \in app' \/ where[e] = "out" \/ verdict'[e] # "none"]_vars

(* Whatever would wake the island is still there: a start, a capture, a run.  *)
HasAWake(e) == e \in armed \/ e \in starting \/ capture[e] # "none" \/ run[e] # "none"

(* A scheduled island is live, or has something that will wake it, or its run *)
(* ended without one: nothing else loses a wake (core.ts connectedCallback,   *)
(* #fire_hydrate, the background queue, #disarm_interaction).                 *)
WakeIsKept ==
  \A e \in scheduled : e \in app \/ HasAWake(e) \/ verdict[e] # "none"

(* A turn asked for is handed out, though a chunk may never come, an observer *)
(* never report and the document be hidden (schedule.ts: the bounded holds).  *)
TurnsComeUp == \A e \in Island : run[e] = "turn" ~> run[e] # "turn"
=============================================================================
