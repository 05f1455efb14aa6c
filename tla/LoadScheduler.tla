---------------------------- MODULE LoadScheduler ----------------------------
(* The load scheduler (runtime/load-scheduler.ts): one queue for every       *)
(* download the runtime starts on its own.  A download has a class; island   *)
(* code and background classes wait for the page's critical resources, and   *)
(* background downloads share a window of slots.  A class read from the      *)
(* viewport or from a gesture (core.ts `cls`) may change while its download  *)
(* is queued; the queue looks at it when it drains.                          *)
EXTENDS Integers, FiniteSets

CONSTANTS
  Download,   \* calls of load_slot
  Code,       \* those of kind `code` (island modules); the others are `content`
  Following,  \* those whose class is a getter (an island or a hole on the page)
  Resource,   \* the elements marked fetchpriority=high
  Window      \* BACKGROUND_WINDOW

ASSUME DownloadAssumption == IsFiniteSet(Download)
ASSUME KindAssumption == Code \subseteq Download /\ Following \subseteq Download
ASSUME ResourceAssumption == IsFiniteSet(Resource)
ASSUME WindowAssumption == Window \in Nat \ {0}

VARIABLES
  kit,                  \* kit_hydrates_page(): SvelteKit hydrates this document
  entry,                \* entry[d]: d's queue entry and how far its download is
  next_order,
  in_flight_background,
  gate,                 \* "closed" (`critical` unset), "painting", "waiting", "open"
  pending,              \* the events (element, type) the gate still listens to
  left,                 \* the events it still needs
  input_seen,
  scroll_watch,         \* the scroll listener is installed
  framed                \* a scroll asked for a frame

gateVars == <<gate, pending, left, input_seen>>
scrollVars == <<scroll_watch, framed>>
vars == <<kit, entry, next_order, in_flight_background, gateVars, scrollVars>>

Rank == [user |-> 0, visible |-> 1, ahead |-> 2, speculative |-> 3]
LoadClass == DOMAIN Rank
Background == {"ahead", "speculative"}

Entry == [stage : {"idle", "queued", "running", "released"},
          cls : LoadClass, order : Nat, background : BOOLEAN]

NoEntry(stage) == [stage |-> stage, cls |-> "user", order |-> 0, background |-> FALSE]

Queue(entries) == {d \in Download : entries[d].stage = "queued"}

Init ==
  /\ kit \in BOOLEAN
  /\ entry = [d \in Download |-> NoEntry("idle")]
  /\ next_order = 0
  /\ in_flight_background = 0
  /\ gate = "closed" /\ pending = {} /\ left = 0
  /\ input_seen = FALSE
  /\ scroll_watch = FALSE /\ framed = FALSE

-----------------------------------------------------------------------------
(* The queue.                                                                *)

\* Does d, at class c, wait for the critical resources?
waits_for_critical(d, c) ==
  /\ c # "user"
  /\ ~kit
  /\ ~(d \notin Code /\ c = "visible")

\* Mutant of Before: the queue is served in arrival order.
BeforeInOrder(entries, e, d) == entries[e].order < entries[d].order

\* The queue's sort: by rank, then by arrival.
Before(entries, e, d) ==
  \/ Rank[entries[e].cls] < Rank[entries[d].cls]
  \/ Rank[entries[e].cls] = Rank[entries[d].cls] /\ entries[e].order < entries[d].order

\* The queued downloads nothing holds but, for a background one, the window.
Ready(entries, open) ==
  {d \in Queue(entries) : open \/ ~waits_for_critical(d, entries[d].cls)}

ReadyBackground(entries, open) ==
  {d \in Ready(entries, open) : entries[d].cls \in Background}

\* The ready background downloads sorted before d.
AheadOf(entries, open, d) ==
  {e \in ReadyBackground(entries, open) : Before(entries, e, d)}

\* Mutant of Started: one background download more than the window.
StartedOneMore(entries, open, inFlight) ==
  (Ready(entries, open) \ ReadyBackground(entries, open))
    \cup {d \in ReadyBackground(entries, open) :
            inFlight + Cardinality(AheadOf(entries, open, d)) <= Window}

\* What one drain starts: every ready foreground download, and as many of the
\* first ready background ones as the window has room for.
Started(entries, open, inFlight) ==
  (Ready(entries, open) \ ReadyBackground(entries, open))
    \cup {d \in ReadyBackground(entries, open) :
            inFlight + Cardinality(AheadOf(entries, open, d)) < Window}

\* `start(e, cls, background)`: a background download takes a slot for good.
start(e) == [stage |-> "running", cls |-> e.cls, order |-> e.order,
             background |-> e.cls \in Background]

\* `drain()`, over the entries, gate and window the step has made so far.
drain(entries, open, inFlight) ==
  LET started == Started(entries, open, inFlight)
  IN /\ entry' = [d \in Download |->
                    IF d \in started THEN start(entries[d]) ELSE entries[d]]
     /\ in_flight_background' =
          inFlight + Cardinality({d \in started : entries[d].cls \in Background})

\* `load_slot({ kind, cls })`: queue the download, ask for the critical wait if
\* it is the first to need it, watch the scroll if its class is a getter, drain.
load_slot(d, c) ==
  /\ entry[d].stage = "idle"
  /\ d \in Following => c # "speculative"
  /\ next_order' = next_order + 1
  /\ scroll_watch' = (scroll_watch \/ d \in Following)
  /\ gate' = IF gate = "closed" /\ waits_for_critical(d, c) THEN "painting" ELSE gate
  /\ drain([entry EXCEPT ![d] = [stage |-> "queued", cls |-> c,
                                 order |-> next_order, background |-> FALSE]],
           gate = "open", in_flight_background)
  /\ UNCHANGED <<kit, pending, left, input_seen, framed>>

\* `ticket.promote('user')`: a click on a link whose prefetch still waits.
promote(d) ==
  /\ entry[d].stage = "queued"
  /\ d \notin Following
  /\ drain([entry EXCEPT ![d].cls = "user"], gate = "open", in_flight_background)
  /\ UNCHANGED <<kit, next_order, gateVars, scrollVars>>

\* Mutant of release: the freed slot is not handed on.
release_quietly(d) ==
  /\ entry[d].stage = "running"
  /\ entry' = [entry EXCEPT ![d] = NoEntry("released")]
  /\ in_flight_background' = in_flight_background - (IF entry[d].background THEN 1 ELSE 0)
  /\ UNCHANGED <<kit, next_order, gateVars, scrollVars>>

\* Mutant of release: every download gives back a background slot.
release_any(d) ==
  /\ entry[d].stage = "running"
  /\ drain([entry EXCEPT ![d] = NoEntry("released")], gate = "open", in_flight_background - 1)
  /\ UNCHANGED <<kit, next_order, gateVars, scrollVars>>

\* The download settled: its slot, if it took one, is free for the next.
release(d) ==
  /\ entry[d].stage = "running"
  /\ drain([entry EXCEPT ![d] = NoEntry("released")], gate = "open",
           in_flight_background - (IF entry[d].background THEN 1 ELSE 0))
  /\ UNCHANGED <<kit, next_order, gateVars, scrollVars>>

-----------------------------------------------------------------------------
(* The critical-resources gate.                                              *)

\* `done(outcome)`: the gate opens, once, and what it held goes out.
done ==
  /\ gate' = "open"
  /\ pending' = {} /\ left' = 0
  /\ drain(entry, TRUE, in_flight_background)

\* The document is painted: listen to the resources that have not arrived, or
\* open at once (`none`: no such resource, an input already, a hidden document).
painted(waiting) ==
  /\ gate = "painting"
  /\ \/ /\ waiting # {} /\ ~input_seen
        /\ gate' = "waiting"
        /\ pending' = waiting \X {"load", "error"}
        /\ left' = Cardinality(waiting)
        /\ UNCHANGED <<entry, in_flight_background>>
     \/ waiting = {} /\ done
  /\ UNCHANGED <<kit, next_order, input_seen, scrollVars>>

\* `one`: an element's `load` or `error` (a fallback image loads after an error).
one(event) ==
  /\ gate = "waiting"
  /\ event \in pending
  /\ \/ /\ left # 1
        /\ left' = left - 1
        /\ pending' = pending \ {event}
        /\ UNCHANGED <<gate, entry, in_flight_background>>
     \/ left = 1 /\ done
  /\ UNCHANGED <<kit, next_order, input_seen, scrollVars>>

\* The CRITICAL_CAP_MS timer.
cap ==
  /\ gate = "waiting"
  /\ done
  /\ UNCHANGED <<kit, next_order, input_seen, scrollVars>>

\* The visitor's first pointerdown or keydown (`release_critical`).
on_first_input ==
  /\ ~input_seen
  /\ input_seen' = TRUE
  /\ \/ gate = "waiting" /\ done
     \/ gate # "waiting" /\ UNCHANGED <<gate, pending, left, entry, in_flight_background>>
  /\ UNCHANGED <<kit, next_order, scrollVars>>

-----------------------------------------------------------------------------
(* A queued download's class moves with the page.                            *)

\* A getter answers c from now on: the visitor scrolled (and the listener asks
\* for a frame), or the page laid itself out differently.
moves(d, c, scrolled) ==
  /\ entry[d].stage = "queued" /\ d \in Following
  /\ entry[d].cls \in {"visible", "ahead"}
  /\ c \in {"visible", "ahead"} \ {entry[d].cls}
  /\ entry' = [entry EXCEPT ![d].cls = c]
  /\ framed' = (framed \/ (scrolled /\ scroll_watch))
  /\ UNCHANGED <<kit, next_order, in_flight_background, gateVars, scroll_watch>>

\* The early-input capture: `#user_woken = true`, and `#hydrate` returns, being
\* under way already.
gesture(d) ==
  /\ entry[d].stage = "queued" /\ d \in Following
  /\ entry[d].cls # "user"
  /\ entry' = [entry EXCEPT ![d].cls = "user"]
  /\ UNCHANGED <<kit, next_order, in_flight_background, gateVars, scrollVars>>

\* Mutant of frame: the listener goes after its first frame.
frame_once ==
  /\ framed
  /\ framed' = FALSE
  /\ drain(entry, gate = "open", in_flight_background)
  /\ scroll_watch' = FALSE
  /\ UNCHANGED <<kit, next_order, gateVars>>

\* The frame after a scroll: drain; with nothing queued, stop listening.
frame ==
  /\ framed
  /\ framed' = FALSE
  /\ drain(entry, gate = "open", in_flight_background)
  /\ scroll_watch' = (Queue(entry') # {})
  /\ UNCHANGED <<kit, next_order, gateVars>>

Next ==
  \/ \E d \in Download : \/ \E c \in LoadClass : load_slot(d, c)
                         \/ promote(d) \/ release(d)
                         \/ \E c \in LoadClass, scrolled \in BOOLEAN : moves(d, c, scrolled)
                         \/ gesture(d)
  \/ \E waiting \in SUBSET Resource : painted(waiting)
  \/ \E event \in pending : one(event)
  \/ cap \/ on_first_input \/ frame

Spec == Init /\ [][Next]_vars

\* Every download settles, the document is painted, the cap's timer fires and a
\* frame asked for is rendered.  Nobody has to load, scroll or click.
Fairness ==
  /\ \A d \in Download : WF_vars(release(d))
  /\ WF_vars(\E waiting \in SUBSET Resource : painted(waiting))
  /\ WF_vars(cap)
  /\ WF_vars(frame)

FairSpec == Spec /\ Fairness

-----------------------------------------------------------------------------
(* Properties.                                                               *)

\* The background downloads in flight.
InFlight == {d \in Download : entry[d].stage = "running" /\ entry[d].background}

TypeOK ==
  /\ kit \in BOOLEAN
  /\ entry \in [Download -> Entry]
  /\ next_order \in Nat
  /\ in_flight_background \in Nat
  /\ gate \in {"closed", "painting", "waiting", "open"}
  /\ pending \subseteq Resource \X {"load", "error"}
  /\ left \in Nat
  /\ input_seen \in BOOLEAN
  /\ scroll_watch \in BOOLEAN /\ framed \in BOOLEAN

\* At most BACKGROUND_WINDOW background downloads are in flight at once, and
\* the counter is their number, whatever became of a download's class since it
\* started (`start` and the release it hands out).
WindowKept ==
  /\ in_flight_background = Cardinality(InFlight)
  /\ Cardinality(InFlight) <= Window

\* A download that starts leaves no download before it in the queue: one better
\* ranked, or of its rank and older, stays behind only at the gate (`drain`).
NoOvertaking ==
  [][\A d, e \in Download :
       /\ d \in Queue(entry) /\ entry'[d].stage = "running"
       /\ e \in Queue(entry')
       /\ Before(entry', e, d)
       => gate' # "open" /\ waits_for_critical(e, entry'[e].cls)]_vars

\* While a queued download's class can change with the viewport, the scroll is
\* watched (`watch_scroll` and its removal in the frame).
WatchedWhileQueued ==
  \A d \in Following : entry[d].stage = "queued" => scroll_watch

\* No wake-up is lost: every queued download starts, whether the gate, the
\* window or a stale class held it (`release`, `done`, `promote`, the frame).
Starts ==
  \A d \in Download : (entry[d].stage = "queued") ~> (entry[d].stage # "queued")
=============================================================================
