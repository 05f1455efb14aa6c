-------------------------- MODULE LoadSchedulerProofs --------------------------
(* LoadScheduler for every set of downloads and every window: the window is  *)
(* kept and used up, nothing overtakes in the queue, and a queued download   *)
(* whose class follows the viewport is always watched.                       *)
EXTENDS LoadScheduler, FiniteSetTheorems, WellFoundedInduction, TLAPS

\* The background downloads in flight among the given entries.
BackgroundIn(entries) ==
  {d \in Download : entries[d].stage = "running" /\ entries[d].background}

\* Arrival numbers order the queue: below the next one, and no two alike.
Ordered(entries, next) ==
  \A d \in Queue(entries) :
    /\ entries[d].order < next
    /\ \A e \in Queue(entries) : e # d => entries[e].order # entries[d].order

\* While the gate listens, some event is still needed.
GateNeeds == gate = "waiting" => left >= 1

\* The inductive invariant.  The window bound rests on Ordered: two ready
\* downloads never count the same ones ahead of them.
IInv ==
  /\ TypeOK
  /\ WindowKept
  /\ WatchedWhileQueued
  /\ Ordered(entry, next_order)
  /\ GateNeeds

\* What a drain starts that is in the background.
StartedBackground(entries, open, inFlight) ==
  {d \in Started(entries, open, inFlight) : entries[d].cls \in Background}

\* `Before` on a queue with distinct arrivals: of two downloads one is first,
\* and it comes with everything before it.
LEMMA BeforeOrders ==
  ASSUME NEW entries \in [Download -> Entry],
         NEW d \in Download, NEW e \in Download,
         entries[d].order # entries[e].order
  PROVE  /\ Before(entries, d, e) \/ Before(entries, e, d)
         /\ ~Before(entries, d, d)
         /\ Before(entries, d, e) =>
              \A x \in Download : Before(entries, x, d) => Before(entries, x, e)
<1>1. \A x \in Download : entries[x].cls \in LoadClass /\ entries[x].order \in Nat
  BY DEF Entry
<1>2. \A c \in LoadClass : Rank[c] \in Nat
  BY DEF LoadClass, Rank
<1>3. \A x \in Download : Rank[entries[x].cls] \in Nat
  BY <1>1, <1>2
<1> QED
  BY <1>1, <1>3 DEF Before

\* Counting the ready background downloads ahead orders them as the queue does.
LEMMA AheadGrows ==
  ASSUME NEW entries \in [Download -> Entry], NEW next \in Nat, Ordered(entries, next),
         NEW open \in BOOLEAN,
         NEW d \in ReadyBackground(entries, open), NEW e \in ReadyBackground(entries, open)
  PROVE  /\ Cardinality(AheadOf(entries, open, d)) \in Nat
         /\ Before(entries, d, e) =>
              Cardinality(AheadOf(entries, open, d)) < Cardinality(AheadOf(entries, open, e))
<1> DEFINE ahead(x) == AheadOf(entries, open, x)
<1>1. d \in Queue(entries) /\ e \in Queue(entries) /\ d \in Download /\ e \in Download
  BY DEF ReadyBackground, Ready, Queue
<1>2. \A x \in Download : IsFiniteSet(ahead(x)) /\ Cardinality(ahead(x)) \in Nat
  <2>1. \A x \in Download : ahead(x) \in SUBSET Download
    BY DEF AheadOf, ReadyBackground, Ready, Queue
  <2> QED BY <2>1, DownloadAssumption, FS_Subset, FS_CardinalityType
<1>3. ASSUME Before(entries, d, e) PROVE Cardinality(ahead(d)) < Cardinality(ahead(e))
  <2>1. d # e
    <3>1. entries[d].order \in Nat /\ entries[d].cls \in LoadClass
      BY <1>1 DEF Entry
    <3>2. Rank[entries[d].cls] \in Nat
      BY <3>1 DEF LoadClass, Rank
    <3> QED BY <1>3, <3>1, <3>2 DEF Before
  <2>2. entries[d].order # entries[e].order
    BY <1>1, <2>1 DEF Ordered
  <2>3. ahead(d) \in SUBSET ahead(e)
    <3>1. \A x \in Download : Before(entries, x, d) => Before(entries, x, e)
      BY <1>1, <1>3, <2>2, BeforeOrders
    <3> QED BY <3>1 DEF AheadOf, ReadyBackground, Ready, Queue
  <2>4. d \in ahead(e) /\ d \notin ahead(d)
    <3>1. ~Before(entries, d, d)
      BY <1>1, <2>2, BeforeOrders
    <3> QED BY <1>3, <3>1 DEF AheadOf
  <2>5. IsFiniteSet(ahead(e)) /\ Cardinality(ahead(d)) \in Nat /\ Cardinality(ahead(e)) \in Nat
    BY <1>1, <1>2
  <2> HIDE DEF ahead
  <2>6. Cardinality(ahead(d)) <= Cardinality(ahead(e)) /\ Cardinality(ahead(d)) # Cardinality(ahead(e))
    BY <2>3, <2>4, <2>5, FS_Subset
  <2> QED BY <2>5, <2>6
<1> QED
  BY <1>1, <1>2, <1>3

\* The window lemma: a drain starts no more background downloads than the
\* window has room for.  (Counting those ahead of it is one-to-one on the
\* started, so they are at most as many as the counts allowed.)
LEMMA RoomForAll ==
  ASSUME NEW entries \in [Download -> Entry], NEW next \in Nat, Ordered(entries, next),
         NEW open \in BOOLEAN, NEW inFlight \in Nat, inFlight <= Window
  PROVE  LET B == StartedBackground(entries, open, inFlight)
         IN  /\ IsFiniteSet(B)
             /\ Cardinality(B) \in Nat
             /\ inFlight + Cardinality(B) <= Window
<1> DEFINE B == StartedBackground(entries, open, inFlight)
           ahead(d) == AheadOf(entries, open, d)
           room == Window - inFlight
           T == 0..(room - 1)
           pos == [d \in B |-> Cardinality(ahead(d))]
<1>1. IsFiniteSet(B) /\ Cardinality(B) \in Nat
  <2>1. B \in SUBSET Download
    BY DEF StartedBackground, Started, Ready, ReadyBackground, Queue
  <2> QED BY <2>1, DownloadAssumption, FS_Subset, FS_CardinalityType
<1>2. \A d \in Download : IsFiniteSet(ahead(d)) /\ Cardinality(ahead(d)) \in Nat
  <2>1. \A d \in Download : ahead(d) \in SUBSET Download
    BY DEF AheadOf, ReadyBackground, Ready, Queue
  <2> QED BY <2>1, DownloadAssumption, FS_Subset, FS_CardinalityType
<1>3. \A d \in B : /\ d \in Download /\ d \in ReadyBackground(entries, open)
                   /\ d \in Queue(entries)
                   /\ inFlight + Cardinality(ahead(d)) < Window
  BY DEF StartedBackground, Started, Ready, ReadyBackground, Queue
<1>4. Window \in Nat /\ room \in Nat
  BY WindowAssumption
<1>5. pos \in [B -> T]
  BY <1>2, <1>3, <1>4
<1>6. \A d, e \in B : Before(entries, d, e) => pos[d] < pos[e]
  BY <1>3, AheadGrows
<1>7. \A d, e \in B : d # e => pos[d] # pos[e]
  <2> SUFFICES ASSUME NEW d \in B, NEW e \in B, d # e
               PROVE  pos[d] # pos[e]
    OBVIOUS
  <2>1. entries[d].order # entries[e].order
    BY <1>3 DEF Ordered
  <2>2. Before(entries, d, e) \/ Before(entries, e, d)
    BY <2>1, <1>3, BeforeOrders
  <2>3. pos[d] \in Nat /\ pos[e] \in Nat
    BY <1>2, <1>3
  <2> HIDE DEF pos
  <2> QED BY <1>6, <2>2, <2>3
<1>8. IsFiniteSet(T) /\ Cardinality(T) = room
  <2>1. 0 \in Int /\ room - 1 \in Int /\ (IF 0 > room - 1 THEN 0 ELSE room - 1 - 0 + 1) = room
    BY <1>4
  <2> HIDE DEF room
  <2> QED BY <2>1, FS_Interval
<1>9. ~(Cardinality(T) < Cardinality(B))
  <2> SUFFICES ASSUME Cardinality(T) < Cardinality(B) PROVE FALSE
    OBVIOUS
  <2> HIDE DEF pos, T, B
  <2> QED BY <1>1, <1>5, <1>7, <1>8, FS_PigeonHole
<1> QED
  <2> HIDE DEF B, T
  <2>1. Cardinality(B) <= Window - inFlight
    BY <1>1, <1>4, <1>8, <1>9
  <2>2. inFlight + Cardinality(B) <= Window
    BY <1>1, <1>4, <2>1
  <2> QED BY <1>1, <2>2 DEF B

\* A drain keeps the queue's shape, and the counter the number in flight.
LEMMA DrainKeeps ==
  ASSUME NEW entries \in [Download -> Entry], NEW next \in Nat, Ordered(entries, next),
         NEW open \in BOOLEAN, NEW inFlight \in Nat,
         inFlight = Cardinality(BackgroundIn(entries)), inFlight <= Window,
         drain(entries, open, inFlight)
  PROVE  /\ entry' \in [Download -> Entry]
         /\ in_flight_background' \in Nat
         /\ WindowKept'
         /\ Ordered(entry', next)
         /\ Queue(entry') \subseteq Queue(entries)
<1> DEFINE S == Started(entries, open, inFlight)
           B == StartedBackground(entries, open, inFlight)
<1>1. S \subseteq Queue(entries) /\ Queue(entries) \subseteq Download
  BY DEF Started, Ready, ReadyBackground, Queue
<1>2. /\ entry' = [d \in Download |->
                    IF d \in S THEN start(entries[d]) ELSE entries[d]]
      /\ in_flight_background' = inFlight + Cardinality(B)
  BY DEF drain, StartedBackground
<1>3. IsFiniteSet(B) /\ Cardinality(B) \in Nat /\ inFlight + Cardinality(B) <= Window
  BY RoomForAll
<1>4. B = {d \in S : entries[d].cls \in Background}
  BY DEF StartedBackground
<1> HIDE DEF S, B
<1>5. entry' \in [Download -> Entry]
  <2>1. \A d \in Download : start(entries[d]) \in Entry
    BY DEF start, Entry
  <2> QED BY <1>2, <2>1
<1>6. /\ \A d \in S : entry'[d].stage = "running" /\ (entry'[d].background <=> d \in B)
      /\ \A d \in Download \ S : entry'[d] = entries[d]
  BY <1>1, <1>2, <1>4 DEF start
<1>7. Queue(entry') = Queue(entries) \ S
  BY <1>1, <1>6 DEF Queue
<1>8. Ordered(entry', next)
  BY <1>1, <1>6, <1>7 DEF Ordered
<1>9. InFlight' = BackgroundIn(entries) \cup B
  <2>1. InFlight' = {d \in Download : entry'[d].stage = "running" /\ entry'[d].background}
    BY DEF InFlight
  <2>2. \A d \in S : entries[d].stage = "queued"
    BY <1>1 DEF Queue
  <2>3. \A d \in S : d \in InFlight' <=> d \in BackgroundIn(entries) \cup B
    BY <1>1, <1>6, <2>1, <2>2 DEF BackgroundIn
  <2>4. \A d \in Download \ S : d \in InFlight' <=> d \in BackgroundIn(entries) \cup B
    BY <1>4, <1>6, <2>1 DEF BackgroundIn
  <2> QED BY <1>1, <1>4, <2>1, <2>3, <2>4 DEF BackgroundIn
<1>10. BackgroundIn(entries) \cap B = {}
  BY <1>1, <1>4 DEF BackgroundIn, Queue
<1>11. IsFiniteSet(BackgroundIn(entries))
  <2>1. BackgroundIn(entries) \in SUBSET Download
    BY DEF BackgroundIn
  <2> QED BY <2>1, DownloadAssumption, FS_Subset
<1>12. Cardinality(InFlight') = inFlight + Cardinality(B)
  <2>1. /\ Cardinality(BackgroundIn(entries) \cup B)
            = Cardinality(BackgroundIn(entries)) + Cardinality(B)
              - Cardinality(BackgroundIn(entries) \cap B)
    BY <1>3, <1>11, FS_Union
  <2>2. Cardinality(BackgroundIn(entries) \cap B) = 0
    BY <1>10, FS_EmptySet
  <2> QED BY <1>3, <1>9, <2>1, <2>2
<1>13. WindowKept'
  <2>1. in_flight_background' = Cardinality(InFlight')
    BY <1>2, <1>12
  <2>2. Cardinality(InFlight') <= Window
    BY <1>3, <1>12
  <2> QED BY <2>1, <2>2 DEF WindowKept
<1> QED
  BY <1>2, <1>3, <1>5, <1>7, <1>8, <1>13

-----------------------------------------------------------------------------
(* Preservation.                                                             *)

\* The initial states satisfy the invariant.
LEMMA InitIInv == Init => IInv
<1> SUFFICES ASSUME Init PROVE IInv
  OBVIOUS
<1>1. TypeOK
  BY DEF Init, TypeOK, NoEntry, Entry, LoadClass, Rank
<1>2. WindowKept
  <2>1. InFlight = {}
    BY DEF Init, InFlight, NoEntry
  <2> QED BY <2>1, FS_EmptySet, WindowAssumption DEF Init, WindowKept
<1>3. WatchedWhileQueued /\ Ordered(entry, next_order) /\ GateNeeds
  BY KindAssumption DEF Init, WatchedWhileQueued, Ordered, Queue, GateNeeds, NoEntry
<1> QED BY <1>1, <1>2, <1>3 DEF IInv

\* What every action that drains the current entries keeps.
LEMMA DrainEntry ==
  ASSUME IInv, NEW open \in BOOLEAN, drain(entry, open, in_flight_background)
  PROVE  /\ entry' \in [Download -> Entry]
         /\ in_flight_background' \in Nat
         /\ WindowKept'
         /\ Ordered(entry', next_order)
         /\ Queue(entry') \subseteq Queue(entry)
<1>1. /\ entry \in [Download -> Entry] /\ next_order \in Nat /\ Ordered(entry, next_order)
      /\ in_flight_background \in Nat
      /\ in_flight_background = Cardinality(BackgroundIn(entry))
      /\ in_flight_background <= Window
  BY DEF IInv, TypeOK, WindowKept, InFlight, BackgroundIn
<1> QED BY <1>1, DrainKeeps

\* Opening the gate keeps the invariant.
LEMMA DoneKeeps ==
  ASSUME IInv, done, UNCHANGED <<kit, next_order, scrollVars>>, input_seen' \in BOOLEAN
  PROVE  IInv'
<1>1. /\ entry' \in [Download -> Entry] /\ in_flight_background' \in Nat
      /\ WindowKept' /\ Ordered(entry', next_order)
      /\ Queue(entry') \subseteq Queue(entry)
  BY DrainEntry DEF done
<1>2. TypeOK'
  BY <1>1 DEF IInv, TypeOK, done, scrollVars
<1>3. WatchedWhileQueued'
  BY <1>1, KindAssumption DEF IInv, WatchedWhileQueued, Queue, scrollVars
<1>4. Ordered(entry, next_order)'
  BY <1>1
<1> QED BY <1>1, <1>2, <1>3, <1>4 DEF IInv, GateNeeds, done

\* Every step keeps the invariant, one action at a time.
LEMMA IInvStep == IInv /\ [Next]_vars => IInv'
<1> SUFFICES ASSUME IInv, [Next]_vars PROVE IInv'
  OBVIOUS
<1> USE DEF LoadClass, Rank
<1>0. /\ entry \in [Download -> Entry] /\ next_order \in Nat /\ Ordered(entry, next_order)
      /\ in_flight_background \in Nat
      /\ in_flight_background = Cardinality(BackgroundIn(entry))
      /\ in_flight_background <= Window
      /\ (gate = "open") \in BOOLEAN
  BY DEF IInv, TypeOK, WindowKept, InFlight, BackgroundIn
<1>1. ASSUME NEW d \in Download, NEW c \in LoadClass, load_slot(d, c) PROVE IInv'
  <2> DEFINE asked == [entry EXCEPT ![d] = [stage |-> "queued", cls |-> c,
                                            order |-> next_order, background |-> FALSE]]
  <2>1. asked \in [Download -> Entry]
    BY <1>0 DEF Entry
  <2>2. Ordered(asked, next_order + 1)
    BY <1>0 DEF Ordered, Queue, Entry
  <2>3. BackgroundIn(asked) = BackgroundIn(entry)
    BY <1>0, <1>1 DEF BackgroundIn, load_slot
  <2>4. drain(asked, gate = "open", in_flight_background) /\ next_order + 1 \in Nat
    BY <1>0, <1>1 DEF load_slot
  <2>5. Queue(asked) \subseteq Queue(entry) \cup {d}
    BY <1>0 DEF Queue
  <2> HIDE DEF asked
  <2>6. /\ entry' \in [Download -> Entry] /\ in_flight_background' \in Nat
        /\ WindowKept' /\ Ordered(entry', next_order + 1)
        /\ Queue(entry') \subseteq Queue(asked)
    BY <1>0, <2>1, <2>2, <2>3, <2>4, DrainKeeps
  <2>7. TypeOK'
    BY <1>0, <1>1, <2>6 DEF IInv, TypeOK, load_slot
  <2>8. WatchedWhileQueued'
    BY <1>1, <2>5, <2>6, KindAssumption DEF IInv, WatchedWhileQueued, Queue, load_slot
  <2>9. Ordered(entry, next_order)' /\ GateNeeds'
    BY <1>1, <2>6 DEF load_slot, IInv, GateNeeds
  <2> QED BY <2>6, <2>7, <2>8, <2>9 DEF IInv
<1>2. ASSUME NEW d \in Download, promote(d) PROVE IInv'
  <2> DEFINE lifted == [entry EXCEPT ![d].cls = "user"]
  <2>1. lifted \in [Download -> Entry]
    BY <1>0 DEF Entry
  <2>2. Ordered(lifted, next_order) /\ Queue(lifted) \subseteq Queue(entry)
    BY <1>0 DEF Ordered, Queue, Entry
  <2>3. BackgroundIn(lifted) = BackgroundIn(entry)
    BY <1>0 DEF BackgroundIn, Entry
  <2>4. drain(lifted, gate = "open", in_flight_background)
    BY <1>2 DEF promote
  <2> HIDE DEF lifted
  <2>5. /\ entry' \in [Download -> Entry] /\ in_flight_background' \in Nat
        /\ WindowKept' /\ Ordered(entry', next_order)
        /\ Queue(entry') \subseteq Queue(lifted)
    BY <1>0, <2>1, <2>2, <2>3, <2>4, DrainKeeps
  <2>6. TypeOK'
    BY <1>2, <2>5 DEF IInv, TypeOK, promote, gateVars, scrollVars
  <2>7. WatchedWhileQueued'
    BY <1>2, <2>2, <2>5, KindAssumption DEF IInv, WatchedWhileQueued, Queue, promote, scrollVars
  <2>8. Ordered(entry, next_order)' /\ GateNeeds'
    BY <1>2, <2>5 DEF promote, IInv, GateNeeds, gateVars
  <2> QED BY <2>5, <2>6, <2>7, <2>8 DEF IInv
<1>3. ASSUME NEW d \in Download, release(d) PROVE IInv'
  <2> DEFINE freed == [entry EXCEPT ![d] = NoEntry("released")]
             inFlight == in_flight_background - (IF entry[d].background THEN 1 ELSE 0)
  <2>1. freed \in [Download -> Entry]
    BY <1>0 DEF Entry, NoEntry
  <2>2. Ordered(freed, next_order) /\ Queue(freed) \subseteq Queue(entry)
    BY <1>0 DEF Ordered, Queue, Entry, NoEntry
  <2>3. inFlight \in Nat /\ inFlight = Cardinality(BackgroundIn(freed)) /\ inFlight <= Window
    <3>1. BackgroundIn(freed) = BackgroundIn(entry) \ {d}
      BY <1>0 DEF BackgroundIn, Entry, NoEntry
    <3>2. d \in BackgroundIn(entry) <=> entry[d].background
      BY <1>0, <1>3 DEF BackgroundIn, Entry, release
    <3>3. BackgroundIn(entry) \in SUBSET Download
      BY DEF BackgroundIn
    <3>4. IsFiniteSet(BackgroundIn(entry))
      BY <3>3, DownloadAssumption, FS_Subset
    <3>5. Cardinality(BackgroundIn(entry) \ {d})
            = IF d \in BackgroundIn(entry) THEN Cardinality(BackgroundIn(entry)) - 1
              ELSE Cardinality(BackgroundIn(entry))
      BY <3>4, FS_RemoveElement
    <3>6. IsFiniteSet(BackgroundIn(entry) \ {d})
      BY <3>4, FS_RemoveElement
    <3>7. Cardinality(BackgroundIn(entry) \ {d}) \in Nat
      BY <3>6, FS_CardinalityType
    <3> HIDE DEF freed, inFlight
    <3>8. CASE entry[d].background
      <4>1. inFlight = in_flight_background - 1
        BY <3>8 DEF inFlight
      <4> QED BY <1>0, <3>1, <3>2, <3>5, <3>7, <3>8, <4>1, WindowAssumption
    <3>9. CASE ~entry[d].background
      <4>1. inFlight = in_flight_background
        BY <1>0, <3>9 DEF inFlight
      <4> QED BY <1>0, <3>1, <3>2, <3>5, <3>9, <4>1
    <3> QED BY <3>8, <3>9
  <2>4. drain(freed, gate = "open", inFlight)
    BY <1>3 DEF release
  <2> HIDE DEF freed, inFlight
  <2>5. /\ entry' \in [Download -> Entry] /\ in_flight_background' \in Nat
        /\ WindowKept' /\ Ordered(entry', next_order)
        /\ Queue(entry') \subseteq Queue(freed)
    BY <1>0, <2>1, <2>2, <2>3, <2>4, DrainKeeps
  <2>6. TypeOK'
    BY <1>3, <2>5 DEF IInv, TypeOK, release, gateVars, scrollVars
  <2>7. WatchedWhileQueued'
    BY <1>3, <2>2, <2>5, KindAssumption DEF IInv, WatchedWhileQueued, Queue, release, scrollVars
  <2>8. Ordered(entry, next_order)' /\ GateNeeds'
    BY <1>3, <2>5 DEF release, IInv, GateNeeds, gateVars
  <2> QED BY <2>5, <2>6, <2>7, <2>8 DEF IInv
<1>4. ASSUME NEW waiting \in SUBSET Resource, painted(waiting) PROVE IInv'
  <2>1. CASE waiting = {} /\ done
    BY <1>4, <2>1, DoneKeeps DEF painted, IInv, TypeOK, scrollVars
  <2>2. CASE ~(waiting = {} /\ done)
    <3>1. /\ waiting # {} /\ gate' = "waiting"
          /\ pending' = waiting \X {"load", "error"} /\ left' = Cardinality(waiting)
          /\ UNCHANGED <<entry, in_flight_background, kit, next_order, input_seen, scrollVars>>
      BY <1>4, <2>2 DEF painted
    <3>2. left' \in Nat /\ left' >= 1
      <4>1. IsFiniteSet(waiting)
        BY ResourceAssumption, FS_Subset
      <4> QED BY <3>1, <4>1, FS_CardinalityType, FS_EmptySet
    <3>3. pending' \subseteq Resource \X {"load", "error"}
      BY <3>1
    <3>4. TypeOK'
      BY <3>1, <3>2, <3>3 DEF IInv, TypeOK, scrollVars
    <3> QED BY <3>1, <3>2, <3>4 DEF IInv, WindowKept, InFlight, WatchedWhileQueued,
                                    Ordered, Queue, GateNeeds, scrollVars
  <2> QED BY <2>1, <2>2
<1>5. ASSUME NEW event \in pending, one(event) PROVE IInv'
  <2>1. CASE left = 1 /\ done
    BY <1>5, <2>1, DoneKeeps DEF one, IInv, TypeOK, scrollVars
  <2>2. CASE ~(left = 1 /\ done)
    <3>1. /\ gate = "waiting" /\ left # 1 /\ left' = left - 1
          /\ pending' = pending \ {event}
          /\ UNCHANGED <<gate, entry, in_flight_background, kit, next_order, input_seen, scrollVars>>
      BY <1>5, <2>2 DEF one
    <3>2. left' \in Nat /\ left' >= 1
      BY <3>1 DEF IInv, TypeOK, GateNeeds
    <3>3. TypeOK'
      BY <3>1, <3>2 DEF IInv, TypeOK, scrollVars
    <3> QED BY <3>1, <3>2, <3>3 DEF IInv, WindowKept, InFlight, WatchedWhileQueued,
                                    Ordered, Queue, GateNeeds, scrollVars
  <2> QED BY <2>1, <2>2
<1>6. CASE cap
  BY <1>6, DoneKeeps DEF cap, IInv, TypeOK, scrollVars
<1>7. CASE on_first_input
  <2>1. CASE gate = "waiting" /\ done
    BY <1>7, <2>1, DoneKeeps DEF on_first_input, scrollVars
  <2>2. CASE ~(gate = "waiting" /\ done)
    BY <1>7, <2>2 DEF on_first_input, IInv, TypeOK, WindowKept, InFlight, WatchedWhileQueued,
                      Ordered, Queue, GateNeeds, scrollVars
  <2> QED BY <2>1, <2>2
<1>8. ASSUME NEW d \in Download, NEW c \in LoadClass, d \in Following,
             entry' = [entry EXCEPT ![d].cls = c], framed' \in BOOLEAN,
             UNCHANGED <<kit, next_order, in_flight_background, gateVars, scroll_watch>>
      PROVE  IInv'
  <2>1. entry' \in [Download -> Entry]
    BY <1>0, <1>8 DEF Entry
  <2>2. \A x \in Download : /\ entry'[x].stage = entry[x].stage
                            /\ entry'[x].order = entry[x].order
                            /\ entry'[x].background = entry[x].background
    BY <1>0, <1>8 DEF Entry
  <2>3. TypeOK'
    BY <1>8, <2>1 DEF IInv, TypeOK, gateVars
  <2>4. WindowKept'
    <3>1. InFlight' = InFlight
      BY <2>2 DEF InFlight
    <3> QED BY <1>8, <3>1 DEF IInv, WindowKept
  <2>5. WatchedWhileQueued' /\ Ordered(entry, next_order)' /\ GateNeeds'
    BY <1>8, <2>2, KindAssumption DEF IInv, WatchedWhileQueued, Ordered, Queue, GateNeeds, gateVars
  <2> QED BY <2>3, <2>4, <2>5 DEF IInv
<1>9. ASSUME NEW d \in Download, NEW c \in LoadClass, NEW scrolled \in BOOLEAN,
             moves(d, c, scrolled)
      PROVE  IInv'
  <2>1. framed' \in BOOLEAN
    BY <1>9 DEF moves, IInv, TypeOK
  <2> QED BY <1>8, <1>9, <2>1 DEF moves
<1>10. ASSUME NEW d \in Download, gesture(d) PROVE IInv'
  <2>1. framed' \in BOOLEAN
    BY <1>10 DEF gesture, scrollVars, IInv, TypeOK
  <2>2. "user" \in LoadClass
    OBVIOUS
  <2> QED BY <1>8, <1>10, <2>1, <2>2 DEF gesture, scrollVars
<1>11. CASE frame
  <2>1. /\ entry' \in [Download -> Entry] /\ in_flight_background' \in Nat
        /\ WindowKept' /\ Ordered(entry', next_order)
    BY <1>0, <1>11, DrainEntry DEF frame
  <2>2. TypeOK'
    BY <1>11, <2>1 DEF frame, IInv, TypeOK, gateVars
  <2>3. WatchedWhileQueued'
    BY <1>11, KindAssumption DEF frame, WatchedWhileQueued, Queue
  <2>4. Ordered(entry, next_order)' /\ GateNeeds'
    BY <1>11, <2>1 DEF frame, IInv, GateNeeds, gateVars
  <2> QED BY <2>1, <2>2, <2>3, <2>4 DEF IInv
<1>12. CASE UNCHANGED vars
  BY <1>12 DEF vars, gateVars, scrollVars, IInv, TypeOK, WindowKept, InFlight,
               WatchedWhileQueued, Ordered, Queue, GateNeeds
<1> QED
  BY <1>1, <1>2, <1>3, <1>4, <1>5, <1>6, <1>7, <1>9, <1>10, <1>11, <1>12 DEF Next

-----------------------------------------------------------------------------
(* Results.                                                                  *)

\* Every reachable state satisfies the inductive invariant.
THEOREM InvariantHolds == Spec => []IInv
  BY InitIInv, IInvStep, PTL DEF Spec

\* The scheduler's state keeps its types.
THEOREM TypeCorrect == Spec => []TypeOK
<1>1. IInv => TypeOK
  BY DEF IInv
<1> QED BY InvariantHolds, <1>1, PTL

\* However downloads are queued, promoted, released or reclassed, and whatever
\* the window's size, at most Window background downloads are in flight and the
\* counter is their number (`start`, `drain`, and the release closure).
THEOREM WindowIsKept == Spec => []WindowKept
<1>1. IInv => WindowKept
  BY DEF IInv
<1> QED BY InvariantHolds, <1>1, PTL

\* The scroll listener never goes while a download whose class follows the
\* viewport is queued (`watch_scroll`).
THEOREM ScrollIsWatched == Spec => []WatchedWhileQueued
<1>1. IInv => WatchedWhileQueued
  BY DEF IInv
<1> QED BY InvariantHolds, <1>1, PTL

-----------------------------------------------------------------------------
(* Priority.                                                                 *)

\* What a drain starts, it starts in order: no download sorted before a started
\* one stays behind, unless the gate holds it.
LEMMA DrainInOrder ==
  ASSUME NEW entries \in [Download -> Entry], NEW next \in Nat, Ordered(entries, next),
         NEW open \in BOOLEAN, NEW inFlight \in Nat,
         NEW d \in Started(entries, open, inFlight),
         NEW e \in Queue(entries) \ Started(entries, open, inFlight),
         Before(entries, e, d)
  PROVE  ~open /\ waits_for_critical(e, entries[e].cls)
<1>1. d \in Download /\ e \in Download /\ d \in Queue(entries) /\ d # e
  BY DEF Started, Ready, ReadyBackground, Queue
<1>2. entries[d].order # entries[e].order
  BY <1>1 DEF Ordered
<1>3. /\ entries[d].cls \in LoadClass /\ entries[e].cls \in LoadClass
      /\ Rank[entries[e].cls] <= Rank[entries[d].cls]
  BY <1>1 DEF Before, Entry, LoadClass, Rank
<1>4. SUFFICES ASSUME e \in Ready(entries, open) PROVE FALSE
  BY DEF Ready
<1>5. e \in ReadyBackground(entries, open)
  BY <1>4 DEF Started
<1>6. d \in ReadyBackground(entries, open)
  <2>1. entries[d].cls \in Background
    BY <1>3, <1>5 DEF ReadyBackground, Background, LoadClass, Rank
  <2> QED BY <2>1 DEF Started, ReadyBackground
<1>7. AheadOf(entries, open, e) \in SUBSET AheadOf(entries, open, d)
  <2>1. \A x \in Download : Before(entries, x, e) => Before(entries, x, d)
    BY <1>1, <1>2, BeforeOrders
  <2> QED BY <2>1 DEF AheadOf, ReadyBackground, Ready, Queue
<1>8. /\ IsFiniteSet(AheadOf(entries, open, d))
      /\ Cardinality(AheadOf(entries, open, d)) \in Nat
      /\ Cardinality(AheadOf(entries, open, e)) \in Nat
  <2>1. AheadOf(entries, open, d) \in SUBSET Download /\ AheadOf(entries, open, e) \in SUBSET Download
    BY DEF AheadOf, ReadyBackground, Ready, Queue
  <2> QED BY <2>1, DownloadAssumption, FS_Subset, FS_CardinalityType
<1>9. Cardinality(AheadOf(entries, open, e)) <= Cardinality(AheadOf(entries, open, d))
  BY <1>7, <1>8, FS_Subset
<1>10. inFlight + Cardinality(AheadOf(entries, open, d)) < Window
  BY <1>6 DEF Started
<1>11. inFlight + Cardinality(AheadOf(entries, open, e)) < Window
  BY <1>8, <1>9, <1>10, WindowAssumption
<1> QED BY <1>5, <1>11 DEF Started

\* d starts in this step before e, which is sorted before it and not at the gate.
Overtakes(d, e) ==
  /\ d \in Queue(entry) /\ entry'[d].stage = "running"
  /\ e \in Queue(entry')
  /\ Before(entry', e, d)
  /\ ~(gate' # "open" /\ waits_for_critical(e, entry'[e].cls))

\* A step that drains entries whose queue holds d overtakes nothing with d.
LEMMA DrainOvertakesNothing ==
  ASSUME NEW entries \in [Download -> Entry], NEW next \in Nat, Ordered(entries, next),
         NEW open \in BOOLEAN, NEW inFlight \in Nat, drain(entries, open, inFlight),
         NEW d \in Download, NEW e \in Download, entries[d].stage = "queued",
         gate' = "open" => open
  PROVE  ~Overtakes(d, e)
<1> SUFFICES ASSUME Overtakes(d, e) PROVE FALSE
  OBVIOUS
<1> DEFINE S == Started(entries, open, inFlight)
<1>1. S \subseteq Queue(entries)
  BY DEF Started, Ready, ReadyBackground
<1>2. entry' = [x \in Download |-> IF x \in S THEN start(entries[x]) ELSE entries[x]]
  BY DEF drain
<1> HIDE DEF S
<1>3. d \in S
  BY <1>2 DEF Overtakes
<1>4. /\ \A x \in S : /\ entry'[x].stage = "running"
                      /\ entry'[x].cls = entries[x].cls
                      /\ entry'[x].order = entries[x].order
      /\ \A x \in Download \ S : entry'[x] = entries[x]
  <2>1. S \subseteq Download
    BY <1>1 DEF Queue
  <2> QED BY <1>2, <2>1 DEF start
<1>5. e \in Queue(entries) \ S /\ entry'[e] = entries[e]
  BY <1>4 DEF Overtakes, Queue
<1>6. Before(entries, e, d)
  BY <1>3, <1>4, <1>5 DEF Overtakes, Before
<1>7. ~open /\ waits_for_critical(e, entries[e].cls)
  BY <1>3, <1>5, <1>6, DrainInOrder DEF S
<1> QED
  BY <1>5, <1>7 DEF Overtakes

\* The slots taken once a download has given its own back are within the window.
LEMMA ReleaseRoom ==
  ASSUME IInv, NEW d \in Download, release(d)
  PROVE  LET inFlight == in_flight_background - (IF entry[d].background THEN 1 ELSE 0)
         IN  inFlight \in Nat /\ inFlight <= Window
<1>1. /\ in_flight_background \in Nat /\ in_flight_background <= Window
      /\ in_flight_background = Cardinality(InFlight)
  BY DEF IInv, TypeOK, WindowKept
<1>2. CASE entry[d].background
  <2>1. d \in InFlight
    BY <1>2 DEF InFlight, release
  <2>2. InFlight \in SUBSET Download
    BY DEF InFlight
  <2>3. IsFiniteSet(InFlight)
    BY <2>2, DownloadAssumption, FS_Subset
  <2>4. in_flight_background # 0
    BY <1>1, <2>1, <2>3, FS_EmptySet
  <2> QED BY <1>1, <1>2, <2>4, WindowAssumption
<1>3. CASE ~entry[d].background
  BY <1>1, <1>3
<1> QED BY <1>2, <1>3

\* No step overtakes: each action that starts a download drains the whole queue.
LEMMA StepOvertakesNothing ==
  ASSUME IInv, [Next]_vars, NEW d \in Download, NEW e \in Download
  PROVE  ~Overtakes(d, e)
<1> USE DEF LoadClass, Rank
<1>0. /\ entry \in [Download -> Entry] /\ next_order \in Nat /\ Ordered(entry, next_order)
      /\ in_flight_background \in Nat
      /\ (gate = "open") \in BOOLEAN
  BY DEF IInv, TypeOK
<1>1. SUFFICES ASSUME entry[d].stage = "queued" PROVE ~Overtakes(d, e)
  BY DEF Overtakes, Queue
<1>2. ASSUME NEW open \in BOOLEAN, drain(entry, open, in_flight_background), gate' = "open" => open
      PROVE  ~Overtakes(d, e)
  BY <1>0, <1>1, <1>2, DrainOvertakesNothing
<1>3. CASE done
  BY <1>2, <1>3 DEF done
<1>4. ASSUME NEW x \in Download, NEW c \in LoadClass, load_slot(x, c) PROVE ~Overtakes(d, e)
  <2> DEFINE asked == [entry EXCEPT ![x] = [stage |-> "queued", cls |-> c,
                                            order |-> next_order, background |-> FALSE]]
  <2>1. asked \in [Download -> Entry] /\ asked[d].stage = "queued"
    BY <1>0, <1>1 DEF Entry
  <2>2. Ordered(asked, next_order + 1) /\ next_order + 1 \in Nat
    BY <1>0 DEF Ordered, Queue, Entry
  <2>3. drain(asked, gate = "open", in_flight_background) /\ (gate' = "open" => gate = "open")
    BY <1>4 DEF load_slot
  <2> HIDE DEF asked
  <2> QED BY <1>0, <2>1, <2>2, <2>3, DrainOvertakesNothing
<1>5. ASSUME NEW x \in Download, promote(x) PROVE ~Overtakes(d, e)
  <2> DEFINE lifted == [entry EXCEPT ![x].cls = "user"]
  <2>1. lifted \in [Download -> Entry] /\ lifted[d].stage = "queued"
    BY <1>0, <1>1 DEF Entry
  <2>2. Ordered(lifted, next_order)
    BY <1>0 DEF Ordered, Queue, Entry
  <2>3. drain(lifted, gate = "open", in_flight_background) /\ (gate' = "open" => gate = "open")
    BY <1>5 DEF promote, gateVars
  <2> HIDE DEF lifted
  <2> QED BY <1>0, <2>1, <2>2, <2>3, DrainOvertakesNothing
<1>6. ASSUME NEW x \in Download, release(x) PROVE ~Overtakes(d, e)
  <2> DEFINE freed == [entry EXCEPT ![x] = NoEntry("released")]
             inFlight == in_flight_background - (IF entry[x].background THEN 1 ELSE 0)
  <2>1. freed \in [Download -> Entry] /\ freed[d].stage = "queued"
    BY <1>0, <1>1, <1>6 DEF Entry, NoEntry, release
  <2>2. Ordered(freed, next_order)
    BY <1>0 DEF Ordered, Queue, Entry, NoEntry
  <2>3. drain(freed, gate = "open", inFlight) /\ (gate' = "open" => gate = "open")
    BY <1>6 DEF release, gateVars
  <2>4. inFlight \in Nat
    BY <1>6, ReleaseRoom
  <2> HIDE DEF freed, inFlight
  <2> QED BY <1>0, <2>1, <2>2, <2>3, <2>4, DrainOvertakesNothing
<1>7. CASE frame
  BY <1>0, <1>2, <1>7 DEF frame, gateVars
<1>8. ASSUME NEW x \in Download, NEW c \in LoadClass, entry' = [entry EXCEPT ![x].cls = c]
      PROVE  ~Overtakes(d, e)
  BY <1>0, <1>1, <1>8 DEF Overtakes, Entry
<1>9. CASE UNCHANGED entry
  BY <1>1, <1>9 DEF Overtakes
<1>10. ASSUME NEW x \in Download, NEW c \in LoadClass, NEW scrolled \in BOOLEAN,
              moves(x, c, scrolled)
       PROVE  ~Overtakes(d, e)
  BY <1>8, <1>10 DEF moves
<1>11. ASSUME NEW x \in Download, gesture(x) PROVE ~Overtakes(d, e)
  BY <1>8, <1>11 DEF gesture
<1>12. ASSUME NEW waiting \in SUBSET Resource, painted(waiting) PROVE ~Overtakes(d, e)
  BY <1>3, <1>9, <1>12 DEF painted
<1>13. ASSUME NEW event \in pending, one(event) PROVE ~Overtakes(d, e)
  BY <1>3, <1>9, <1>13 DEF one
<1>14. CASE cap \/ on_first_input
  BY <1>3, <1>9, <1>14 DEF cap, on_first_input
<1> QED
  BY <1>4, <1>5, <1>6, <1>7, <1>9, <1>10, <1>11, <1>12, <1>13, <1>14 DEF Next, vars

\* Whatever the downloads and their classes do, a download never starts ahead of
\* one that is sorted before it, unless that one is held at the gate (`drain`).
THEOREM NothingOvertakes == Spec => NoOvertaking
<1>1. IInv /\ [Next]_vars =>
        [\A d, e \in Download :
           /\ d \in Queue(entry) /\ entry'[d].stage = "running"
           /\ e \in Queue(entry')
           /\ Before(entry', e, d)
           => gate' # "open" /\ waits_for_critical(e, entry'[e].cls)]_vars
  BY StepOvertakesNothing DEF Overtakes
<1> QED BY InvariantHolds, <1>1, PTL DEF Spec, NoOvertaking

-----------------------------------------------------------------------------
(* The window is used.                                                       *)

\* Of the ready background downloads a drain leaves behind, one is first.
LEMMA FirstLeft ==
  ASSUME NEW entries \in [Download -> Entry], NEW next \in Nat, Ordered(entries, next),
         NEW open \in BOOLEAN, NEW L \in SUBSET ReadyBackground(entries, open), L # {}
  PROVE  \E d \in L : \A e \in L : ~Before(entries, e, d)
<1> DEFINE count(d) == Cardinality(AheadOf(entries, open, d))
           C == {count(d) : d \in L}
<1>1. /\ \A d \in L : count(d) \in Nat
      /\ \A d, e \in L : Before(entries, d, e) => count(d) < count(e)
  BY AheadGrows
<1> HIDE DEF count
<1>2. C \subseteq Nat /\ C # {}
  BY <1>1
<1>3. PICK n \in C : \A m \in C : <<m, n>> \notin OpToRel(<, Nat)
  <2> HIDE DEF C
  <2> QED BY <1>2, NatLessThanWellFounded, WFMin
<1>4. PICK d \in L : n = count(d)
  BY <1>3
<1>5. \A e \in L : ~(count(e) < count(d))
  BY <1>1, <1>3, <1>4 DEF OpToRel
<1> QED
  BY <1>1, <1>5

\* A drain leaves a ready background download behind only with a full window.
LEMMA WindowFills ==
  ASSUME NEW entries \in [Download -> Entry], NEW next \in Nat, Ordered(entries, next),
         NEW open \in BOOLEAN, NEW inFlight \in Nat, inFlight <= Window,
         ReadyBackground(entries, open) \ Started(entries, open, inFlight) # {}
  PROVE  inFlight + Cardinality(StartedBackground(entries, open, inFlight)) = Window
<1> DEFINE L == ReadyBackground(entries, open) \ Started(entries, open, inFlight)
           B == StartedBackground(entries, open, inFlight)
<1>1. PICK d \in L : \A e \in L : ~Before(entries, e, d)
  BY FirstLeft
<1>2. AheadOf(entries, open, d) \in SUBSET B
  BY <1>1 DEF AheadOf, StartedBackground, ReadyBackground
<1>3. IsFiniteSet(B) /\ Cardinality(B) \in Nat /\ inFlight + Cardinality(B) <= Window
  BY RoomForAll
<1>4. Cardinality(AheadOf(entries, open, d)) \in Nat
  BY AheadGrows
<1>5. ~(inFlight + Cardinality(AheadOf(entries, open, d)) < Window)
  BY DEF Started
<1> HIDE DEF B, L
<1>6. Cardinality(AheadOf(entries, open, d)) <= Cardinality(B)
  BY <1>2, <1>3, FS_Subset
<1> QED
  BY <1>3, <1>4, <1>5, <1>6, WindowAssumption DEF B

\* Why a download waits: for the page's critical resources, which have been asked
\* about, or, a background one, for a slot while all are taken.
WaitsForCause(d) ==
  \/ gate \in {"painting", "waiting"} /\ waits_for_critical(d, entry[d].cls)
  \/ entry[d].cls \in Background /\ in_flight_background = Window

\* Every queued download whose class is its own waits for a cause.  (One whose class
\* follows the viewport may have moved since the queue was last looked at.)
NothingIdles == \A d \in Queue(entry) \ Following : WaitsForCause(d)

\* Who needs the gate has made it ask.
GateAsked == \A d \in Queue(entry) \ Following :
  waits_for_critical(d, entry[d].cls) => gate # "closed"

Busy == NothingIdles /\ GateAsked

\* A step that drains leaves no download without a cause.
LEMMA DrainUses ==
  ASSUME NEW entries \in [Download -> Entry], NEW next \in Nat, Ordered(entries, next),
         NEW open \in BOOLEAN, NEW inFlight \in Nat, inFlight <= Window,
         drain(entries, open, inFlight),
         UNCHANGED kit, gate' \in {"closed", "painting", "waiting", "open"},
         gate' = "open" => open,
         \A d \in Queue(entries) \ Following :
           waits_for_critical(d, entries[d].cls) => gate' # "closed"
  PROVE  Busy'
<1> DEFINE S == Started(entries, open, inFlight)
           B == StartedBackground(entries, open, inFlight)
<1>1. S \subseteq Queue(entries)
  BY DEF Started, Ready, ReadyBackground
<1>2. /\ entry' = [d \in Download |-> IF d \in S THEN start(entries[d]) ELSE entries[d]]
      /\ in_flight_background' = inFlight + Cardinality(B)
  BY DEF drain, StartedBackground
<1>3. \A d \in Queue(entries) \ S :
        \/ ~open /\ waits_for_critical(d, entries[d].cls)
        \/ d \in ReadyBackground(entries, open)
  BY DEF Started, Ready
<1>4. ReadyBackground(entries, open) \ S # {} => in_flight_background' = Window
  BY <1>2, WindowFills
<1> HIDE DEF S, B
<1>5. \A d \in Queue(entry') : d \in Queue(entries) \ S /\ entry'[d] = entries[d]
  BY <1>1, <1>2 DEF start, Queue
<1>6. Queue(entry') \subseteq Queue(entries) \ S /\ Queue(entry)' = Queue(entry')
  BY <1>5 DEF Queue
<1>7. SUFFICES ASSUME NEW d \in Queue(entries) \ S, d \notin Following, entry'[d] = entries[d]
               PROVE  (WaitsForCause(d) /\ (waits_for_critical(d, entry[d].cls) => gate # "closed"))'
  BY <1>5, <1>6 DEF Busy, NothingIdles, GateAsked
<1>8. waits_for_critical(d, entry[d].cls)' <=> waits_for_critical(d, entries[d].cls)
  BY <1>7 DEF waits_for_critical
<1>9. CASE ~open /\ waits_for_critical(d, entries[d].cls)
  BY <1>7, <1>8, <1>9 DEF WaitsForCause
<1>10. CASE d \in ReadyBackground(entries, open)
  BY <1>4, <1>7, <1>8, <1>10 DEF WaitsForCause, ReadyBackground
<1> QED
  BY <1>3, <1>7, <1>9, <1>10

\* Every step but a change of a followed class drains what it frees.
LEMMA StepUses ==
  ASSUME IInv, Busy, [Next]_vars
  PROVE  Busy'
<1> USE DEF LoadClass, Rank
<1>0. /\ entry \in [Download -> Entry] /\ next_order \in Nat /\ Ordered(entry, next_order)
      /\ in_flight_background \in Nat /\ in_flight_background <= Window
      /\ (gate = "open") \in BOOLEAN /\ gate \in {"closed", "painting", "waiting", "open"}
  BY DEF IInv, TypeOK, WindowKept
<1>b. \A d \in Queue(entry) \ Following : waits_for_critical(d, entry[d].cls) => gate # "closed"
  BY DEF Busy, GateAsked
<1>1. ASSUME NEW d \in Download, NEW c \in LoadClass, load_slot(d, c) PROVE Busy'
  <2> DEFINE asked == [entry EXCEPT ![d] = [stage |-> "queued", cls |-> c,
                                            order |-> next_order, background |-> FALSE]]
  <2>1. asked \in [Download -> Entry]
    BY <1>0 DEF Entry
  <2>2. Ordered(asked, next_order + 1) /\ next_order + 1 \in Nat
    BY <1>0 DEF Ordered, Queue, Entry
  <2>3. drain(asked, gate = "open", in_flight_background)
    BY <1>1 DEF load_slot
  <2>4. /\ UNCHANGED kit
        /\ gate' = IF gate = "closed" /\ waits_for_critical(d, c) THEN "painting" ELSE gate
    BY <1>1 DEF load_slot
  <2>5. \A x \in Queue(asked) \ Following : waits_for_critical(x, asked[x].cls) => gate' # "closed"
    <3> SUFFICES ASSUME NEW x \in Queue(asked) \ Following, waits_for_critical(x, asked[x].cls),
                        gate' = "closed"
                 PROVE  FALSE
      OBVIOUS
    <3>1. CASE x = d
      BY <1>0, <2>4, <3>1
    <3>2. CASE x # d
      <4>1. asked[x] = entry[x] /\ x \in Queue(entry) \ Following
        BY <1>0, <3>2 DEF Queue
      <4> QED BY <1>b, <2>4, <4>1
    <3> QED BY <3>1, <3>2
  <2> HIDE DEF asked
  <2> QED BY <1>0, <2>1, <2>2, <2>3, <2>4, <2>5, DrainUses
<1>2. ASSUME NEW d \in Download, promote(d) PROVE Busy'
  <2> DEFINE lifted == [entry EXCEPT ![d].cls = "user"]
  <2>1. lifted \in [Download -> Entry]
    BY <1>0 DEF Entry
  <2>2. Ordered(lifted, next_order)
    BY <1>0 DEF Ordered, Queue, Entry
  <2>3. drain(lifted, gate = "open", in_flight_background) /\ UNCHANGED <<kit, gate>>
    BY <1>2 DEF promote, gateVars
  <2>4. \A x \in Queue(lifted) \ Following : waits_for_critical(x, lifted[x].cls) => gate' # "closed"
    BY <1>0, <1>b, <2>3 DEF Queue, Entry, waits_for_critical
  <2> HIDE DEF lifted
  <2> QED BY <1>0, <2>1, <2>2, <2>3, <2>4, DrainUses
<1>3. ASSUME NEW d \in Download, release(d) PROVE Busy'
  <2> DEFINE freed == [entry EXCEPT ![d] = NoEntry("released")]
             inFlight == in_flight_background - (IF entry[d].background THEN 1 ELSE 0)
  <2>1. freed \in [Download -> Entry]
    BY <1>0 DEF Entry, NoEntry
  <2>2. Ordered(freed, next_order)
    BY <1>0 DEF Ordered, Queue, Entry, NoEntry
  <2>3. drain(freed, gate = "open", inFlight) /\ UNCHANGED <<kit, gate>>
    BY <1>3 DEF release, gateVars
  <2>4. inFlight \in Nat /\ inFlight <= Window
    BY <1>3, ReleaseRoom
  <2>5. \A x \in Queue(freed) \ Following : waits_for_critical(x, freed[x].cls) => gate' # "closed"
    <3>1. \A x \in Queue(freed) : x \in Queue(entry) /\ freed[x] = entry[x]
      BY <1>0 DEF Queue, NoEntry
    <3> QED BY <1>b, <2>3, <3>1
  <2> HIDE DEF freed, inFlight
  <2> QED BY <1>0, <2>1, <2>2, <2>3, <2>4, <2>5, DrainUses
<1>4. ASSUME done, UNCHANGED kit PROVE Busy'
  <2>1. drain(entry, TRUE, in_flight_background) /\ gate' = "open"
    BY <1>4 DEF done
  <2> QED BY <1>0, <1>4, <2>1, DrainUses
<1>5. ASSUME UNCHANGED <<kit, entry, in_flight_background>>,
             gate' = gate \/ gate' = "waiting"
      PROVE  Busy'
  <2>1. ASSUME NEW d \in Queue(entry) \ Following
        PROVE  /\ WaitsForCause(d)'
               /\ (waits_for_critical(d, entry[d].cls) => gate # "closed")'
    BY <1>5, <2>1 DEF Busy, NothingIdles, GateAsked, WaitsForCause, waits_for_critical
  <2>2. Queue(entry)' = Queue(entry)
    BY <1>5 DEF Queue
  <2> QED BY <2>1, <2>2 DEF Busy, NothingIdles, GateAsked
<1>6. ASSUME NEW d \in Download \cap Following, NEW c \in LoadClass,
             entry' = [entry EXCEPT ![d].cls = c],
             UNCHANGED <<kit, gate, in_flight_background>>
      PROVE  Busy'
  <2>1. \A x \in Download \ Following : entry'[x] = entry[x]
    BY <1>0, <1>6
  <2>2. ASSUME NEW x \in Queue(entry) \ Following
        PROVE  /\ WaitsForCause(x)'
               /\ (waits_for_critical(x, entry[x].cls) => gate # "closed")'
    <3>1. entry'[x] = entry[x]
      BY <2>1 DEF Queue
    <3> QED
      BY <1>6, <3>1 DEF Busy, NothingIdles, GateAsked, WaitsForCause, waits_for_critical
  <2>3. Queue(entry)' \ Following \subseteq Queue(entry) \ Following
    BY <2>1 DEF Queue
  <2> QED BY <2>2, <2>3 DEF Busy, NothingIdles, GateAsked
<1>7. ASSUME NEW waiting \in SUBSET Resource, painted(waiting) PROVE Busy'
  BY <1>4, <1>5, <1>7 DEF painted
<1>8. ASSUME NEW event \in pending, one(event) PROVE Busy'
  BY <1>4, <1>5, <1>8 DEF one
<1>9. CASE cap \/ on_first_input
  BY <1>4, <1>5, <1>9 DEF cap, on_first_input
<1>10. ASSUME NEW d \in Download, NEW c \in LoadClass, NEW scrolled \in BOOLEAN,
              moves(d, c, scrolled)
       PROVE  Busy'
  BY <1>6, <1>10 DEF moves, gateVars
<1>11. ASSUME NEW d \in Download, gesture(d) PROVE Busy'
  BY <1>6, <1>11 DEF gesture, gateVars
<1>12. CASE frame
  <2>1. drain(entry, gate = "open", in_flight_background) /\ UNCHANGED <<kit, gate>>
    BY <1>12 DEF frame, gateVars
  <2> QED BY <1>0, <1>b, <2>1, DrainUses
<1>13. CASE UNCHANGED vars
  BY <1>5, <1>13 DEF vars, gateVars
<1> QED
  BY <1>1, <1>2, <1>3, <1>7, <1>8, <1>9, <1>10, <1>11, <1>12, <1>13 DEF Next

\* No capacity is left unused and no wake-up lost: whatever is queued, promoted,
\* released or held at the gate, a download whose class is its own is in the queue only
\* while its gate is being waited for or the whole window is taken (`drain`, and
\* everybody who calls it).
THEOREM WindowIsUsed == Spec => []NothingIdles
<1>1. Init => Busy
  BY DEF Init, Busy, NothingIdles, GateAsked, Queue, NoEntry
<1>2. IInv /\ Busy /\ [Next]_vars => Busy'
  BY StepUses
<1>3. Busy => NothingIdles
  BY DEF Busy
<1> QED BY <1>1, <1>2, <1>3, InvariantHolds, PTL DEF Spec
================================================================================
