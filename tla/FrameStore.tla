------------------------------ MODULE FrameStore ------------------------------
(* The frame store (runtime/frame-store.ts) at one address, with the regions *)
(* bound there (core.ts) and the three channels that write it: a region's    *)
(* own fetch (`ensure`), a batch stream (frame-nav.ts `streamFrames`) and a  *)
(* command's answer (transport.ts).  Addresses do not interact: each has its *)
(* own entry.  A frame's HTML is the request it answers.                     *)
EXTENDS Naturals, FiniteSets

CONSTANTS
  Region,   \* the region elements with this address (twins)
  Fetch,    \* fetches ensure may start
  Batch,    \* batch streams whose endpoints include the address
  Command,  \* commands that answer with this region's HTML
  SlowerThanEviction, \* may a request be under way longer than EVICT_TTL?
  MaxWaiters, \* bound: ensure() callers counted on one fetch
  Joining,  \* stands for the promise of `join_batch`
  None

Request == Fetch \cup Batch \cup Command

ASSUME RequestAssumption ==
  /\ Fetch \cap Batch = {} /\ Fetch \cap Command = {} /\ Batch \cap Command = {}
  /\ None \notin Request /\ Joining \notin Request /\ Joining # None
ASSUME SlowAssumption == SlowerThanEviction \in BOOLEAN
ASSUME WaitersAssumption == MaxWaiters \in Nat \ {0}

VARIABLES
  entry,    \* the store's entry for the address, or None (`entries`)
  waiters,  \* waiters[q]: the ensure() callers counted on q
  request,  \* request[q]: where request q is
  ticket,   \* ticket[f]: the ticket fetch f took
  bound,    \* the regions subscribed to the address (connected)
  awaits,   \* awaits[r]: the request whose promise r's `#fetch_html` awaits, or
            \* Joining: the end of the task, when a batch may leave
  painted,  \* painted[r]: the frame r applied last
  began,    \* history: began[q], the order requests left in
  clock

vars == <<entry, waiters, request, ticket, bound, awaits, painted, began, clock>>

Entry == [v : Nat, html : Request \cup {None}, seq : Nat,
          inflight : Fetch \cup Batch \cup {None}, evict : BOOLEAN]

ASSUME EntryAssumption == None \notin Entry

Init ==
  /\ entry = None
  /\ waiters = [q \in Request |-> 0]
  /\ request = [q \in Request |-> "idle"]
  /\ ticket = [q \in Request |-> 0]
  /\ bound = {}
  /\ awaits = [r \in Region |-> None]
  /\ painted = [r \in Region |-> None]
  /\ began = [q \in Request |-> 0]
  /\ clock = 0

\* `entry(a)`: the address's entry, created when there is none.
entryOf == IF entry # None THEN entry
           ELSE [v |-> 0, html |-> None, seq |-> 0, inflight |-> None, evict |-> FALSE]

\* The entry with its eviction timer cleared (`clearTimeout(e.evict)`).
unarmed == [entryOf EXCEPT !.evict = FALSE]

\* `schedule_evict`: arm the timer of an entry nobody is bound to or fetches for.
schedule_evict(e, subscribers) ==
  [e EXCEPT !.evict = @ \/ (subscribers = {} /\ e.inflight = None)]

-----------------------------------------------------------------------------
(* write.                                                                    *)

\* Mutant of Newer: a frame is dropped only when its own version is applied.
NewerOrOther(e, v) == v # e.v

\* Only a strictly newer frame is applied.
Newer(e, v) == v > e.v

\* A pending reservation is fulfilled by the frame that lands.
HeldBy(e) == IF e.inflight \in Batch THEN e.inflight ELSE None

\* Does the awaiter of p resume as q's frame is written?  A fetch answers its own
\* awaiters, stale or not; a reservation's joiners resume when a frame lands in it.
Resumes(e, q, v, p) == \/ p = q /\ q \in Fetch
                       \/ Newer(e, v) /\ p # None /\ p = HeldBy(e)

\* `write({ a, v, html })` by request q, whose own awaiters resume with it.
write(e, q, v) ==
  LET applied == [e EXCEPT !.v = v, !.html = q, !.seq = IF v > @ THEN v ELSE @,
                           !.inflight = IF @ \in Batch THEN None ELSE @]
  IN /\ entry' = IF Newer(e, v) THEN schedule_evict(applied, bound) ELSE e
     /\ awaits' = [r \in Region |->
                     IF Resumes(e, q, v, awaits[r])
                     THEN None ELSE awaits[r]]
     /\ painted' = [r \in Region |-> IF Newer(e, v) /\ r \in bound THEN q ELSE painted[r]]

-----------------------------------------------------------------------------
(* Regions and fetches.                                                      *)

\* `ensure` starts fetch f on entry e: a fresh ticket, and the in-flight slot.
start(e, f) ==
  /\ request[f] = "idle"
  /\ request' = [request EXCEPT ![f] = "flying"]
  /\ ticket' = [ticket EXCEPT ![f] = e.seq + 1]
  /\ waiters' = [waiters EXCEPT ![f] = 1]
  /\ entry' = [e EXCEPT !.seq = @ + 1, !.inflight = f]
  /\ began' = [began EXCEPT ![f] = clock + 1]
  /\ clock' = clock + 1

\* `ensure` joins what is in flight on entry e.
join(e) ==
  /\ waiters[e.inflight] < MaxWaiters
  /\ waiters' = [waiters EXCEPT ![e.inflight] = @ + 1]
  /\ entry' = e
  /\ UNCHANGED <<request, ticket, began, clock>>

\* `ensure(a, fetcher)` by region r on entry e: answered with what is applied, or
\* awaiting what is in flight, or a fetch of its own.
ensure(r, e, f) ==
  \/ /\ e.html # None
     /\ entry' = e
     /\ awaits' = [awaits EXCEPT ![r] = None]
     /\ UNCHANGED <<waiters, request, ticket, began, clock>>
  \/ /\ e.html = None /\ e.inflight # None /\ join(e)
     /\ awaits' = [awaits EXCEPT ![r] = e.inflight]
  \/ /\ e.html = None /\ e.inflight = None /\ start(e, f)
     /\ awaits' = [awaits EXCEPT ![r] = f]

\* `#fetch_html` of region r: `ensure`, at once or after `join_batch`.
fetch_html(r, e, f) ==
  \/ ensure(r, e, f)
  \/ /\ entry' = e
     /\ awaits' = [awaits EXCEPT ![r] = Joining]
     /\ UNCHANGED <<waiters, request, ticket, began, clock>>

\* The frame region r has applied once it is subscribed to entry e.
Replayed(r, e) == IF e.html # None THEN e.html ELSE painted[r]

\* Mutant of connect: subscribing does not replay what is applied.
connect_without_replay(r, f) ==
  LET e == unarmed
  IN /\ r \notin bound
     /\ bound' = bound \cup {r}
     /\ UNCHANGED painted
     /\ \/ /\ awaits[r] = None /\ painted[r] = None /\ e.html = None
           /\ fetch_html(r, e, f)
        \/ /\ ~(awaits[r] = None /\ painted[r] = None /\ e.html = None)
           /\ entry' = e
           /\ UNCHANGED <<waiters, request, ticket, awaits, began, clock>>

\* A region connects and its schedule fires: `subscribe`, which replays what is
\* applied, then `#fetch_html`, unless it is done or still fetching.
connect(r, f) ==
  LET e == unarmed
  IN /\ r \notin bound
     /\ bound' = bound \cup {r}
     /\ painted' = [painted EXCEPT ![r] = Replayed(r, e)]
     /\ \/ /\ awaits[r] = None /\ Replayed(r, e) = None
           /\ fetch_html(r, e, f)
        \/ /\ awaits[r] # None \/ Replayed(r, e) # None
           /\ entry' = e
           /\ UNCHANGED <<waiters, request, ticket, awaits, began, clock>>

\* The task is over: region r, which may have left since, asks the store.
joined(r, f) ==
  /\ awaits[r] = Joining
  /\ ensure(r, entryOf, f)
  /\ UNCHANGED <<bound, painted>>

\* After a failure, a region with nothing applied asks again.
retry(r, f) ==
  /\ r \in bound /\ awaits[r] = None /\ painted[r] = None
  /\ fetch_html(r, entryOf, f)
  /\ UNCHANGED <<bound, painted>>

\* A revalidate (`force`): always a new fetch, which takes the in-flight slot.
revalidate(r, f) ==
  /\ r \in bound /\ awaits[r] = None
  /\ start(entryOf, f)
  /\ awaits' = [awaits EXCEPT ![r] = f]
  /\ UNCHANGED <<bound, painted>>

\* A `prefetch` warm: a counted waiter that never leaves.
prefetch(f) ==
  /\ entryOf.html = None
  /\ \/ entryOf.inflight # None /\ join(entryOf)
     \/ entryOf.inflight = None /\ start(entryOf, f)
  /\ UNCHANGED <<bound, awaits, painted>>

\* The in-flight slot of fetch f, given up as f ends.
Cleared(f) == [entryOf EXCEPT !.inflight = IF @ = f THEN None ELSE @]

\* A fetch's answer arrives and is written under the ticket it started with.
answer(f) ==
  /\ request[f] = "flying"
  /\ request' = [request EXCEPT ![f] = "ended"]
  /\ write(Cleared(f), f, ticket[f])
  /\ waiters' = [waiters EXCEPT ![f] = 0]
  /\ UNCHANGED <<ticket, bound, began, clock>>

\* A fetch fails: every caller rejects (and asks again later, or gives up).
fail(f) ==
  /\ request[f] = "flying"
  /\ request' = [request EXCEPT ![f] = "ended"]
  /\ entry' = IF entry # None THEN Cleared(f) ELSE None
  /\ awaits' = [r \in Region |-> IF awaits[r] = f THEN None ELSE awaits[r]]
  /\ waiters' = [waiters EXCEPT ![f] = 0]
  /\ UNCHANGED <<ticket, bound, painted, began, clock>>

\* Mutant of LastWaiter: the test is for exactly one.
OnlyWaiter(q) == waiters[q] = 1

\* The last ensure() caller counted on q (a reservation may have none).
LastWaiter(q) == waiters[q] <= 1

\* A region leaves (`#teardown`): unsubscribe, then `abandon` the address: one
\* waiter less on what is in flight there, which ends with its last.
leave(r) ==
  LET left == schedule_evict(entry, bound \ {r})
      q == entry.inflight
      last == q # None /\ LastWaiter(q)
  IN /\ r \in bound
     /\ bound' = bound \ {r}
     /\ entry' = IF last THEN [left EXCEPT !.inflight = None] ELSE left
     /\ waiters' = IF q = None THEN waiters
                   ELSE [waiters EXCEPT ![q] = IF last THEN 0 ELSE @ - 1]
     /\ request' = IF last /\ q \in Fetch THEN [request EXCEPT ![q] = "aborted"] ELSE request
     /\ awaits' = [x \in Region |-> IF last /\ q \in Fetch /\ awaits[x] = q THEN None
                                    ELSE awaits[x]]
     /\ UNCHANGED <<ticket, painted, began, clock>>

-----------------------------------------------------------------------------
(* The other channels.                                                       *)

\* A batch leaves, with `reserve` for the address: a cold one is held for it.
stream(b) ==
  /\ request[b] = "idle"
  /\ request' = [request EXCEPT ![b] = "flying"]
  /\ began' = [began EXCEPT ![b] = clock + 1]
  /\ clock' = clock + 1
  /\ entry' = IF entryOf.html = None /\ entryOf.inflight = None
              THEN [unarmed EXCEPT !.seq = @ + 1, !.inflight = b]
              ELSE entryOf
  /\ UNCHANGED <<waiters, ticket, bound, awaits, painted>>

\* The batch's parcel for the address: written under a ticket taken now.
parcel(b) ==
  /\ request[b] = "flying"
  /\ request' = [request EXCEPT ![b] = "ended"]
  /\ write([entryOf EXCEPT !.seq = @ + 1], b, entryOf.seq + 1)
  /\ UNCHANGED <<waiters, ticket, bound, began, clock>>

\* The batch ends without a parcel: `release` fails the reservation held there,
\* and whoever joined it fetches on its own.
release(b) ==
  /\ request[b] = "flying"
  /\ request' = [request EXCEPT ![b] = "ended"]
  /\ \/ /\ entry # None
        /\ entry.inflight \in Batch /\ entry.html = None
        /\ entry' = schedule_evict([entry EXCEPT !.inflight = None], bound)
        /\ awaits' = [r \in Region |-> IF awaits[r] = entry.inflight THEN None ELSE awaits[r]]
     \/ /\ ~(entry # None /\ entryOf.inflight \in Batch /\ entryOf.html = None)
        /\ UNCHANGED <<entry, awaits>>
  /\ UNCHANGED <<waiters, ticket, bound, painted, began, clock>>

\* A command is called: its render reads the server's state from now on.
call(m) ==
  /\ request[m] = "idle"
  /\ request' = [request EXCEPT ![m] = "flying"]
  /\ began' = [began EXCEPT ![m] = clock + 1]
  /\ clock' = clock + 1
  /\ UNCHANGED <<entry, waiters, ticket, bound, awaits, painted>>

\* Its answer carries the region's HTML: written under a ticket taken now.
decode_region(m) ==
  /\ request[m] = "flying"
  /\ request' = [request EXCEPT ![m] = "ended"]
  /\ write([entryOf EXCEPT !.seq = @ + 1], m, entryOf.seq + 1)
  /\ UNCHANGED <<waiters, ticket, bound, began, clock>>

-----------------------------------------------------------------------------
(* Eviction.                                                                 *)

\* Mutant of evict: the timer drops an entry someone fetches for.
evict_unbound ==
  /\ entry # None /\ entry.evict
  /\ SlowerThanEviction \/ \A f \in Fetch : request[f] = "flying" => f = entry.inflight
  /\ entry' = IF bound = {} THEN None ELSE [entry EXCEPT !.evict = FALSE]
  /\ UNCHANGED <<waiters, request, ticket, bound, awaits, painted, began, clock>>

\* The timer fires, EVICT_TTL (a minute) after it was armed.  Only a bound region
\* takes the slot from a fetch, and none was bound since: a fetch that lost the slot
\* is older than the timer, so it has ended, unless SlowerThanEviction.
evict ==
  /\ entry # None /\ entry.evict
  /\ SlowerThanEviction \/ \A f \in Fetch : request[f] = "flying" => f = entry.inflight
  /\ entry' = IF bound = {} /\ entry.inflight = None THEN None
              ELSE [entry EXCEPT !.evict = FALSE]
  /\ UNCHANGED <<waiters, request, ticket, bound, awaits, painted, began, clock>>

Next ==
  \/ \E r \in Region : \/ leave(r)
                       \/ \E f \in Fetch : connect(r, f) \/ joined(r, f) \/ retry(r, f) \/ revalidate(r, f)
  \/ \E f \in Fetch : prefetch(f) \/ answer(f) \/ fail(f)
  \/ \E b \in Batch : stream(b) \/ parcel(b) \/ release(b)
  \/ \E m \in Command : call(m) \/ decode_region(m)
  \/ evict

Spec == Init /\ [][Next]_vars

-----------------------------------------------------------------------------
(* Properties.                                                               *)

TypeOK ==
  /\ entry \in Entry \cup {None}
  /\ waiters \in [Request -> Nat]
  /\ request \in [Request -> {"idle", "flying", "ended", "aborted"}]
  /\ ticket \in [Request -> Nat]
  /\ bound \subseteq Region
  /\ awaits \in [Region -> Fetch \cup Batch \cup {Joining, None}]
  /\ painted \in [Region -> Request \cup {None}]
  /\ began \in [Request -> Nat]
  /\ clock \in Nat

\* A region that is bound has applied the frame the store holds, whether it was
\* there when the frame landed or bound after it (`notify`, `subscribe`'s replay).
BoundSeesContent ==
  \A r \in bound : entry # None /\ (entry.html # None => painted[r] = entry.html)

\* A fetch someone counts on keeps its entry: eviction never drops what a joined
\* region waits for, even from a timer armed before the fetch (`schedule_evict`).
AwaitedIsKept ==
  \A f \in Fetch : request[f] = "flying" /\ waiters[f] > 0 /\ ticket[f] > 0 =>
    entry # None /\ entry.seq >= ticket[f]

\* "A slow response that started earlier can never overwrite one that started
\* later", between fetches (`ensure`'s tickets and `write`'s version test).
FetchesInOrder ==
  [][\A f, g \in Fetch :
       (entryOf.html = f /\ entryOf'.html = g /\ f # g) => began[g] > began[f]]_vars

\* frame-store.ts: abandon "aborts the shared fetch only when the LAST waiter
\* leaves": never the fetch of a region that is still there and waits for it.
TwinKeepsItsFetch ==
  [][\A f \in Fetch : request[f] = "flying" /\ request'[f] = "aborted" =>
       \A r \in bound' : awaits[r] # f]_vars

\* The store implements the register its regions see: subscriptions replay, frames
\* land in the order their fetches began, and an entry goes only when nobody is
\* bound, whatever tickets, slots, waiters and timers do.
Register == INSTANCE FrameRegister WITH content <- entryOf.html
ImplementsRegister == Register!Spec
=============================================================================
