------------------------------- MODULE Freeze -------------------------------
(* Frozen pages, the request path (hooks.ts `#core`, `capture_freeze`;       *)
(* freeze/registry.ts).  A GET of a freezable page is answered from the      *)
(* store; a cold one opens a FLIGHT, renders under observation and stores    *)
(* the result; a concurrent cold one joins the flight.  Writers change the   *)
(* content a page renders and then evict its entry: a form action by         *)
(* `self_evict`, a publish by `freeze.invalidate(url)`.                      *)
EXTENDS Naturals

CONSTANTS
  Key,             \* the pathnames of freezable pages: the store's keys
  Request,         \* GET requests, each sent at most once
  Writer,          \* form actions and publishes, each done at most once
  Known,           \* the requests whose visitor carries a session cookie
  PersonalKey,     \* the pages whose render reads that cookie
  None

ASSUME KnownAssumption == Known \subseteq Request
ASSUME PersonalAssumption == PersonalKey \subseteq Key
ASSUME NoneAssumption ==
  /\ None \notin Request
  /\ None \notin [ver : Nat, reader : Request \cup {None}]
  /\ None \notin [stored : [ver : Nat, reader : Request \cup {None}] \cup {None}]

VARIABLES
  data,     \* data[k]: the version of the content a render of k reads now
  store,    \* store[k]: the stored render of k, or None
  flight,   \* flight[k]: the request whose flight is registered for k (`inflight`)
  pc,       \* pc[r]: where request r is in the handle
  path,     \* path[r]: the page r asks for
  got,      \* got[r]: the render r read from the store, made or was handed
  joined,   \* joined[r]: the request whose flight r joined
  outcome,  \* outcome[r]: what r's flight settled with, None before
  writer,   \* writer[w]: where writer w is
  target,   \* target[w]: the page w changes
  newest    \* history: newest[k], the latest version ever stored for k

vars == <<data, store, flight, pc, path, got, joined, outcome, writer, target, newest>>

\* A finished render: the content version it read, and the visitor it is for
\* (None: every cookie it read had its default value, the canonical render).
Render == [ver : Nat, reader : Request \cup {None}]

\* What a flight settles with: `{ stored: entry | null }`.
Outcome == [stored : Render \cup {None}]

Stage == {"idle", "looked", "joined", "capture", "loaded", "storing", "stored",
          "solo", "done", "failed"}

\* The stages of a request that owns a flight it still has to settle.
Capturing == {"capture", "loaded", "storing", "stored"}

\* The canonical renders: what the store may hold.
Canonical == {e \in Render : e.reader = None}

-----------------------------------------------------------------------------
Init ==
  /\ data = [k \in Key |-> 0]
  /\ store = [k \in Key |-> None]
  /\ flight = [k \in Key |-> None]
  /\ pc = [r \in Request |-> "idle"]
  /\ path = [r \in Request |-> None]
  /\ got = [r \in Request |-> None]
  /\ joined = [r \in Request |-> None]
  /\ outcome = [r \in Request |-> None]
  /\ writer = [w \in Writer |-> "idle"]
  /\ target = [w \in Writer |-> None]
  /\ newest = [k \in Key |-> 0]

\* `await freeze_get(path)`: the store is read here, the reply is acted on later.
freeze_get(r, k) ==
  /\ pc[r] = "idle"
  /\ pc' = [pc EXCEPT ![r] = "looked"]
  /\ path' = [path EXCEPT ![r] = k]
  /\ got' = [got EXCEPT ![r] = store[k]]
  /\ UNCHANGED <<data, store, flight, joined, outcome, writer, target, newest>>

\* A hit: the stored render answers the request.
hit(r) ==
  /\ pc[r] = "looked"
  /\ got[r] # None
  /\ pc' = [pc EXCEPT ![r] = "done"]
  /\ UNCHANGED <<data, store, flight, path, got, joined, outcome, writer, target, newest>>

\* Mutant of begin_flight: a miss that does not look for a flight to join.
begin_flight_unchecked(r) ==
  /\ pc[r] = "looked"
  /\ got[r] = None
  /\ flight' = [flight EXCEPT ![path[r]] = r]
  /\ pc' = [pc EXCEPT ![r] = "capture"]
  /\ UNCHANGED <<data, store, path, got, joined, outcome, writer, target, newest>>

\* A miss while a flight is registered for the page: wait for its outcome.
join_flight(r) ==
  /\ pc[r] = "looked"
  /\ got[r] = None
  /\ flight[path[r]] # None
  /\ pc' = [pc EXCEPT ![r] = "joined"]
  /\ joined' = [joined EXCEPT ![r] = flight[path[r]]]
  /\ UNCHANGED <<data, store, flight, path, got, outcome, writer, target, newest>>

\* The first cold request opens the flight and renders under observation.
begin_flight(r) ==
  /\ pc[r] = "looked"
  /\ got[r] = None
  /\ flight[path[r]] = None
  /\ flight' = [flight EXCEPT ![path[r]] = r]
  /\ pc' = [pc EXCEPT ![r] = "capture"]
  /\ UNCHANGED <<data, store, path, got, joined, outcome, writer, target, newest>>

\* What a render of r's page gives now: personal when the page reads the
\* session cookie and the visitor sent one.
RenderNow(r) ==
  [ver |-> data[path[r]],
   reader |-> IF r \in Known /\ path[r] \in PersonalKey THEN r ELSE None]

\* `await resolve(event)`: the loads read the content.
render(r) ==
  /\ pc[r] = "capture"
  /\ pc' = [pc EXCEPT ![r] = "loaded"]
  /\ got' = [got EXCEPT ![r] = RenderNow(r)]
  /\ UNCHANGED <<data, store, flight, path, joined, outcome, writer, target, newest>>

\* resolve() rejects (a handle later in the sequence throws): the request fails,
\* and nothing settles the flight it may own.
resolve_rejects(r) ==
  /\ pc[r] \in {"capture", "loaded", "solo"}
  /\ pc' = [pc EXCEPT ![r] = "failed"]
  /\ UNCHANGED <<data, store, flight, path, got, joined, outcome, writer, target, newest>>

\* Mutant of Eligible: the verdict ignores what the render read.
EligibleAlways(e) == e \in Render

\* `capture_freeze`'s verdict on the observed render.
Eligible(e) == e.reader = None

\* Mutant of eligible: the flight settles before the put.
eligible_settles(r) ==
  /\ pc[r] = "loaded"
  /\ Eligible(got[r])
  /\ flight' = [flight EXCEPT ![path[r]] = None]
  /\ pc' = [pc EXCEPT ![r] = "storing"]
  /\ UNCHANGED <<data, store, path, got, joined, outcome, writer, target, newest>>

\* An eligible render goes to the store.
eligible(r) ==
  /\ pc[r] = "loaded"
  /\ Eligible(got[r])
  /\ pc' = [pc EXCEPT ![r] = "storing"]
  /\ UNCHANGED <<data, store, flight, path, got, joined, outcome, writer, target, newest>>

\* Mutant of Settled: a refused render leaves its flight registered.
SettledIfStored(r, stored) ==
  IF stored = None
  THEN UNCHANGED <<flight, outcome>>
  ELSE /\ flight' = [flight EXCEPT ![path[r]] = None]
       /\ outcome' = [outcome EXCEPT ![r] = [stored |-> stored]]

\* The closure `begin_flight` returned: unregister the flight, settle its promise.
Settled(r, stored) ==
  /\ flight' = [flight EXCEPT ![path[r]] = None]
  /\ outcome' = [outcome EXCEPT ![r] = [stored |-> stored]]

\* The memory store answers in a fixed number of microtasks: a read that missed
\* before a put resumes (2 ticks) before the flight of that put settles (3 ticks).
RepliesInOrder(k) ==
  \A q \in Request : ~(pc[q] = "looked" /\ path[q] = k /\ got[q] = None)

\* A refused render (or a capture that threw) answers its own request only.
refuse(r) ==
  /\ pc[r] = "loaded"
  /\ Settled(r, None)
  /\ pc' = [pc EXCEPT ![r] = "done"]
  /\ UNCHANGED <<data, store, path, got, joined, writer, target, newest>>

\* `freeze_put`: the store keeps the render.
freeze_put(r) ==
  /\ pc[r] = "storing"
  /\ store' = [store EXCEPT ![path[r]] = got[r]]
  /\ newest' = [newest EXCEPT ![path[r]] = got[r].ver]
  /\ pc' = [pc EXCEPT ![r] = "stored"]
  /\ UNCHANGED <<data, flight, path, got, joined, outcome, writer, target>>

\* `freeze_settle({ stored })`, then the fresh response answers the request.
settle(r) ==
  /\ pc[r] = "stored"
  /\ RepliesInOrder(path[r])
  /\ Settled(r, got[r])
  /\ pc' = [pc EXCEPT ![r] = "done"]
  /\ UNCHANGED <<data, store, path, got, joined, writer, target, newest>>

\* Mutant of join_hit: the joiner keeps the outcome itself, not its entry.
join_hit_wrapped(r) ==
  /\ pc[r] = "joined"
  /\ outcome[joined[r]] # None
  /\ outcome[joined[r]].stored # None
  /\ pc' = [pc EXCEPT ![r] = "done"]
  /\ got' = [got EXCEPT ![r] = outcome[joined[r]]]
  /\ UNCHANGED <<data, store, flight, path, joined, outcome, writer, target, newest>>

\* A joiner of a flight that stored is answered with the stored render.
join_hit(r) ==
  /\ pc[r] = "joined"
  /\ outcome[joined[r]] # None
  /\ outcome[joined[r]].stored # None
  /\ pc' = [pc EXCEPT ![r] = "done"]
  /\ got' = [got EXCEPT ![r] = outcome[joined[r]].stored]
  /\ UNCHANGED <<data, store, flight, path, joined, outcome, writer, target, newest>>

\* A joiner of a refused flight renders for itself: no flight, no capture.
join_refused(r) ==
  /\ pc[r] = "joined"
  /\ outcome[joined[r]] = [stored |-> None]
  /\ pc' = [pc EXCEPT ![r] = "solo"]
  /\ UNCHANGED <<data, store, flight, path, got, joined, outcome, writer, target, newest>>

render_solo(r) ==
  /\ pc[r] = "solo"
  /\ pc' = [pc EXCEPT ![r] = "done"]
  /\ got' = [got EXCEPT ![r] = RenderNow(r)]
  /\ UNCHANGED <<data, store, flight, path, joined, outcome, writer, target, newest>>

\* A form action or a publish changes what a render of k reads.
change(w, k) ==
  /\ writer[w] = "idle"
  /\ data' = [data EXCEPT ![k] = @ + 1]
  /\ writer' = [writer EXCEPT ![w] = "changed"]
  /\ target' = [target EXCEPT ![w] = k]
  /\ UNCHANGED <<store, flight, pc, path, got, joined, outcome, newest>>

\* `self_evict(path)` after the action answered, or `freeze.invalidate(url)` of
\* the publish's webhook: the origin drops the entry.
evict(w) ==
  /\ writer[w] = "changed"
  /\ store' = [store EXCEPT ![target[w]] = None]
  /\ writer' = [writer EXCEPT ![w] = "evicted"]
  /\ UNCHANGED <<data, flight, pc, path, got, joined, outcome, target, newest>>

\* The entry's TTL runs out, or the byte-bounded LRU drops it.
expire(k) ==
  /\ store[k] # None
  /\ store' = [store EXCEPT ![k] = None]
  /\ UNCHANGED <<data, flight, pc, path, got, joined, outcome, writer, target, newest>>

RequestStep(r) ==
  \/ hit(r) \/ join_flight(r) \/ begin_flight(r)
  \/ render(r) \/ eligible(r) \/ refuse(r)
  \/ freeze_put(r) \/ settle(r)
  \/ join_hit(r) \/ join_refused(r) \/ render_solo(r)

Next ==
  \/ \E r \in Request : (\E k \in Key : freeze_get(r, k)) \/ RequestStep(r)
                        \/ resolve_rejects(r)
  \/ \E w \in Writer : (\E k \in Key : change(w, k)) \/ evict(w)
  \/ \E k \in Key : expire(k)

Spec == Init /\ [][Next]_vars

\* The event loop resumes every continuation whose promise settled, and the
\* loads of a render end.  Nobody has to send a request, publish or expire.
FairSpec == Spec /\ \A r \in Request : WF_vars(RequestStep(r))

-----------------------------------------------------------------------------
(* Properties.                                                               *)

TypeOK ==
  /\ data \in [Key -> Nat]
  /\ store \in [Key -> Render \cup {None}]
  /\ flight \in [Key -> Request \cup {None}]
  /\ pc \in [Request -> Stage]
  /\ path \in [Request -> Key \cup {None}]
  /\ got \in [Request -> Render \cup {None}]
  /\ joined \in [Request -> Request \cup {None}]
  /\ outcome \in [Request -> Outcome \cup {None}]
  /\ writer \in [Writer -> {"idle", "changed", "evicted"}]
  /\ target \in [Writer -> Key \cup {None}]
  /\ newest \in [Key -> Nat]

\* A response rendered for one visitor's session never answers another
\* visitor, whether through the store or through a joined flight
\* (`capture_freeze`'s verdict with the joiners' `outcome.stored` test).
NoPersonalLeak ==
  \A r \in Request : pc[r] = "done" => got[r].reader \in {None, r}

\* The stampede law: a page is rendered into the store once per thaw, so no
\* put ever lands on an entry that is still live (store read, `join_flight`,
\* `freeze_put`, `freeze_settle`, in the order the handle does them).
NeverOverwrites ==
  [][\A k \in Key : store[k] # None => store'[k] \in {store[k], None}]_vars

\* Across thaws the store never goes back: a render that read older content is
\* never stored after one that read newer content.
NeverGoesBack ==
  [][\A k \in Key : store'[k] \notin {store[k], None} => store'[k].ver >= newest[k]]_vars

\* r waits on a flight whose request failed (resolve() rejected).
JoinedAFailure(r) ==
  pc[r] = "joined" /\ pc[joined[r]] = "failed"

\* Every request is answered or fails, unless it joined a flight that failed.
AnsweredUnlessFlightFailed ==
  \A r \in Request :
    (pc[r] = "looked") ~> (pc[r] \in {"done", "failed"} \/ JoinedAFailure(r))

\* hooks.ts: "A failed flight ALWAYS settles (joiners in the stampede must
\* never hang)": every request is answered or fails.
Answered ==
  \A r \in Request : (pc[r] = "looked") ~> (pc[r] \in {"done", "failed"})
=============================================================================
