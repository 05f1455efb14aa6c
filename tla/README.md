# ogygia in TLA+

A verification development for **ogygia** (`packages/ogygia`), an islands
framework on SvelteKit: server-rendered pages in which only islands hydrate,
with deferred holes fetched as HTML, an own SPA router, and *frozen* pages
that are stored as bytes until a publish thaws them. Paths below are relative to
`packages/ogygia/src/`.

The project has one module per protocol of the code, an MC module and TLC
configurations for each, and TLAPS proofs in `*Proofs` modules. `PROJECT.json`
is its index: components, runs, the source lines of every definition (`map`),
mutated definitions that each property must catch (`mutants`), hazards,
findings, theorems.

## Inventory

| Component | State it keeps | Operations | Hard behaviour | What makes it correct |
|---|---|---|---|---|
| **Frozen pages, request path** (`hooks.ts` `#core`, `capture_freeze`; `freeze/registry.ts`; `freeze/observe.ts`) | the store's entries, `inflight` flights | store read, join a flight, open one, render under observation, verdict, put, settle, self-evict | stampedes of concurrent cold requests; a personal render others wait for; a publish during a render; an error inside a flight | one render per thaw, no personal answer leaks, every request is answered, a thaw is a thaw |
| **Frozen pages, receipts and invalidation** (`freeze/registry.ts` `invalidate`, `invalidate_tags`; `freeze/memory-store.ts`, `freeze/adapters/*`) | entries, the index from receipt tags to pages, the edge's copies | put and its index writes, `evictByTag`, `invalidate` by URL or by source, purges | two-structure updates over a network; origin drop and edge copy apart; renders and responses under way across a thaw | a live entry is always found by its receipts; after a thaw only a render or a response of before it brings the old version back |
| **Load scheduler** (`runtime/load-scheduler.ts`) | the queue, `in_flight_background`, the critical gate, the scroll listener | `load_slot`, `promote`, `release`, gate events, first input, scroll frames | priorities that are getters and change while queued; a gate with several openers; lost wake-ups | the window is kept, no overtaking, every download starts |
| **Frame store** (`runtime/frame-store.ts`, written by `core.ts`, `frame-nav.ts`, `transport.ts`) | one entry per address: version, HTML, ticket source, in-flight slot, eviction timer | `subscribe`, `ensure`, `abandon`, `reserve`, `release`, `ticket`/`write` | twins sharing one fetch, batches and commands writing the same address, out-of-order answers, eviction | what is bound shows what is stored, newer frames win, a shared fetch lives as long as somebody waits |
| **Region element** (`runtime/core.ts`, `lakes.ts`, `interaction*.ts`) | `#done`, `#fetching`, `#frame_unsub`, abort controllers, wake schedule | connect, wake, fetch, apply, hydrate, teardown | disconnect and re-attach during every await | applied frames in order, one hydration |
| **Hydration schedule** (`runtime/schedule.ts`) | regions, turns, holds, timers | register, drain, report, unregister | turns held for snapshots and viewport islands | one hydrate step per task, every turn is handed out |
| **SPA router** (`runtime/router*.ts`, `page-cache.ts`) | page cache, prefetches in flight, `nav_gen`, history session | navigate, prefetch, pop, invalidate | navigations superseding each other at every await; the cache emptied under a prefetch | the last navigation wins, nothing stale after an invalidation |
| **Concurrency gate** (`runtime/concurrency.ts`) | active count, waiters | enter, leave | a newcomer between a leave and the resumed waiter | at most the limit is active |
| **Server documents and regions** (`hooks.ts`, `server/*`) | render cache, rate limits, page stream | region endpoint, batch, streamed tail | shared renders across requests | no personal render is shared |
| **Ref hub, shared state** (`ref.ts`, `live-transport.ts`, ...) | values by identity, watchers | watch, notify, seed | batched notification | watchers see the last value |
| Morph, parsing, typed router, federation, flags, compiler, content, devtools, CLI | mostly none | pure or build-time | - | see `PROJECT.json` |

How they interact. A GET of a freezable page runs the **request path**, which
calls the **store** whose entries the **invalidation** path evicts. In the
browser a **region element** asks the **load scheduler** for a slot when it
fetches (through the frame store's fetcher) or imports its code; what arrives is
written to the **frame store**, which notifies every element bound to the address;
the **router** replaces regions, which abandon their fetches; the **hydration
schedule** then gives each island its turn. Batch streams and command answers
write to the frame store directly. All of the browser side is one event loop: an
action is the code between two awaits.

## State of the work

Built, in order of weight: `Freeze` (proved), `FreezeThaw` (proved), `LoadScheduler`
(proved), `FrameStore` (proved, and shown to implement `FrameRegister`),
`Navigation` (proved), `Hydration` (proved), `Hole` (proved), `RegionServer` with
`Capability` (proved). "Proved" means its safety properties; liveness stays with TLC.

What a later extension would take up, and why it waits:

- `Freeze` on a remote store, whose replies come in any order: the stampede law
  does not hold there as it stands, and the code's promise for it is not written down.
- Versions of pages in `Navigation`, to state that no page from before a mutation is
  shown, and an abstract register of the last requested page it implements.
- `Hole` composed with several elements and `FrameStore` in one module. Today each of
  the two stands on the other's promise: `Hole` sees the store as `FrameRegister`
  describes it, and `FrameStore` is shown to implement `FrameRegister`.
- Lakes (frozen regions) and the boundaries that hold islands inside them.

## Modules

| Module | Contents |
|---|---|
| `Freeze`, `MCFreeze`, `FreezeProofs` | the handle's frozen-page path |
| `FreezeThaw`, `MCFreezeThaw`, `FreezeThawProofs` | receipts, `evictByTag`, `invalidate`, the edge |
| `LoadScheduler`, `MCLoadScheduler`, `LoadSchedulerProofs` | the browser's download queue |
| `FrameStore`, `MCFrameStore`, `FrameStoreProofs` | the store at one address and everyone who writes it |
| `FrameRegister` | the register the store promises its regions (`FrameStoreProofs` shows that it implements it) |
| `Navigation`, `MCNavigation`, `NavigationProofs` | the SPA router in one document |
| `Hydration`, `MCHydration`, `HydrationProofs` | an island's wake: its run, its clicks, the schedule of turns |
| `Hole`, `MCHole`, `HoleProofs` | a deferred hole's element, above the register |
| `Capability` | how long a hole's signed address lives (operators only) |
| `RegionServer`, `MCRegionServer`, `RegionServerProofs` | a hole's request on the server: capability, memo, gate |

### Freeze

A request is at a stage of `pc`: `freeze_get` (the store read), then, when the
reply resumes it (`looked`), a `hit`, `join_flight`, or `begin_flight`; then
`render` (with the content version read at an instant, `RenderNow`), then `eligible`
or `refuse` (the verdict of `capture_freeze`), `freeze_put`, `settle`. A joiner resumes with
the outcome (`join_hit`, `join_refused`) and in the second case renders on its own
(`render_solo`). `resolve_rejects` is the failure inside SvelteKit's resolve. Writers
(`change` then `evict`) are form actions with `self_evict` and publishes; `expire` is the
TTL or the byte budget. A render is `[ver, reader]`: the version of the content it
read and the visitor whose session it read, if any.

Abstractions. The store is the in-memory one: its calls resolve in the microtask
after they are made, so of two pending replies the earlier resumes first
(`RepliesInOrder`); a remote store would need a different module. The
observation's reasons for a refusal (cookies, session, uncacheable headers) are one:
reading the session. Redirects and stitched pages take the same control path.

### FreezeThaw

Documents (`src`) have versions; an entry is the versions its render read
(`Copy`). A capture renders (`render`: it `held` what it read), and later its verdict is no (`refuse`) or yes:
`put_entry` and then one `put_tag` per receipt are put's commands. Any number of publishes, evicts and drops fall
between a render and its put. `read_members`, `delete_members`, `drop_tag` are `evictByTag`'s commands. A thaw by URL
(`invalidate(url)`, or `invalidateWhere(prefix)`, whose prefix stands for a set of pages in `Named`) is `evict`
and one call to the edge: `purge_edge` when it lands, `purge_fails` when the edge is down or has no tag for so deep a
prefix (`settle_all` warns, `unpurged` remembers). The edge asks the origin for a stored page (`edge_ask`), its
`reply` is on its way for any time, and is stored when it arrives (`edge_fill`). With `Adapter = "memory"` a store call
runs to completion (`Alone`), and a page is rendered when it is not stored, once at a time (`MayRender`, the single
flight); with `"redis"` (valkey, upstash) the commands of different calls interleave, an evict goes in a cursor's
batches, and processes render without waiting for each other. `drop` may happen at any moment.

Abstractions. A render reads all its documents at one moment, where the loads of the code read them one after the
other: the properties speak of one document of one thaw at a time, and to them only the moment that document
was read counts. The response of the request that rendered, and those of its joiners, carry the entry just put: they are
replies of that entry too. There is one edge. Tag-set expiry and peers' notices are left out.

### LoadScheduler

`entry[d]` is a download's place: its class (a getter in the code, so `moves` and
`gesture` change it while queued), its arrival order, and, once it runs, whether it
took a background slot. `drain` is applied at the end of every action that calls it in
the code and starts all of `Started` at once. The gate is `closed`, `painting` (frames
before the elements are looked up), `waiting` (with `left` events to come), `open`.

Abstractions. Classes are the four ranks; geometry is the nondeterministic class
given by `moves`. Of a frame that reads the viewport only its effect on the queue and
the listener is kept.

### FrameStore

One address; addresses share nothing but code. A frame is named by the request it
answers, so ordering properties compare `began`. Actions are the callers' operations:
a region's `connect`, `joined` (the end of the task in which a batch may leave), `retry`,
`revalidate`, `leave`; `prefetch`; a fetch's `answer` and `fail`; a batch's `stream`
(with `reserve`), `parcel`, `release`; a command's `call` and `decode_region`; the timer's
`evict`. `painted[r]` is what region `r` applied last.

Abstractions. Applying a frame is one step with its notification (in the code a
stylesheet may be awaited first: `Hole`). A region whose address changes is
`Hole`'s too. Those who joined a reservation that a revalidate replaced go on waiting,
as in the code (their subscription still paints). `evict` assumes
`SlowerThanEviction = FALSE` in all results: a fetch that lost the slot ends within
`EVICT_TTL` (one minute) of the last region that was bound. Without it a recreated entry
restarts its tickets at 1 and the old fetch's frame can win.

### FrameRegister

What the regions of one address are promised, in three variables instead of the store's
entry, slot, tickets, waiters and timer: the frame applied (`content`), who subscribes
(`bound`), what each painted. `Bind` replays, `Land` reaches everyone bound and never puts
a fetch's frame over that of a fetch that began later, `Forget` needs nobody bound.
`FrameStore` implements it with `content <- entryOf.html` (`ImplementsRegister`); that
includes `FetchesInOrder`, which is therefore not checked a second time. `Hole` uses the same
promise as its environment: a subscription replays, a landing frame reaches whoever is bound, an
unbound address may be forgotten.

### Navigation

`pc[n]` is where navigation `n` is: `loading` (the router-nav chunk, `claim`), then after `begin`
(it supersedes `latest`, writes the history, fetches) `fetching`, `reading` (headers in), or
`landing` (a cached or joined page), `styling`, `swapped`, and it ends as `done`, `cancelled`
(a beforeNavigate hook), `dropped` (superseded), `handed` (the browser loads a document) or, from there,
`stayed`: the answer was a download or a 204, the browser keeps the old document, and nobody clears the claim.
`entries`, `at` are the session history; `target`, `current` are `nav_target`, `current_url`
(with `doc_key`); `body` and `seeds` say which page is in the DOM and which one the islands
read. `cache`, `inflight`, `final_url` are the maps of the same names, `warm` the prefetches,
`soft` the calls of `invalidateAll`. A goto with `replaceState` passes `push: false, replace: false`,
which is the kind `keep`. Whoever waits for the chunk resumes in call order (`loading`).

Abstractions. A page is pathname and search: fragments and scroll are left out. A fetch
of a page always lands on the same page (`Redirect`). The locals of a navigation start
over when it ends (`ends`). A navigation that hands over to the browser may be followed by
further steps of the old document until it is gone. The prefetch's download slot is
`LoadScheduler`'s. A swap is one step, as the view transition's callback is.

### Hydration

Several self-running islands of one page. `run[e]` is the stage of `#hydrate`: `slot` (the
parsed document, the download slot), `import` (the module, then Kit's page), `turn` (in
`pending`), `granted` (the turn is resolved, its continuation not run), `settle` (live, its
snippets not). An action is the code between two awaits with the checks behind the
first, so each stage has its "the element is gone" branch. `Connect`, `Disconnect`,
`Teardown` are the custom element's reactions, the last a microtask later; `InView`
and `Start` the schedule and the background queue; `Click`, `Replay` the capture of
`interaction.ts`. `Drain`, `DrainAfter`, `HandTurn`, `TimerFires`, `Report` are `schedule.ts`'s
functions, `Unregister` its withdrawal. `Tick` advances the ages of the turns; `HoldFor` and
`SnapshotWait` are the code's two waits in ticks. `TaskEnds` says that microtasks run before
the next task.

Abstractions. A stage of a run does not fall between an element's removal and the microtask that looks
where it is (`At`): a script that moves an element does so in one go. Where a run starts
from the click a region captured, the class of its download is `LoadScheduler`'s. A
click names its region only. `idle` and media schedules are `visible`: all of them arm, fire once and are
disarmed by the teardown; that an `idle` island skips the background queue is not
distinguished. Nested islands, lakes, Kit-hydrated pages and the hole's second phase are left out.

The `verdict` of a run that ended without an island is `cold` (it failed, or the island is
not ours) or `forgotten`: a run whose element was torn down and put back
while it awaited its snippets ends on the new stay (see the divergences below).

### Hole

One deferred hole. `fetch` is the run of `#fetch_html`: `joining` (the batch that may take
it), then `waiting`, unless it ends up `orphaned` (it joined a reservation that was replaced or dropped: nothing
settles it any more); `gone` says that its element left since (`outer.aborted`), `killed` that the
store aborted it. `address` and `bound` are `#frame_address` and the address its
subscription is at, `minted` the address in its attribute: `Renew` is a refreshed ancestor that
mints it anew. `applies` are the frames between `#apply`'s two halves, with their
stylesheets (`Sheet`); `servers` the runs of `#server` that await the frame they saw in `#applying`.
`retries` are timers set, `starting` the start in the background queue. `woken` is the
second phase (`#arm` of the hydrate schedule). The store is `FrameRegister`'s, per address.

Three variables are history. `given_up` is how the last fetch ended without an answer: `refused`, `exhausted`,
`dropped` (turned away by, or swallowed with, a fetch of an earlier stay), `aborted` (`Swallowed` while the element is
there: a twin that was not waiting abandoned the address, which aborts the request, and an `AbortError` is
never retried) or `orphaned`. `strayed` says that a start of an earlier stay ran after its teardown; the next teardown clears
it. `overtaken` says that the frame that came last went in before an older one whose stylesheet took longer.
The properties name these where the code gives no more.

Abstractions. Of the frames at an address only their order and whether they are "keep the
fallback" is kept. A capability renewed by the endpoint (`#adopt_renewed`) and the `prefetch`
schedule are left out. What the twins and batches do to the slot is `FrameStore`'s; here it is the step
(`Swallowed`, `Orphaned`) they may cause at any moment.

### Capability and RegionServer

`Capability` is arithmetic, in seconds: `Expiry` (windows of half the lifetime), `SharedLifetime`
(a header as its directives), `MintTtl`, `Renewable`. `RegionServer` is a request on the
endpoint or in a batch: `Arrive` (a document rendered at some earlier moment with some
shared lifetime, a visitor who may have logged in or out since), the checks, `Renew`,
`Lookup` in the memo, then the gate: `Ask`, and if it queued `Resume`, the waiter's
continuation, which is a step of its own after the leaver's `Leave`. A render reads its data as it
begins (`read`). `Rendered` and `EndsWithout` are the ends of a render, with the gate's `finally`.

Abstractions. Rate limits, manifests, MAC mismatches that are not the session's, and bad props are one
nondeterministic refusal. The memo's byte budget is any eviction. The signature is the
session it seals. A hole request that carries several calls (a batch) is as many requests.

## Runs

| Run | Instance | Shows |
|---|---|---|
| `freeze` | 1 personal page, 3 requests (1 with a session), 2 writers | `NoPersonalLeak`, `NeverOverwrites` (one render per thaw), `NeverGoesBack`, `AnsweredUnlessFlightFailed` |
| `freeze_hang` | same | *finding*: `Answered` fails |
| `freeze_thaw` | 2 pages, 2 documents (one shared), 1 render and 1 response under way, 2 publishes (by tag, or by URL naming both pages), memory store | `ReceiptKept`, `OriginThawed`, `EdgeThawedByURL` |
| `load_scheduler` | 3 downloads, 2 critical elements, window 1 | `WindowKept`, `WatchedWhileQueued`, `NoOvertaking`, `Starts` |
| `frame_store` | 2 twins, 2 fetches, 1 batch, 1 command | `BoundSeesContent`, `AwaitedIsKept`; `ImplementsRegister` (refinement) |
| `frame_twin` | same | *finding*: `TwinKeepsItsFetch` fails |
| `navigation` | 3 pages (1 redirects), 2 navigations, 1 prefetch, 1 invalidation | `LastNavigationShown`, `ClaimIsInFlight`, `JoinsAlive` |
| `nav_address` | same | *finding*: `OnePage` fails |
| `hydration` | 2 islands (one on load that may leave and return and is clicked, one below the fold), waits of 1 and 2 ticks | `AppIsAttached`, `ScheduleIsExact`, `WakeIsKept`, `HoldsForViewport`, `ClicksMeetTheIsland`, `TurnsComeUp` |
| `hole` | 1 interactive hole, 2 addresses, 2 frames, 1 stay and a return, 2 attempts; its fetch may be aborted or orphaned | `FallbackIsTemporary`, `AnsweredIsWoken`, `ShowsItsFrame`, `Settles` |
| `region_server` | 3 requests, 1 memoised call that reads its page, 2 visitors, 2 pages, 1 slot, 3 seconds | `AnswerIsOwn`, `GateIsExact`, `FreshEnough`, `OutlivesItsPage`, `WaiterEnters` |
| `gate_cap` | same | *finding*: `NeverExceeds` fails |

Every run of a module that passes also checks its `TypeOK`.

Bounds. Requests, renders, publishes, fetches and downloads are finite sets, each member
used once, which bounds every counter; the one bound in a guard is
`MaxWaiters` (callers counted on one fetch). Keys of the frozen store and addresses of the
frame store do not interact, so one is enough where only one is taken; pages of
`FreezeThaw` do, through tags, so it has two; a render and a response under way touch one page each, and one
of either, used again and again, meets every step of a thaw; a thaw by URL names both pages, since what it does to
each of them it would do to that one alone (the theorems hold for any `Named`). Three requests are a flight's owner,
a joiner and a late reader; two writers are a thaw during a render and one
after it. Two twins and two fetches are a shared fetch, and a fetch overtaken by
another. Three downloads with a window of one are one that runs, one that waits and
one that overtakes. Two navigations are one that supersedes the other at any of
its stages, or follows it with a Back. Two islands are one in the viewport that holds and one
below it that is held; the first may leave at any stage of its run and come
back (`MaxLeaves`), with a click under way (`MaxClicks`). Waits of one and two ticks are
the shortest that differ. A hole at two addresses (`MaxMints`) is one bound to the one and minted at the other;
two frames (`MaxFrames`) are one applied over the other; two attempts one that is retried and
one that is the last (the code has three, the third like the second).
Three requests at one slot are one that renders, one that is called and one that
comes in between; a memo of two seconds in a clock of three (`MaxNow`) holds, expires and is
overwritten; lifetimes 0 and 2 are a private and a shared document. `frame_store` uses symmetry over twins and over
fetches, `navigation` over navigations, `freeze_thaw` over thaws: their properties are invariants and action
properties that treat all alike.

Deadlock. `CHECK_DEADLOCK FALSE` everywhere but in `FreezeThaw`: when every request is
answered, every download done, every navigation ended and every island live or left alone,
the system rightly stops. `FreezeThaw` is
checked for deadlock, since pages can always be dropped and rendered again.

Fairness. `Freeze`: weak fairness of a request's own steps, since the event loop resumes
every settled promise and renders end; nobody need send a request, publish, or expire.
`LoadScheduler`: weak fairness of `release` (downloads settle), `painted`, `cap` (a timer) and
`frame` (a requested animation frame); neither loads, scrolls, gestures nor element
events are fair. `Hydration`: weak fairness of the teardown's microtask, of queued starts, of the
slot (`LoadScheduler`'s `Starts`), of the turn's continuation, of `snippets_settled` (it has a cap), of the
drain and the timer; strong fairness of `Tick`, which is enabled only while the page is idle
between tasks: time passes whenever that happens again and again. An import need not settle, an observer
need not report, a hidden tab need not come back. `Hole`: weak fairness of every task, timer
and stylesheet (its wait is bounded) and of the request's end, unless its wait is orphaned first; nobody need renew, move or
write. `RegionServer`: weak fairness of a request's own steps; a render ends by the timeout at the
latest. `FreezeThaw`, `FrameStore` and
`Navigation` state safety only; that a navigation is not left waiting is the invariant `JoinsAlive`.

## Findings

Each is a violation run and an entry in `PROJECT.json` with the quoted line.

- *A flight whose request fails is never settled* (`hooks.ts:1137`): the comment says a
  failed flight always settles; when `resolve()` rejects, it does not, and later cold
  requests of that page wait for ever.
- *An element that does not await a fetch abandons it* (`runtime/core.ts:1483`): its
  twin's fetch is aborted.
- *A goto that replaces writes no entry* (`runtime/router.ts:338`): the doc of `goto` says it
  replaces the current entry; the page is shown under the address of the one that was left.
  `OnePage` has further counterexamples that TLC reaches later: Back or a click to the page
  shown while a navigation is in flight (neither aborts it), a mutation or a prefetch of the
  page that clears `final_url` between a redirect's headers and its landing, and an invalidation of the page
  left that answers after the swap and puts its seeds under the new body.

- *The gate admits one more than its limit* (`runtime/concurrency.ts:16`): a caller that comes
  between a leaver's decrement and the resumed waiter's increment enters beside the waiter,
  and before those who queue. `CapHoldsWithoutBarging` proves that this is the only cause.

### Divergences that no run states

The following were seen on the models; the properties that hold were stated around them, by
name. Where a constant decides, setting it in the cfg shows the counterexample.

- *A publish during a render is lost* (`hooks.ts:1180`): the render, of old content, is stored after
  the eviction and served until its TTL, though the docs say a page is served "until a publish
  thaws it". `OriginThawed` excepts exactly that put (`Overtaken`), and `NeverGoesBack` says what remains
  true of the request path.
- *A response under way refills the edge after its purge* (`freeze/registry.ts:180`): it left the origin
  before the evict and is stored after the purge. `EdgeThawedByURL` excepts it (`OnItsWay`).
- *The edge keeps pages the origin dropped* (`freeze/memory-store.ts:58`): a tag's eviction names
  only the keys still held, so an edge copy of a page the memory store dropped is not purged.
- *A receipt filed during evictByTag is deleted with the set* (`freeze/adapters/valkey.ts:123`): with
  `Adapter = "redis"` in `FreezeThaw.cfg`, `ReceiptKept` fails. So does `OriginThawed`: the tag's members are read
  after a put has stored its page and before it has filed the receipt, or an overtaken render is put between the
  batches of an evict (the form that covers this, `OriginThawedByURL`, is proved for every store). And so does
  `EdgeThawedByURL`: the purge may land, and the edge refill, before the evict it was started with is over. All three
  hold, and are proved, in memory.
- *A batch's parcel is ticketed on arrival* (`runtime/frame-nav.ts:157`): rendered before a
  command's answer, it overwrites it, though `frame-store.ts:10` says tickets are drawn at request time. So
  `FrameRegister` orders fetches only.
- *A gesture does not drain the queue* (`runtime/core.ts:813`): an island whose code is queued becomes
  a `user` download, which `load-scheduler.ts:12` says never waits, and waits for the next drain.
- *One timer serves every hold* (`runtime/schedule.ts:245`): the comment says the earliest wait wins; the
  first one asked for does, so an earlier wait asked for later rides it. `TurnsComeUp` holds all the same.
- *A run can end on its island's next stay* (`runtime/core.ts:1278`, `1326`): torn down and put back while
  it awaits its snippets, an island's old run disarms the capture armed by the return, and the
  return's start joined that run: the island stays cold. It is the verdict `forgotten` in `WakeIsKept`.
- *A start turned away by the fetch of an earlier stay* (`runtime/core.ts:1022`, `1088`): the old fetch
  of a hole that left and came back swallows its error, and nothing asks again: the verdict `dropped`.
- *A renewal while a fetch is under way is dropped* (`runtime/core.ts:1009`): `#renew` calls `#fetch_html`,
  which returns at `#fetching`; the hole keeps the answer of its old address until the next renewal.
- *An aborted fetch leaves its hole on its fallback* (`runtime/core.ts:1088`): the catch returns on any
  `AbortError`, also when the element is there and a twin's abandon (`runtime/core.ts:1483`, finding above) aborted the
  request it waited for. `#scheduled` stays set and nothing is retried: the verdict `aborted`.
- *A joiner of a reservation may wait for ever* (`runtime/frame-store.ts:253`, `264`): a revalidate replaces the slot, or
  the last to abandon empties it, and the batch settles what it no longer finds there. `#fetching` stays set, so
  later starts are turned away too: the verdict `orphaned`.
- *Stylesheets decide the order of two frames* (`runtime/core.ts:908`): each `#apply` awaits its own, so
  an older frame with a slow sheet is applied last, though the comment at 1060 says a stale response
  cannot overwrite a newer one. `ShowsItsFrame` excepts it (`overtaken`).
- *A queued start outlives its element's stay* (`runtime/core.ts:765`): the background queue has no
  withdrawal, so `#server` runs for a detached element, binds and fetches, and what is replayed to it is dropped at
  `isConnected`. The properties of `Hole` speak of stays that are not spoiled by one (`strayed`).
- *A failed revalidate is not retried once the hole is done* (`runtime/core.ts:1152`): its timer returns at `#done`.
- *A hole filled by another channel after a failure or a verdict is not woken*: a retry
  returns at `#done`, and no run of `#server` arms the second phase. `AnsweredIsWoken` therefore speaks of
  holes that never failed and have no verdict.
- *A link handed over to a download is dead afterwards* (`runtime/router.ts:394`, `runtime/router-nav.ts:606`): the
  hand-off leaves `nav_target` at the clicked address, and if the browser keeps the document (a download, a 204) the
  next click on the link is swallowed, and the address bar shows the page that was never shown.
  `ClaimIsInFlight` allows it by name (`stayed`).
- *A capability with a `ttl` of one second lives two* (`server/endpoint.ts:68`): windows are at least a
  second, so "at most `ttl`" does not hold there.
- *A timed-out render goes on* (`hooks.ts:1958`): its slot is given back while it runs, so
  the gate bounds slots, not renders.

## Proofs

The theorems hold for every value of the constants that meets the modules' named
assumptions (distinct names; `Named`, `Known`, `PersonalKey`, `Reads` well-typed; finite
downloads, islands and requests; natural windows, waits, limits and bounds). Some state a
further hypothesis, always one that the code does not ensure in general and that TLC shows to be needed:
`SlowerThanEviction = FALSE` (no fetch outlives the eviction timer), `Adapter = "memory"`,
and `NoBarging` of the gate. What is lost without it is
among the divergences above; the theorem says that nothing else can go wrong.

**FreezeProofs.** `TypeCorrect`, `PersonalStaysPersonal`, `RenderedOncePerThaw`,
`StoreMovesForward`. "One render per thaw" is not inductive: nothing in it says why
a second renderer cannot be at work. `IInv` adds ownership (`OwnsFlight`: whoever
captures a page is its registered flight; `FlightOwned`: a registered flight belongs to a
request still capturing it, or failed), `NotStoredYet` (while it renders the store has no
entry of that page), `MissFindsFlight` (a reader that missed before a put finds the flight,
by the order of replies), what each stage holds (`GotOK`, `StoreCanonical`) and
`ReadFresh` (what is being rendered is at least as new as anything ever stored). The
action properties then follow from `IInv` step by step. `JoinersWaitForSomebody` is the safety core of
`AnsweredUnlessFlightFailed`: the flight a joiner waits on is of its own page and is still captured by its request,
or has settled, or its request failed. A capture that ends any other way than by settling would break it.

**FreezeThawProofs.** `TypeCorrect` on every store; `ReceiptsFindTheirPages`, `OriginIsThawed`,
`EdgeIsThawedByURL` with `Adapter = "memory"` (over a network they are false, see above). The last two are action
properties: no step brings an old page to the origin (to the edge) but the put of an overtaken render (the arrival
of a response that was on its way). The invariant says that
nobody is inside a call while a thaw is between evictByTag's commands (`Atomic`), so that the members
read are still the tag's set and none of them is stored again before the set goes (`Evicting`); that
a thaw's version is at most its document's, and that a thaw by URL has evicted everything
it names before its purge may land (`Subject`). `OriginIsThawed` needs `ReceiptKept`: what is not in the tag's
set is not stored. `OriginIsThawedByURL` needs no memory store: an eviction by URL or subtree deletes what it
names without reading the index first, and once it deleted a page only the put of an overtaken render stores it from
before the thaw (`ByTag`, `NamedStep`).

**LoadSchedulerProofs.** `TypeCorrect`, `WindowIsKept`, `ScrollIsWatched`,
`NothingOvertakes`. The window needs a counting lemma (`RoomForAll`): a drain starts a
background download exactly when fewer than the free slots are sorted before it;
"number of ready downloads before it" is one-to-one on the started ones because arrival
numbers are distinct (`Ordered`), so they are at most as many as the free slots.
`WindowIsUsed` is the converse and the safety core of `Starts`: what stays queued waits for the gate's elements,
which somebody asked for (`GateAsked`), or the window is full. After a drain, the first download in order
that was left (`FirstLeft`, a least element by `WFMin`) had as many ready ones before it as there were free slots, and
all of those started (`WindowFills`). Downloads that follow the viewport are left out: a moved class drains only
with the next frame, a gesture not at all (see the divergences).

**FrameStoreProofs.** `BaseHolds`, `TypeCorrect`, `BoundShowsContent` for every instance;
`TicketsHold`, `AwaitedKept`, `FetchesNeverReorder` under `SlowerThanEviction = FALSE`.
`FetchesInOrder` relates only two applied frames; the invariant behind it says of the fetches
under way that they drew their tickets from the entry that is still there
(`FlyingKept`), that tickets order them as they began (`FlyingOrdered`), and that one which
could still overwrite the applied frame began after it (`AppliedFirst`). `OverwriteIsAnswer`
shows that only an `answer` under a ticket above the applied version replaces a fetch's
frame by a fetch's.

The refinement is `StoreImplementsRegister`: under `SlowerThanEviction = FALSE`, every step of
`FrameStore` is a step of `FrameRegister` or leaves it unchanged (`RegisterStep`). Most actions are quiet
(`QuietRefines`); the writes go through one lemma (`WriteRefines`) whose `InOrder` comes from
`AppliedFirst` (a fetch that can still overwrite began later). The timer is
`Forget` when it drops the entry, which `evict` does only while nobody is bound, and a stutter otherwise.

**NavigationProofs.** `TypeCorrect`, `LastOneIsShown`, `ClaimsAreInFlight`, `JoinersAreResumed`, for
any navigations and histories of any length. None is inductive: a type is lost where a swap shows a page
that never came (`Answered`); the latest navigation is the one shown because it alone is never dropped
and nobody else swaps (`LatestOK`), unless it was handed to a browser that kept the document (`stayed`); whoever the chunk resumes was still waiting (`Queue`, about
the sequence of those who wait); a joiner's prefetch is alive because the map only registers
live ones (`Registered`) and its end resumes all joiners in the same step (`Joined`).

**RegionServerProofs.** `Invariant` proves `IInv`: the types, `GateIsExact`'s two halves, `Queue` (who waits is queued, once,
and who was called is queued), `MemoIsKeyed` (an entry's HTML is of its key, and expires at
most the ttl after the moment it was read), `Served` (what a request knows at each stage) and `AnswerIsOwn`.
The gate's count needs the sets of renders before and after a step to differ by one element.
`CapHoldsWithoutBarging` adds to the slots taken those promised to waiters called (`SlotsPromised`): together they
stay within the limit unless somebody asks in between, which is what the finding's trace does.
`HolesOutliveTheirPage` is arithmetic over `Capability`: `HoleOutlivesDocument` shows that a
window-aligned expiry covers a shared lifetime when the mint doubles it, assuming twice the shared
lifetime is within the prerender lifetime (`StoredTtl`); for longer ones the cap cuts it and renewal is the rescue.

**HydrationProofs.** `IInv` is the types, `Placed` (an app is attached; a region scheduled is in the document
or its teardown is queued; a teardown queued has left), `Runs` (`ScheduleIsExact`, and a run at `import` is
in `loading` unless its island left) and `WakeIsKept`. `ViewportComesFirst` follows for a `Drain` from `First`, `Held` and
`Runs`, and for a withdrawal because the island that got its turn is no longer scheduled.

`ClicksAreNotLost` goes through the ends of a run (`Ends`): nothing else takes clicks a region holds. `TurnsAreWatched`
is the safety core of `TurnsComeUp`: while anybody waits for a turn a drain is queued or the timer is set, though one
timer serves every hold and anybody may leave; that it fires is fairness.

**HoleProofs.** `TypeCorrect`, `ListensThere` (a hole with a fetch of its own is bound where it asks),
`FallbackNeverForgotten`, `AnsweredNeverStaysDead` and `ShownIsApplied` hold for all constants and
assume nothing of the order of stylesheets or of when a queued start runs; what the code does not prevent is in the properties by name (the verdicts,
`strayed`, `overtaken`). The invariant is in layers, each proved on the one before. `Base`: the element
asks where it is bound, a fetch of this stay is for that address, one that is orphaned has that verdict, a retry is set
only after a failure. `Place`: an
element that is gone is bound nowhere, and one that is there has taken what is applied at its address, or that frame
is awaiting its stylesheet (`Delivered`): a start that strays breaks both, binding an
element whose frames are dropped at `isConnected`, until the next teardown. `Pending`: an unanswered element will ask
(armed, started, retried), asks, is about to be filled, or has a verdict. `Waking`: an interactive hole bound and never
failed was woken, or has a verdict, or a run of `#server` fetches for it or awaits a frame that will still
go in. `ShowsLast`: the last frame to go in (`Due`) is the one applied where the hole is bound, unless that one
overtook; any of the waiting frames may go in first. The lemmas on that sequence (`Appended`, and `Removed`: what is left without any
one position) rest on `SequenceTheorems`.

**Only model-checked.** Liveness (`AnsweredUnlessFlightFailed`, `Starts`, `TurnsComeUp`, `Settles`,
`WaiterEnters`) and all violations. The provers have neither fairness nor ENABLED; of the first three the safety
core is proved (`JoinersWaitForSomebody`, `WindowIsUsed`, `TurnsAreWatched`), of the last two the invariants
say as much: `Pending` that a hole unfilled is owed something, `GateIsExact` that no slot idles while a request queues.

## Not modelled

In the components above: lakes, live regions, nested islands and Kit-hydrated pages of
the region element; page streaming, the document tail, stitching and the transform of the server; fragments and
scroll of the router. Morphing,
parsing, the wire format, the compiler, the vite plugin and the content layer are pure
functions of trees and text, whose data a small instance abstracts away; the ref hub is taken as
atomic notification; flags, devtools, the profiler, MCP
server and CLI decide nothing in a running page. They are most of the repository's lines, which is
why the map covers a small share of them.
