--------------------------- MODULE FrameStoreProofs ---------------------------
(* FrameStore for every set of regions, fetches, batches and commands: what  *)
(* is bound shows what the store holds, and, as long as no fetch outlives    *)
(* the eviction timer, tickets order fetches as they began, an awaited fetch *)
(* keeps its entry and the store implements FrameRegister.                   *)
EXTENDS FrameStore, TLAPS

\* The fetches under way.
Flying == {f \in Fetch : request[f] = "flying"}

\* A fetch under way drew its ticket from the entry that is still there.
FlyingKept ==
  \A f \in Flying : entry # None /\ ticket[f] \in 1 .. entry.seq

\* Tickets order the fetches under way as they began.
FlyingOrdered ==
  \A f, g \in Flying : ticket[g] > ticket[f] => began[g] > began[f]

\* A fetch that could still overwrite the applied one began after it.
AppliedFirst ==
  entry # None /\ entry.html \in Fetch =>
    \A g \in Flying : ticket[g] > entry.v => began[g] > began[entry.html]

\* A fetch whose frame is applied has been sent.
AppliedSent == entry # None /\ entry.html \in Fetch => request[entry.html] # "idle"

\* Nothing began after now.
BeganBefore == \A q \in Request : began[q] <= clock

\* The invariant of every instance, and what the eviction's premise adds.
Base == TypeOK /\ BoundSeesContent
Tickets == FlyingKept /\ FlyingOrdered /\ AppliedFirst /\ AppliedSent /\ BeganBefore

-----------------------------------------------------------------------------
(* Types and what the bound regions see.                                     *)

\* The entry an operation works on.
LEMMA EntryOfType == TypeOK => entryOf \in Entry
  BY RequestAssumption DEF TypeOK, entryOf, Entry

\* Writing a frame keeps the types, and every bound region sees the result.
LEMMA WriteKeeps ==
  ASSUME TypeOK, NEW e \in Entry, NEW q \in Request, NEW v \in Nat,
         \A r \in bound : e.html # None => painted[r] = e.html,
         write(e, q, v), bound' = bound
  PROVE /\ entry' \in Entry
        /\ awaits' \in [Region -> Fetch \cup Batch \cup {Joining, None}]
        /\ painted' \in [Region -> Request \cup {None}]
        /\ BoundSeesContent'
<1>1. /\ e.v \in Nat /\ e.seq \in Nat /\ e.html \in Request \cup {None}
      /\ e.inflight \in Fetch \cup Batch \cup {None} /\ e.evict \in BOOLEAN
  BY DEF Entry
<1>2. entry' \in Entry
<2> DEFINE applied == [e EXCEPT !.v = v, !.html = q, !.seq = IF v > @ THEN v ELSE @,
                                !.inflight = IF @ \in Batch THEN None ELSE @]
<2>1. applied \in Entry
  BY <1>1 DEF Entry
<2>2. schedule_evict(applied, bound) \in Entry
  BY <2>1 DEF schedule_evict, Entry
<2> QED
  BY <2>2 DEF write
<1>3. entry' # None
  BY <1>2, EntryAssumption
<1>4. awaits' \in [Region -> Fetch \cup Batch \cup {Joining, None}]
  BY DEF write, TypeOK
<1>5. painted' \in [Region -> Request \cup {None}]
  BY DEF write, TypeOK
<1>6. ASSUME NEW r \in bound', entry'.html # None PROVE painted'[r] = entry'.html
  BY <1>6, <1>1 DEF write, Newer, schedule_evict, TypeOK, Entry
<1> QED
  BY <1>2, <1>3, <1>4, <1>5, <1>6 DEF BoundSeesContent

\* An entry whose slot was taken under a fresh ticket.
LEMMA SlotTaken ==
  ASSUME NEW e \in Entry, NEW q \in Fetch \cup Batch,
         NEW held, held = [e EXCEPT !.seq = @ + 1, !.inflight = q]
  PROVE held \in Entry /\ held.html = e.html /\ held.v = e.v /\ held.seq = e.seq + 1
<1>1. /\ e.v \in Nat /\ e.seq + 1 \in Nat /\ e.html \in Request \cup {None}
      /\ e.evict \in BOOLEAN
  BY DEF Entry
<1>2. held = [v |-> e.v, html |-> e.html, seq |-> e.seq + 1, inflight |-> q, evict |-> e.evict]
  BY DEF Entry
<1> QED
  BY <1>1, <1>2 DEF Entry

\* Taking or sharing the in-flight slot keeps the types, and applies nothing.
LEMMA SlotKeeps ==
  ASSUME TypeOK, NEW e \in Entry, NEW f \in Fetch,
         start(e, f) \/ (e.inflight # None /\ join(e))
  PROVE /\ entry' \in Entry /\ entry'.html = e.html
        /\ waiters' \in [Request -> Nat] /\ ticket' \in [Request -> Nat]
        /\ request' \in [Request -> {"idle", "flying", "ended", "aborted"}]
        /\ began' \in [Request -> Nat] /\ clock' \in Nat
<1>1. f \in Request
  BY DEF Request
<1>2. CASE start(e, f)
  <2>1. entry' \in Entry /\ entry'.html = e.html
    BY <1>2, SlotTaken DEF start
  <2>2. e.seq + 1 \in Nat
    BY DEF Entry
  <2>3. waiters' \in [Request -> Nat] /\ ticket' \in [Request -> Nat]
    BY <1>1, <1>2, <2>2 DEF start, TypeOK
  <2>4. /\ request' \in [Request -> {"idle", "flying", "ended", "aborted"}]
        /\ began' \in [Request -> Nat] /\ clock' \in Nat
    BY <1>1, <1>2 DEF start, TypeOK
  <2> QED
    BY <2>1, <2>3, <2>4
<1>3. CASE e.inflight # None /\ join(e)
  BY <1>3 DEF join, TypeOK, Entry, Request
<1> QED
  BY <1>2, <1>3

\* So do `ensure` and `#fetch_html`.
LEMMA FetchKeeps ==
  ASSUME TypeOK, NEW r \in Region, NEW e \in Entry, NEW f \in Fetch,
         fetch_html(r, e, f)
  PROVE /\ entry' \in Entry /\ entry'.html = e.html
        /\ waiters' \in [Request -> Nat] /\ ticket' \in [Request -> Nat]
        /\ request' \in [Request -> {"idle", "flying", "ended", "aborted"}]
        /\ began' \in [Request -> Nat] /\ clock' \in Nat
        /\ awaits' \in [Region -> Fetch \cup Batch \cup {Joining, None}]
<1>1. CASE e.html # None /\ ensure(r, e, f)
  BY <1>1 DEF ensure, TypeOK
<1>2. CASE e.html = None /\ e.inflight # None /\ ensure(r, e, f)
  <2>1. join(e) /\ awaits' = [awaits EXCEPT ![r] = e.inflight]
    BY <1>2 DEF ensure
  <2>2. awaits' \in [Region -> Fetch \cup Batch \cup {Joining, None}]
    BY <2>1 DEF TypeOK, Entry
  <2> QED
    BY <1>2, <2>1, <2>2, SlotKeeps
<1>3. CASE e.html = None /\ e.inflight = None /\ ensure(r, e, f)
  <2>1. start(e, f) /\ awaits' = [awaits EXCEPT ![r] = f]
    BY <1>3 DEF ensure
  <2>2. awaits' \in [Region -> Fetch \cup Batch \cup {Joining, None}]
    BY <2>1 DEF TypeOK
  <2> QED
    BY <2>1, <2>2, SlotKeeps
<1>4. CASE ~ensure(r, e, f)
  BY <1>4 DEF fetch_html, TypeOK
<1> QED
  BY <1>1, <1>2, <1>3, <1>4

\* Applying nothing keeps what the bound regions see.
LEMMA SameContent ==
  ASSUME Base, entry' \in Entry, entry'.html = entryOf.html,
         bound' = bound, painted' = painted
  PROVE BoundSeesContent'
  BY EntryAssumption DEF Base, BoundSeesContent, entryOf

\* The initial states.
LEMMA InitBase == Init => Base
  BY RequestAssumption DEF Init, Base, TypeOK, BoundSeesContent

\* Every step keeps the base invariant, one action at a time.
LEMMA BaseStep == Base /\ [Next]_vars => Base'
<1> SUFFICES ASSUME Base, [Next]_vars PROVE Base'
  OBVIOUS
<1> USE DEF Base
<1>0. entryOf \in Entry /\ (\A r \in bound : entryOf.html # None => painted[r] = entryOf.html)
  BY EntryOfType DEF BoundSeesContent, entryOf
<1>1. ASSUME NEW r \in Region, leave(r) PROVE Base'
  <2> DEFINE left == schedule_evict(entry, bound \ {r})
             q == entry.inflight
             last == q # None /\ LastWaiter(q)
  <2>1. entry \in Entry /\ r \in bound
    BY <1>1 DEF leave, BoundSeesContent, TypeOK
  <2>2. left \in Entry /\ left.html = entry.html
    BY <2>1 DEF schedule_evict, Entry
  <2>3. entry' \in Entry /\ entry'.html = entry.html
    BY <1>1, <2>2 DEF leave, Entry
  <2>4. waiters' \in [Request -> Nat]
    <3>1. q \in Request \cup {None}
      BY <2>1 DEF Entry, Request
    <3>2. CASE q = None
      BY <1>1, <3>2 DEF leave, TypeOK
    <3>3. CASE q # None
      <4>1. waiters' = [waiters EXCEPT ![q] = IF last THEN 0 ELSE @ - 1]
        BY <1>1, <3>3 DEF leave
      <4>2. waiters[q] \in Nat /\ (~last => waiters[q] > 1)
        BY <3>1, <3>3 DEF TypeOK, LastWaiter
      <4>3. (IF last THEN 0 ELSE waiters[q] - 1) \in Nat
        BY <4>2
      <4> HIDE DEF last, q
      <4> QED
        BY <4>1, <4>3 DEF TypeOK
    <3> QED
      BY <3>2, <3>3
  <2>5. request' \in [Request -> {"idle", "flying", "ended", "aborted"}]
    BY <1>1 DEF leave, TypeOK
  <2>6. awaits' \in [Region -> Fetch \cup Batch \cup {Joining, None}]
    BY <1>1 DEF leave, TypeOK
  <2>7. bound' = bound \ {r} /\ painted' = painted /\ UNCHANGED <<ticket, began, clock>>
    BY <1>1 DEF leave
  <2>8. BoundSeesContent'
    BY <2>1, <2>3, <2>7, EntryAssumption DEF BoundSeesContent
  <2> QED
    BY <2>3, <2>4, <2>5, <2>6, <2>7, <2>8 DEF TypeOK
<1>2. ASSUME NEW r \in Region, NEW f \in Fetch, connect(r, f) PROVE Base'
  <2> DEFINE e == unarmed
  <2>1. e \in Entry /\ e.html = entryOf.html
    BY <1>0 DEF Entry, unarmed
  <2>2. /\ bound' = bound \cup {r} /\ r \notin bound
        /\ painted' = [painted EXCEPT ![r] = Replayed(r, e)]
        /\ \/ fetch_html(r, e, f)
           \/ entry' = e /\ UNCHANGED <<waiters, request, ticket, awaits, began, clock>>
    BY <1>2 DEF connect
  <2>3. painted' \in [Region -> Request \cup {None}]
    BY <2>1, <2>2 DEF TypeOK, Replayed, Entry
  <2>4. /\ entry' \in Entry /\ entry'.html = e.html
        /\ waiters' \in [Request -> Nat] /\ ticket' \in [Request -> Nat]
        /\ request' \in [Request -> {"idle", "flying", "ended", "aborted"}]
        /\ began' \in [Request -> Nat] /\ clock' \in Nat
        /\ awaits' \in [Region -> Fetch \cup Batch \cup {Joining, None}]
    BY <2>1, <2>2, FetchKeeps DEF TypeOK
  <2>5. BoundSeesContent'
    BY <1>0, <2>1, <2>2, <2>4, EntryAssumption DEF BoundSeesContent, Replayed, TypeOK
  <2> QED
    BY <2>2, <2>3, <2>4, <2>5 DEF TypeOK
<1>3. ASSUME NEW r \in Region, NEW f \in Fetch, joined(r, f) \/ retry(r, f) PROVE Base'
  <2>1. fetch_html(r, entryOf, f) /\ bound' = bound /\ painted' = painted
    BY <1>3 DEF joined, retry, fetch_html
  <2> QED
    BY <1>0, <2>1, FetchKeeps, SameContent DEF TypeOK
<1>4. ASSUME NEW r \in Region, NEW f \in Fetch, revalidate(r, f) PROVE Base'
  <2>1. start(entryOf, f) /\ bound' = bound /\ painted' = painted
    BY <1>4 DEF revalidate
  <2>2. awaits' \in [Region -> Fetch \cup Batch \cup {Joining, None}]
    BY <1>4 DEF revalidate, TypeOK
  <2> QED
    BY <1>0, <2>1, <2>2, SlotKeeps, SameContent DEF TypeOK
<1>5. ASSUME NEW f \in Fetch, prefetch(f) PROVE Base'
  <2>1. /\ start(entryOf, f) \/ (entryOf.inflight # None /\ join(entryOf))
        /\ bound' = bound /\ painted' = painted /\ awaits' = awaits
    BY <1>5 DEF prefetch
  <2> QED
    BY <1>0, <2>1, SlotKeeps, SameContent DEF TypeOK
<1>6. ASSUME NEW f \in Fetch, answer(f) PROVE Base'
  <2>1. Cleared(f) \in Entry /\ Cleared(f).html = entryOf.html
    BY <1>0 DEF Cleared, Entry
  <2>2. f \in Request /\ ticket[f] \in Nat
    BY DEF Request, TypeOK
  <2>3. write(Cleared(f), f, ticket[f]) /\ bound' = bound
    BY <1>6 DEF answer
  <2>4. /\ waiters' \in [Request -> Nat] /\ UNCHANGED <<ticket, bound, began, clock>>
        /\ request' \in [Request -> {"idle", "flying", "ended", "aborted"}]
    BY <1>6, <2>2 DEF answer, TypeOK
  <2> QED
    BY <1>0, <2>1, <2>2, <2>3, <2>4, WriteKeeps DEF TypeOK
<1>7. ASSUME NEW f \in Fetch, fail(f) PROVE Base'
  <2>1. entry' \in Entry \cup {None} /\ (entry # None => entry'.html = entry.html /\ entry' \in Entry)
    BY <1>7, <1>0 DEF fail, Cleared, Entry, entryOf
  <2>2. /\ waiters' \in [Request -> Nat] /\ UNCHANGED <<ticket, bound, painted, began, clock>>
        /\ request' \in [Request -> {"idle", "flying", "ended", "aborted"}]
        /\ awaits' \in [Region -> Fetch \cup Batch \cup {Joining, None}]
    BY <1>7 DEF fail, TypeOK, Request
  <2>3. BoundSeesContent'
    BY <2>1, <2>2, EntryAssumption DEF BoundSeesContent
  <2> QED
    BY <2>1, <2>2, <2>3 DEF TypeOK
<1>8. ASSUME NEW b \in Batch, stream(b) PROVE Base'
  <2>1. entry' \in Entry /\ entry'.html = entryOf.html
    <3> DEFINE held == [unarmed EXCEPT !.seq = @ + 1, !.inflight = b]
    <3>1. unarmed \in Entry /\ unarmed.html = entryOf.html
      BY <1>0 DEF Entry, unarmed
    <3>2. held \in Entry /\ held.html = unarmed.html
      BY <3>1, SlotTaken
    <3> QED
      BY <1>8, <1>0, <3>1, <3>2 DEF stream
  <2>2. /\ began' \in [Request -> Nat] /\ clock' \in Nat
        /\ request' \in [Request -> {"idle", "flying", "ended", "aborted"}]
        /\ UNCHANGED <<waiters, ticket, bound, awaits, painted>>
    <3>1. clock + 1 \in Nat
      BY DEF TypeOK
    <3>2. began' \in [Request -> Nat] /\ clock' \in Nat
      BY <1>8, <3>1 DEF stream, TypeOK
    <3>3. request' \in [Request -> {"idle", "flying", "ended", "aborted"}]
      BY <1>8 DEF stream, TypeOK
    <3> QED
      BY <1>8, <3>2, <3>3 DEF stream
  <2>3. BoundSeesContent'
    BY <2>1, <2>2, SameContent
  <2> QED
    BY <2>1, <2>2, <2>3 DEF TypeOK
<1>9. ASSUME NEW q \in Batch \cup Command,
             request' = [request EXCEPT ![q] = "ended"],
             write([entryOf EXCEPT !.seq = @ + 1], q, entryOf.seq + 1),
             UNCHANGED <<waiters, ticket, bound, began, clock>>
      PROVE Base'
  <2> DEFINE e == [entryOf EXCEPT !.seq = @ + 1]
  <2>1. e \in Entry /\ e.html = entryOf.html /\ entryOf.seq + 1 \in Nat
    BY <1>0 DEF Entry
  <2>2. q \in Request
    BY DEF Request
  <2>3. request' \in [Request -> {"idle", "flying", "ended", "aborted"}]
    BY <1>9 DEF TypeOK
  <2> QED
    BY <1>0, <1>9, <2>1, <2>2, <2>3, WriteKeeps DEF TypeOK
<1>10. ASSUME NEW b \in Batch, parcel(b) PROVE Base'
  BY <1>9, <1>10 DEF parcel
<1>11. ASSUME NEW m \in Command, decode_region(m) PROVE Base'
  BY <1>9, <1>11 DEF decode_region
<1>12. ASSUME NEW b \in Batch, release(b) PROVE Base'
  <2>1. /\ entry' \in Entry \cup {None}
        /\ entry # None => entry'.html = entry.html /\ entry' \in Entry
    BY <1>12 DEF release, schedule_evict, Entry, TypeOK
  <2>2. /\ awaits' \in [Region -> Fetch \cup Batch \cup {Joining, None}]
        /\ request' \in [Request -> {"idle", "flying", "ended", "aborted"}]
        /\ UNCHANGED <<waiters, ticket, bound, painted, began, clock>>
    BY <1>12 DEF release, TypeOK
  <2>3. BoundSeesContent'
    BY <2>1, <2>2, EntryAssumption DEF BoundSeesContent
  <2> QED
    BY <2>1, <2>2, <2>3 DEF TypeOK
<1>13. ASSUME NEW m \in Command, call(m) PROVE Base'
  <2>1. /\ began' \in [Request -> Nat] /\ clock' \in Nat
        /\ request' \in [Request -> {"idle", "flying", "ended", "aborted"}]
        /\ UNCHANGED <<entry, waiters, ticket, bound, awaits, painted>>
    <3>1. clock + 1 \in Nat
      BY DEF TypeOK
    <3>2. began' \in [Request -> Nat] /\ clock' \in Nat
      BY <1>13, <3>1 DEF call, TypeOK
    <3>3. request' \in [Request -> {"idle", "flying", "ended", "aborted"}]
      BY <1>13 DEF call, TypeOK
    <3> QED
      BY <1>13, <3>2, <3>3 DEF call
  <2> QED
    BY <2>1 DEF TypeOK, BoundSeesContent
<1>14. ASSUME evict PROVE Base'
  <2>1. entry' \in Entry \cup {None} /\ (bound # {} => entry' \in Entry /\ entry'.html = entry.html)
    BY <1>14 DEF evict, TypeOK, Entry
  <2>2. BoundSeesContent'
    BY <1>14, <2>1, EntryAssumption DEF evict, BoundSeesContent
  <2> QED
    BY <1>14, <2>1, <2>2 DEF evict, TypeOK
<1>15. ASSUME UNCHANGED vars PROVE Base'
  BY <1>15 DEF vars, TypeOK, BoundSeesContent
<1> QED
  BY <1>1, <1>2, <1>3, <1>4, <1>5, <1>6, <1>7, <1>8, <1>10, <1>11, <1>12, <1>13, <1>14, <1>15 DEF Next

-----------------------------------------------------------------------------
(* Tickets.                                                                  *)

\* The same content, version and tickets, on the address's entry.
SameFrame(e) == /\ e \in Entry /\ e.html = entryOf.html /\ e.v = entryOf.v
                /\ e.seq = entryOf.seq

\* A step that starts no fetch and applies no frame keeps what tickets say.
LEMMA QuietKeeps ==
  ASSUME Base, Tickets, Flying' \subseteq Flying, ticket' = ticket,
         BeganBefore', \A f \in Fetch : began'[f] = began[f],
         \A f \in Fetch : request[f] # "idle" => request'[f] # "idle",
         entry' \in Entry, entry'.html = entryOf.html, entry'.v = entryOf.v,
         entry'.seq >= entryOf.seq
  PROVE Tickets'
<1>1. entryOf \in Entry /\ \A f \in Flying : ticket[f] \in Nat
  BY EntryOfType DEF Base, TypeOK, Flying, Request
<1>2. entry'.seq \in Nat /\ entryOf.seq \in Nat /\ entry' # None
  BY <1>1, EntryAssumption DEF Entry
<1>3. FlyingKept'
  BY <1>1, <1>2 DEF Tickets, FlyingKept, entryOf
<1>4. FlyingOrdered'
  BY DEF Tickets, FlyingOrdered, Flying
<1>5. AppliedFirst'
  <2>1. CASE entry = None
    BY <2>1 DEF Tickets, FlyingKept, AppliedFirst
  <2>2. CASE entry # None
    BY <2>2 DEF Tickets, AppliedFirst, entryOf, Flying
  <2> QED
    BY <2>1, <2>2
<1>6. AppliedSent'
  BY RequestAssumption DEF Tickets, AppliedSent, entryOf, Request
<1> QED
  BY <1>3, <1>4, <1>5, <1>6 DEF Tickets

\* A fetch that starts has the highest ticket and began last.
LEMMA StartKeeps ==
  ASSUME Base, Tickets, NEW e, SameFrame(e), NEW f \in Fetch, start(e, f)
  PROVE Tickets'
<1>1. /\ f \in Request /\ e \in Entry /\ e.seq \in Nat /\ clock \in Nat
      /\ \A q \in Request : began[q] \in Nat /\ ticket[q] \in Nat
  BY DEF Base, TypeOK, SameFrame, Entry, Request
<1>2. entry' \in Entry /\ entry'.html = e.html /\ entry'.v = e.v /\ entry'.seq = e.seq + 1
  BY <1>1, SlotTaken DEF start
<1>3. /\ ticket' = [ticket EXCEPT ![f] = e.seq + 1]
      /\ began' = [began EXCEPT ![f] = clock + 1] /\ clock' = clock + 1
      /\ Flying' \subseteq Flying \cup {f} /\ f \notin Flying
  BY <1>1 DEF start, Flying, Base, TypeOK
<1>4. ticket'[f] = e.seq + 1 /\ began'[f] = clock + 1
  BY <1>1, <1>3 DEF Base, TypeOK
<1>5. \A q \in Request : q # f => ticket'[q] = ticket[q] /\ began'[q] = began[q]
  BY <1>1, <1>3 DEF Base, TypeOK
<1>6. \A g \in Flying : g \in Request /\ ticket[g] <= e.seq /\ began[g] <= clock
  BY <1>1 DEF Tickets, FlyingKept, BeganBefore, SameFrame, entryOf, Flying, Request
<1>7. FlyingKept'
  BY <1>1, <1>2, <1>3, <1>4, <1>5, <1>6, EntryAssumption DEF Tickets, FlyingKept
<1>8. FlyingOrdered'
  BY <1>1, <1>3, <1>4, <1>5, <1>6 DEF Tickets, FlyingOrdered
<1>9. BeganBefore'
  BY <1>1, <1>3, <1>4, <1>5 DEF Tickets, BeganBefore
<1>10. AppliedFirst'
  <2> SUFFICES ASSUME entry'.html \in Fetch, NEW g \in Flying', ticket'[g] > entry'.v
               PROVE began'[g] > began'[entry'.html]
    BY DEF AppliedFirst
  <2>1. e.html \in Fetch /\ entry # None /\ e.html = entry.html /\ e.v = entry.v
    BY <1>2, RequestAssumption DEF SameFrame, entryOf, Request
  <2>2. began[e.html] <= clock /\ e.html # f
    BY <2>1 DEF Tickets, BeganBefore, AppliedSent, Request, start
  <2>3. CASE g = f
    BY <1>1, <1>2, <1>4, <1>5, <2>1, <2>2, <2>3 DEF Request
  <2>4. CASE g # f
    BY <1>1, <1>2, <1>3, <1>5, <2>1, <2>2, <2>4 DEF Tickets, AppliedFirst, Request
  <2> QED
    BY <2>3, <2>4
<1>11. AppliedSent'
  BY <1>1, <1>2, RequestAssumption DEF Tickets, AppliedSent, SameFrame, entryOf, start, Request, Base, TypeOK
<1> QED
  BY <1>7, <1>8, <1>9, <1>10, <1>11 DEF Tickets

\* A frame that is written keeps what tickets say, under its fetch's own ticket
\* or by another channel.
LEMMA WriteTickets ==
  ASSUME Base, Tickets, NEW e \in Entry, e.html = entryOf.html, e.v = entryOf.v,
         e.seq >= entryOf.seq, NEW q \in Request, NEW v \in Nat,
         q \in Fetch => q \in Flying /\ v = ticket[q],
         write(e, q, v), request' = [request EXCEPT ![q] = "ended"],
         UNCHANGED <<ticket, bound, began, clock>>
  PROVE Tickets'
<1>1. /\ entry' \in Entry /\ entry' # None
      /\ \A r \in Request : began[r] \in Nat /\ ticket[r] \in Nat
      /\ e.seq \in Nat /\ e.v \in Nat /\ entryOf.seq \in Nat
  <2>1. \A r \in bound : e.html # None => painted[r] = e.html
    BY DEF Base, BoundSeesContent, entryOf
  <2> QED
    BY <2>1, WriteKeeps, EntryOfType, EntryAssumption DEF Base, TypeOK, Entry
<1>2. /\ entry'.seq >= e.seq
      /\ \/ entry'.html = e.html /\ entry'.v = e.v
         \/ entry'.html = q /\ entry'.v = v
  BY <1>1 DEF write, Newer, schedule_evict, Entry
<1>3. Flying' = Flying \ {q} /\ \A f \in Fetch : request[f] # "idle" => request'[f] # "idle"
  BY DEF Flying, Base, TypeOK, Request
<1>4. FlyingKept'
  <2> SUFFICES ASSUME NEW g \in Flying' PROVE entry' # None /\ ticket'[g] \in 1 .. entry'.seq
    BY DEF FlyingKept
  <2>1. g \in Flying /\ g \in Request
    BY <1>3 DEF Flying, Request
  <2>2. entry # None /\ ticket[g] \in 1 .. entry.seq
    BY <2>1 DEF Tickets, FlyingKept
  <2>3. entryOf.seq = entry.seq
    BY <2>2 DEF entryOf
  <2>4. entry'.seq \in Nat /\ entry'.seq >= entry.seq
    BY <1>1, <1>2, <2>3 DEF Entry
  <2> QED
    BY <1>1, <2>2, <2>3, <2>4
<1>5. FlyingOrdered' /\ BeganBefore'
  BY <1>3 DEF Tickets, FlyingOrdered, BeganBefore
<1>6. AppliedSent'
  <2>1. CASE entry'.html = e.html
    BY <1>3, <2>1, RequestAssumption DEF Tickets, AppliedSent, entryOf, Request
  <2>2. CASE entry'.html = q
    BY <2>2 DEF AppliedSent, Base, TypeOK
  <2> QED
    BY <1>2, <2>1, <2>2
<1>7. AppliedFirst'
  <2>1. CASE entry'.html = e.html /\ entry'.v = e.v
    BY <1>3, <2>1, RequestAssumption DEF Tickets, AppliedFirst, entryOf, Request
  <2>2. CASE entry'.html = q /\ entry'.v = v
    BY <1>3, <2>2 DEF Tickets, AppliedFirst, FlyingOrdered
  <2> QED
    BY <1>2, <2>1, <2>2
<1> QED
  BY <1>4, <1>5, <1>6, <1>7 DEF Tickets

\* The initial states.
LEMMA InitTickets == Init => Tickets
  BY DEF Init, Tickets, FlyingKept, FlyingOrdered, AppliedFirst, AppliedSent, BeganBefore, Flying, Request

\* So does a step that leaves the entry alone.
LEMMA IdleKeeps ==
  ASSUME Base, Tickets, entry' = entry, Flying' \subseteq Flying, ticket' = ticket,
         BeganBefore', \A f \in Fetch : began'[f] = began[f],
         \A f \in Fetch : request[f] # "idle" => request'[f] # "idle"
  PROVE Tickets'
<1>1. FlyingKept' /\ FlyingOrdered' /\ AppliedSent'
  BY DEF Tickets, FlyingKept, FlyingOrdered, AppliedSent, Flying
<1>2. AppliedFirst'
  BY DEF Tickets, AppliedFirst, Flying
<1> QED
  BY <1>1, <1>2 DEF Tickets

\* Whatever a region asks of the store keeps what tickets say.
LEMMA AskKeeps ==
  ASSUME Base, Tickets, NEW e, SameFrame(e), NEW r \in Region, NEW f \in Fetch,
         \/ fetch_html(r, e, f)
         \/ start(e, f)
         \/ join(e)
         \/ entry' = e /\ UNCHANGED <<request, ticket, began, clock>>
  PROVE Tickets'
<1>1. CASE start(e, f)
  BY <1>1, StartKeeps
<1>2. CASE ~start(e, f)
  <2>1. entry' = e /\ UNCHANGED <<request, ticket, began, clock>>
    BY <1>2 DEF fetch_html, ensure, join
  <2>2. /\ entry' \in Entry /\ entry'.html = entryOf.html /\ entry'.v = entryOf.v
        /\ entry'.seq >= entryOf.seq
    BY <2>1 DEF SameFrame, Entry
  <2>3. Flying' \subseteq Flying /\ BeganBefore'
    BY <2>1 DEF Flying, Tickets, BeganBefore
  <2> QED
    BY <2>1, <2>2, <2>3, QuietKeeps
<1> QED
  BY <1>1, <1>2

\* The entry an operation works on has the entry's frame, armed or not.
LEMMA FramesOf == Base => SameFrame(entryOf) /\ SameFrame(unarmed)
  BY EntryOfType DEF Base, SameFrame, unarmed, Entry

\* Every step keeps what tickets say, if no fetch outlives the eviction timer.
LEMMA TicketsStep ==
  ASSUME SlowerThanEviction = FALSE, Base, Tickets, [Next]_vars
  PROVE Tickets'
<1>0. entryOf \in Entry /\ entryOf.seq \in Nat /\ \A f \in Fetch : f \in Request
  BY EntryOfType DEF Base, Entry, Request
<1>1. ASSUME NEW r \in Region, leave(r) PROVE Tickets'
  <2>1. entry \in Entry /\ entry = entryOf
    BY <1>1, EntryAssumption DEF leave, Base, TypeOK, BoundSeesContent, entryOf
  <2> DEFINE left == schedule_evict(entry, bound \ {r})
  <2>2. /\ left \in Entry /\ left.html = entry.html /\ left.v = entry.v
        /\ left.seq = entry.seq
    BY <2>1 DEF schedule_evict, Entry
  <2>3. entry' = left \/ entry' = [left EXCEPT !.inflight = None]
    BY <1>1 DEF leave
  <2>4. /\ entry' \in Entry /\ entry'.html = left.html /\ entry'.v = left.v
        /\ entry'.seq = left.seq
    <3> HIDE DEF left
    <3> QED
      BY <2>2, <2>3 DEF Entry
  <2>5. /\ entry' \in Entry /\ entry'.html = entryOf.html /\ entry'.v = entryOf.v
        /\ entry'.seq >= entryOf.seq
    BY <1>0, <2>1, <2>2, <2>4
  <2>6. /\ Flying' \subseteq Flying /\ BeganBefore'
        /\ \A g \in Fetch : request[g] # "idle" => request'[g] # "idle"
    BY <1>1 DEF leave, Flying, Tickets, BeganBefore, Base, TypeOK
  <2> QED
    BY <1>1, <2>5, <2>6, QuietKeeps DEF leave
<1>2. ASSUME NEW r \in Region, NEW f \in Fetch, connect(r, f) PROVE Tickets'
  <2>1. \/ fetch_html(r, unarmed, f)
        \/ entry' = unarmed /\ UNCHANGED <<request, ticket, began, clock>>
    BY <1>2 DEF connect
  <2> QED
    BY <2>1, FramesOf, AskKeeps
<1>3. ASSUME NEW r \in Region, NEW f \in Fetch,
             joined(r, f) \/ retry(r, f) \/ revalidate(r, f)
      PROVE Tickets'
  <2>1. fetch_html(r, entryOf, f) \/ start(entryOf, f)
    BY <1>3 DEF joined, retry, revalidate, fetch_html
  <2> QED
    BY <2>1, FramesOf, AskKeeps
<1>4. ASSUME NEW f \in Fetch, prefetch(f) PROVE Tickets'
  <2>1. CASE start(entryOf, f)
    BY <2>1, FramesOf, StartKeeps
  <2>2. CASE ~start(entryOf, f)
    <3>1. entry' = entryOf /\ UNCHANGED <<request, ticket, began, clock>>
      BY <1>4, <2>2 DEF prefetch, join
    <3>2. Flying' \subseteq Flying /\ BeganBefore'
      BY <3>1 DEF Flying, Tickets, BeganBefore
    <3> QED
      BY <1>0, <3>1, <3>2, QuietKeeps
  <2> QED
    BY <2>1, <2>2
<1>5. ASSUME NEW f \in Fetch, answer(f) PROVE Tickets'
  <2>1. /\ Cleared(f) \in Entry /\ Cleared(f).html = entryOf.html
        /\ Cleared(f).v = entryOf.v /\ Cleared(f).seq >= entryOf.seq
    BY <1>0 DEF Cleared, Entry
  <2>2. f \in Flying /\ f \in Request /\ ticket[f] \in Nat
    BY <1>0, <1>5 DEF answer, Flying, Base, TypeOK
  <2> QED
    BY <1>0, <1>5, <2>1, <2>2, WriteTickets DEF answer
<1>6. ASSUME NEW f \in Fetch, fail(f) PROVE Tickets'
  <2>1. entry' = Cleared(f)
    BY <1>6 DEF fail, Tickets, FlyingKept, Flying
  <2>2. /\ entry' \in Entry /\ entry'.html = entryOf.html /\ entry'.v = entryOf.v
        /\ entry'.seq >= entryOf.seq
    BY <1>0, <2>1 DEF Cleared, Entry
  <2>3. /\ Flying' \subseteq Flying /\ BeganBefore'
        /\ \A g \in Fetch : request[g] # "idle" => request'[g] # "idle"
    BY <1>6 DEF fail, Flying, Tickets, BeganBefore, Base, TypeOK, Request
  <2> QED
    BY <1>6, <2>2, <2>3, QuietKeeps DEF fail
<1>7. ASSUME NEW q \in Batch \cup Command, request[q] = "idle",
             request' = [request EXCEPT ![q] = "flying"],
             began' = [began EXCEPT ![q] = clock + 1], clock' = clock + 1,
             ticket' = ticket
      PROVE /\ Flying' \subseteq Flying /\ BeganBefore'
            /\ \A g \in Fetch : began'[g] = began[g]
            /\ \A g \in Fetch : request[g] # "idle" => request'[g] # "idle"
  <2>1. q \notin Fetch /\ q \in Request
    BY RequestAssumption DEF Request
  <2>2. BeganBefore'
    BY <1>7, <2>1 DEF Tickets, BeganBefore, Base, TypeOK
  <2> QED
    BY <1>7, <2>1, <2>2, <1>0 DEF Flying, Base, TypeOK
<1>8. ASSUME NEW b \in Batch, stream(b) PROVE Tickets'
  <2>1. /\ entry' \in Entry /\ entry'.html = entryOf.html /\ entry'.v = entryOf.v
        /\ entry'.seq >= entryOf.seq
    <3> DEFINE held == [unarmed EXCEPT !.seq = @ + 1, !.inflight = b]
    <3>1. SameFrame(unarmed)
      BY FramesOf
    <3>2. held \in Entry /\ held.html = unarmed.html /\ held.v = unarmed.v /\ held.seq = unarmed.seq + 1
      BY <3>1, SlotTaken DEF SameFrame
    <3>3. entry' = held \/ entry' = entryOf
      BY <1>8 DEF stream
    <3> HIDE DEF held
    <3> QED
      BY <1>0, <3>1, <3>2, <3>3 DEF SameFrame
  <2> QED
    BY <1>7, <1>8, <2>1, QuietKeeps DEF stream
<1>9. ASSUME NEW m \in Command, call(m) PROVE Tickets'
  BY <1>7, <1>9, IdleKeeps DEF call
<1>10. ASSUME NEW q \in Batch \cup Command,
              request' = [request EXCEPT ![q] = "ended"],
              write([entryOf EXCEPT !.seq = @ + 1], q, entryOf.seq + 1),
              UNCHANGED <<ticket, bound, began, clock>>
       PROVE Tickets'
  <2> DEFINE e == [entryOf EXCEPT !.seq = @ + 1]
  <2>1. /\ e \in Entry /\ e.html = entryOf.html /\ e.v = entryOf.v
        /\ e.seq >= entryOf.seq /\ entryOf.seq + 1 \in Nat
    BY <1>0 DEF Entry
  <2>2. q \in Request /\ q \notin Fetch
    BY RequestAssumption DEF Request
  <2> QED
    BY <1>10, <2>1, <2>2, WriteTickets
<1>11. ASSUME NEW b \in Batch, parcel(b) PROVE Tickets'
  BY <1>10, <1>11 DEF parcel
<1>12. ASSUME NEW m \in Command, decode_region(m) PROVE Tickets'
  BY <1>10, <1>12 DEF decode_region
<1>13. ASSUME NEW b \in Batch, release(b) PROVE Tickets'
  <2>1. b \notin Fetch /\ b \in Request
    BY RequestAssumption DEF Request
  <2>2. /\ Flying' \subseteq Flying /\ BeganBefore' /\ UNCHANGED <<ticket, began>>
        /\ \A g \in Fetch : request[g] # "idle" => request'[g] # "idle"
    BY <1>13, <2>1, <1>0 DEF release, Flying, Tickets, BeganBefore, Base, TypeOK
  <2>3. CASE entry' = entry
    BY <2>2, <2>3, IdleKeeps
  <2>4. CASE entry # None /\ entry' = schedule_evict([entry EXCEPT !.inflight = None], bound)
    <3> DEFINE held == [entry EXCEPT !.inflight = None]
    <3>1. entry = entryOf /\ entry \in Entry
      BY <1>0, <2>4 DEF entryOf
    <3>2. /\ held \in Entry /\ held.html = entry.html /\ held.v = entry.v
          /\ held.seq = entry.seq
      BY <3>1 DEF Entry
    <3>3. /\ entry' \in Entry /\ entry'.html = held.html /\ entry'.v = held.v
          /\ entry'.seq = held.seq
      BY <2>4, <3>2 DEF schedule_evict, Entry
    <3> QED
      BY <1>0, <2>2, <3>1, <3>2, <3>3, QuietKeeps
  <2> QED
    BY <1>13, <2>3, <2>4 DEF release
<1>14. ASSUME evict PROVE Tickets'
  <2>1. entry # None /\ entry = entryOf /\ UNCHANGED <<request, ticket, began, clock>>
    BY <1>14 DEF evict, entryOf
  <2>2. Flying' = Flying /\ BeganBefore'
    BY <2>1 DEF Flying, Tickets, BeganBefore
  <2>3. CASE entry' = [entry EXCEPT !.evict = FALSE]
    <3>1. /\ entry' \in Entry /\ entry'.html = entry.html /\ entry'.v = entry.v
          /\ entry'.seq = entry.seq
      BY <1>0, <2>1, <2>3 DEF Entry
    <3> QED
      BY <1>0, <2>1, <2>2, <3>1, QuietKeeps
  <2>4. CASE entry' = None /\ entry.inflight = None
    <3>1. Flying = {}
      BY <1>14, <2>4, <1>0, RequestAssumption DEF evict, Flying
    <3> QED
      BY <2>1, <2>2, <2>4, <3>1
      DEF Tickets, FlyingKept, FlyingOrdered, AppliedFirst, AppliedSent
  <2> QED
    BY <1>14, <2>3, <2>4 DEF evict
<1>15. ASSUME UNCHANGED vars PROVE Tickets'
  BY <1>15, IdleKeeps DEF vars, Flying, Tickets, BeganBefore
<1> QED
  BY <1>1, <1>2, <1>3, <1>4, <1>5, <1>6, <1>8, <1>9, <1>11, <1>12, <1>13, <1>14, <1>15 DEF Next

\* The frame of a fetch gives way to another's only as that one's answer is
\* written, under a ticket above the applied version.
LEMMA OverwriteIsAnswer ==
  ASSUME Base, [Next]_vars, NEW f \in Fetch, NEW g \in Fetch,
         entryOf.html = f, entryOf'.html = g, f # g
  PROVE g \in Flying /\ ticket[g] > entry.v /\ entry # None /\ entry.html = f
<1>0. /\ f # None /\ g # None /\ entryOf \in Entry
      /\ entry # None /\ entry = entryOf /\ entry.html = f
      /\ entry' # None /\ entry'.html = g
  BY EntryOfType, RequestAssumption DEF Base, entryOf, Request
<1>1. ASSUME NEW r \in Region, leave(r) PROVE FALSE
  BY <1>0, <1>1 DEF leave, schedule_evict, Entry
<1>2. ASSUME NEW r \in Region, NEW h \in Fetch, NEW e, SameFrame(e),
             \/ fetch_html(r, e, h) \/ start(e, h) \/ join(e) \/ entry' = e
      PROVE FALSE
  BY <1>0, <1>2 DEF fetch_html, ensure, start, join, SameFrame, Entry
<1>3. ASSUME NEW r \in Region, NEW h \in Fetch,
             connect(r, h) \/ joined(r, h) \/ retry(r, h) \/ revalidate(r, h)
      PROVE FALSE
  <2>1. \E e : SameFrame(e) /\ (fetch_html(r, e, h) \/ start(e, h) \/ entry' = e)
    BY <1>3, FramesOf DEF connect, joined, retry, revalidate, fetch_html
  <2> QED
    BY <1>2, <2>1
<1>4. ASSUME NEW h \in Fetch, prefetch(h) PROVE FALSE
  BY <1>0, <1>4 DEF prefetch
<1>5. ASSUME NEW q \in Request, NEW e \in Entry, NEW v, e.html = f,
             write(e, q, v)
      PROVE q = g /\ v > e.v
  BY <1>0, <1>5 DEF write, Newer, schedule_evict, Entry
<1>6. ASSUME NEW h \in Fetch, answer(h) PROVE h = g /\ g \in Flying /\ ticket[g] > entry.v
  <2>1. Cleared(h) \in Entry /\ Cleared(h).html = f /\ Cleared(h).v = entry.v
    BY <1>0 DEF Cleared, Entry
  <2> QED
    BY <1>5, <1>6, <2>1 DEF answer, Flying, Request
<1>7. ASSUME NEW h \in Fetch, fail(h) PROVE FALSE
  BY <1>0, <1>7 DEF fail, Cleared, Entry
<1>8. ASSUME NEW b \in Batch, stream(b) PROVE FALSE
  BY <1>0, <1>8 DEF stream
<1>9. ASSUME NEW q \in Batch \cup Command,
             write([entryOf EXCEPT !.seq = @ + 1], q, entryOf.seq + 1)
      PROVE FALSE
  <2> DEFINE e == [entryOf EXCEPT !.seq = @ + 1]
  <2>1. e \in Entry /\ e.html = f
    BY <1>0 DEF Entry
  <2>2. q \in Request /\ q \notin Fetch
    BY RequestAssumption DEF Request
  <2> QED
    BY <1>5, <1>9, <2>1, <2>2
<1>10. ASSUME NEW b \in Batch, parcel(b) PROVE FALSE
  BY <1>9, <1>10 DEF parcel
<1>11. ASSUME NEW m \in Command, decode_region(m) PROVE FALSE
  BY <1>9, <1>11 DEF decode_region
<1>12. ASSUME NEW b \in Batch, release(b) PROVE FALSE
  BY <1>0, <1>12 DEF release, schedule_evict, Entry
<1>13. ASSUME NEW m \in Command, call(m) PROVE FALSE
  BY <1>0, <1>13 DEF call
<1>14. ASSUME evict PROVE FALSE
  BY <1>0, <1>14 DEF evict, Entry
<1>15. ASSUME UNCHANGED vars PROVE FALSE
  BY <1>0, <1>15 DEF vars
<1> QED
  BY <1>0, <1>1, <1>3, <1>4, <1>6, <1>7, <1>8, <1>10, <1>11, <1>12, <1>13, <1>14, <1>15 DEF Next

-----------------------------------------------------------------------------
(* The theorems.                                                             *)

\* In every instance the types hold, and every bound region shows the frame the
\* store holds (`notify`, and the replay of `subscribe`).
THEOREM BaseHolds == Spec => []Base
<1>1. Init => Base
  BY InitBase
<1>2. Base /\ [Next]_vars => Base'
  BY BaseStep
<1> QED
  BY <1>1, <1>2, PTL DEF Spec

\* The variables of the store, its regions and its requests keep their types.
THEOREM TypeCorrect == Spec => []TypeOK
<1>1. Base => TypeOK
  BY DEF Base
<1> QED
  BY <1>1, BaseHolds, PTL

\* A bound region has always applied the frame the store holds, whichever channel
\* wrote it, whether the region was there or bound since.
THEOREM BoundShowsContent == Spec => []BoundSeesContent
<1>1. Base => BoundSeesContent
  BY DEF Base
<1> QED
  BY <1>1, BaseHolds, PTL

\* Tickets order the fetches under way as they began, unless one outlives the
\* eviction timer (`ensure`, `write`, EVICT_TTL).
THEOREM TicketsHold ==
  ASSUME SlowerThanEviction = FALSE
  PROVE Spec => [](Base /\ Tickets)
<1>1. Init => Base /\ Tickets
  BY InitBase, InitTickets
<1>2. Base /\ Tickets /\ [Next]_vars => (Base /\ Tickets)'
  BY BaseStep, TicketsStep
<1> QED
  BY <1>1, <1>2, PTL DEF Spec

\* Eviction never drops the entry a fetch under way drew its ticket from, even by a
\* timer armed before the fetch began, unless the fetch outlives it.
THEOREM AwaitedKept ==
  ASSUME SlowerThanEviction = FALSE
  PROVE Spec => []AwaitedIsKept
<1>1. Base /\ Tickets => AwaitedIsKept
  <2> SUFFICES ASSUME Base, Tickets, NEW f \in Fetch, request[f] = "flying"
               PROVE entry # None /\ entry.seq >= ticket[f]
    BY DEF AwaitedIsKept
  <2>1. entry # None /\ ticket[f] \in 1 .. entry.seq
    BY DEF Tickets, FlyingKept, Flying
  <2>2. entry.seq \in Nat /\ ticket[f] \in Nat
    BY <2>1 DEF Base, TypeOK, Entry, Request
  <2> QED
    BY <2>1, <2>2
<1> QED
  BY <1>1, TicketsHold, PTL

\* A fetch that began earlier never overwrites one that began later: the frame
\* changes from a fetch's to a fetch's only in `answer`, under a newer ticket.
THEOREM FetchesNeverReorder ==
  ASSUME SlowerThanEviction = FALSE
  PROVE Spec => FetchesInOrder
<1> DEFINE Ordered == \A f, g \in Fetch :
             (entryOf.html = f /\ entryOf'.html = g /\ f # g) => began[g] > began[f]
<1>1. Base /\ Tickets /\ [Next]_vars => [Ordered]_vars
  <2> SUFFICES ASSUME Base, Tickets, [Next]_vars, vars' # vars,
                      NEW f \in Fetch, NEW g \in Fetch,
                      entryOf.html = f, entryOf'.html = g, f # g
               PROVE began[g] > began[f]
    OBVIOUS
  <2>1. g \in Flying /\ ticket[g] > entry.v /\ entry # None /\ entry.html = f
    BY OverwriteIsAnswer
  <2> QED
    BY <2>1 DEF Tickets, AppliedFirst
<1> QED
  BY <1>1, TicketsHold, PTL DEF Spec, FetchesInOrder

-----------------------------------------------------------------------------
(* The frame store implements FrameRegister, for every set of regions and     *)
(* requests, as long as no fetch outlives the eviction timer: each step of     *)
(* FrameStore is a step of the register or leaves it alone.                    *)

\* A step that applies nothing and binds nobody, and lets at most one request go.
LEMMA QuietRefines ==
  ASSUME entryOf'.html = entryOf.html, bound' = bound, painted' = painted,
         \/ UNCHANGED <<began, clock>>
         \/ \E q \in Request : /\ began' = [began EXCEPT ![q] = clock + 1]
                               /\ clock' = clock + 1
  PROVE Register!Next
  BY DEF Register!Next, Register!Ask, Register!MayAsk, Register!Asks

\* Fetching applies nothing, and lets at most one request go.
LEMMA FetchingIsQuiet ==
  ASSUME TypeOK, NEW r \in Region, NEW f \in Fetch, NEW e \in Entry,
         \/ fetch_html(r, e, f) \/ start(e, f)
         \/ e.inflight # None /\ join(e)
         \/ entry' = e /\ UNCHANGED <<began, clock>>
  PROVE /\ entry' # None /\ entryOf'.html = e.html
        /\ \/ UNCHANGED <<began, clock>>
           \/ \E q \in Request : /\ began' = [began EXCEPT ![q] = clock + 1]
                                 /\ clock' = clock + 1
<1>1. entry' \in Entry /\ entry'.html = e.html
  BY FetchKeeps, SlotKeeps
<1>2. entry' # None
  BY <1>1, EntryAssumption
<1>3. f \in Request
  BY DEF Request
<1>4. \/ UNCHANGED <<began, clock>>
      \/ began' = [began EXCEPT ![f] = clock + 1] /\ clock' = clock + 1
  BY DEF fetch_html, ensure, start, join
<1> QED
  BY <1>1, <1>2, <1>3, <1>4 DEF entryOf

\* Writing a frame is a frame landing, or is dropped as an older one; a fetch's
\* frame is in order if it would be newer than the one applied only when it began
\* later.
LEMMA WriteRefines ==
  ASSUME TypeOK, NEW e \in Entry, NEW q \in Request, NEW v \in Nat,
         e.html = entryOf.html, write(e, q, v), bound' = bound,
         UNCHANGED <<began, clock>>,
         Newer(e, v) => Register!InOrder(q)
  PROVE Register!Next \/ UNCHANGED Register!vars
<1>1. CASE Newer(e, v)
  <2>1. entry'.html = q
    BY <1>1 DEF write, schedule_evict, Entry
  <2>2. entry' \in Entry
    <3> DEFINE applied == [e EXCEPT !.v = v, !.html = q, !.seq = IF v > @ THEN v ELSE @,
                                    !.inflight = IF @ \in Batch THEN None ELSE @]
    <3>1. applied \in Entry
      BY DEF Entry
    <3>2. schedule_evict(applied, bound) \in Entry
      BY <3>1 DEF schedule_evict, Entry
    <3> QED
      BY <1>1, <3>2 DEF write
  <2>3. entryOf'.html = q
    BY <2>1, <2>2, EntryAssumption DEF entryOf
  <2>4. painted' = [r \in Region |-> IF r \in bound THEN q ELSE painted[r]]
    BY <1>1 DEF write
  <2>5. Register!Land(q)
    BY <1>1, <2>3, <2>4 DEF Register!Land
  <2> QED
    BY <2>5 DEF Register!Next
<1>2. CASE ~Newer(e, v)
  <2>1. entry' = e /\ painted' = [r \in Region |-> painted[r]]
    BY <1>2 DEF write
  <2>2. painted' = painted
    BY <2>1 DEF TypeOK
  <2>3. entryOf'.html = entryOf.html
    BY <2>1, EntryAssumption DEF entryOf
  <2> QED
    BY <2>2, <2>3 DEF Register!vars
<1> QED
  BY <1>1, <1>2

\* Every step of the store is a step of the register, or leaves it alone.
LEMMA RegisterStep ==
  ASSUME SlowerThanEviction = FALSE, Base, Tickets, [Next]_vars
  PROVE Register!Next \/ UNCHANGED Register!vars
<1>0. TypeOK /\ entryOf \in Entry /\ unarmed \in Entry /\ unarmed.html = entryOf.html
  BY FramesOf DEF Base, SameFrame
<1>1. ASSUME NEW r \in Region, leave(r) PROVE Register!Next
  <2>1. entry \in Entry /\ entry = entryOf
    BY <1>1, EntryAssumption DEF leave, Base, TypeOK, BoundSeesContent, entryOf
  <2> DEFINE left == schedule_evict(entry, bound \ {r})
  <2>2. left \in Entry /\ left.html = entry.html
    BY <2>1 DEF schedule_evict, Entry
  <2>3. entry' \in Entry /\ entry'.html = left.html
    <3>1. entry' = left \/ entry' = [left EXCEPT !.inflight = None]
      BY <1>1 DEF leave
    <3> HIDE DEF left
    <3> QED
      BY <2>2, <3>1 DEF Entry
  <2>4. entryOf'.html = entryOf.html
    BY <2>1, <2>2, <2>3, EntryAssumption DEF entryOf
  <2>5. Register!Unbind(r)
    BY <1>1, <2>4 DEF leave, Register!Unbind
  <2> QED
    BY <2>5 DEF Register!Next
<1>2. ASSUME NEW r \in Region, NEW f \in Fetch, connect(r, f) PROVE Register!Next
  <2>1. \/ fetch_html(r, unarmed, f)
        \/ entry' = unarmed /\ UNCHANGED <<began, clock>>
    BY <1>2 DEF connect
  <2>2. entryOf'.html = entryOf.html /\ Register!MayAsk
    BY <1>0, <2>1, FetchingIsQuiet DEF Register!MayAsk, Register!Asks
  <2>3. painted' = [painted EXCEPT ![r] = IF entryOf.html # None THEN entryOf.html ELSE @]
    BY <1>0, <1>2 DEF connect, Replayed, TypeOK
  <2>4. Register!Bind(r)
    BY <1>2, <2>2, <2>3 DEF connect, Register!Bind
  <2> QED
    BY <2>4 DEF Register!Next
<1>3. ASSUME NEW r \in Region, NEW f \in Fetch,
             joined(r, f) \/ retry(r, f) \/ revalidate(r, f)
      PROVE Register!Next
  <2>1. /\ fetch_html(r, entryOf, f) \/ start(entryOf, f)
        /\ UNCHANGED <<bound, painted>>
    BY <1>3 DEF joined, retry, revalidate, fetch_html
  <2> QED
    BY <1>0, <2>1, FetchingIsQuiet, QuietRefines
<1>4. ASSUME NEW f \in Fetch, prefetch(f) PROVE Register!Next
  <2>1. /\ start(entryOf, f) \/ (entryOf.inflight # None /\ join(entryOf))
        /\ UNCHANGED <<bound, painted>>
    BY <1>4 DEF prefetch
  <2>2. entry' \in Entry /\ entry'.html = entryOf.html
    BY <1>0, <2>1, SlotKeeps
  <2>3. entryOf'.html = entryOf.html
    BY <2>2, EntryAssumption DEF entryOf
  <2>4. \/ UNCHANGED <<began, clock>>
        \/ \E q \in Request : /\ began' = [began EXCEPT ![q] = clock + 1]
                              /\ clock' = clock + 1
    BY <2>1 DEF start, join, Request
  <2> QED
    BY <2>1, <2>3, <2>4, QuietRefines
<1>5. ASSUME NEW f \in Fetch, answer(f) PROVE Register!Next \/ UNCHANGED Register!vars
  <2>1. f \in Flying /\ f \in Request /\ ticket[f] \in Nat /\ entry # None
    BY <1>5 DEF answer, Flying, Request, Base, TypeOK, Tickets, FlyingKept
  <2>2. /\ Cleared(f) \in Entry /\ Cleared(f).html = entryOf.html
        /\ Cleared(f).v = entryOf.v /\ entryOf = entry
    BY <1>0, <2>1 DEF Cleared, Entry, entryOf
  <2>3. Newer(Cleared(f), ticket[f]) => Register!InOrder(f)
    BY <2>1, <2>2 DEF Newer, Register!InOrder, Tickets, AppliedFirst
  <2> QED
    BY <1>0, <1>5, <2>1, <2>2, <2>3, WriteRefines DEF answer
<1>6. ASSUME NEW f \in Fetch, fail(f) PROVE Register!Next
  <2>1. /\ entry = None => entry' = None
        /\ entry # None => entry' \in Entry /\ entry'.html = entryOf.html
    BY <1>6, <1>0 DEF fail, Cleared, Entry
  <2>2. entryOf'.html = entryOf.html
    BY <2>1, EntryAssumption DEF entryOf
  <2> QED
    BY <1>6, <2>2, QuietRefines DEF fail
<1>7. ASSUME NEW b \in Batch, stream(b) PROVE Register!Next
  <2>1. entry' \in Entry /\ entry'.html = entryOf.html
    <3> DEFINE held == [unarmed EXCEPT !.seq = @ + 1, !.inflight = b]
    <3>1. held \in Entry /\ held.html = unarmed.html
      BY <1>0, SlotTaken
    <3> QED
      BY <1>7, <1>0, <3>1 DEF stream
  <2>2. entryOf'.html = entryOf.html
    BY <2>1, EntryAssumption DEF entryOf
  <2> QED
    BY <1>7, <2>2, QuietRefines DEF stream, Request
<1>8. ASSUME NEW q \in Batch \cup Command,
             write([entryOf EXCEPT !.seq = @ + 1], q, entryOf.seq + 1),
             UNCHANGED <<bound, began, clock>>
      PROVE Register!Next \/ UNCHANGED Register!vars
  <2> DEFINE e == [entryOf EXCEPT !.seq = @ + 1]
  <2>1. e \in Entry /\ e.html = entryOf.html /\ entryOf.seq + 1 \in Nat
    BY <1>0 DEF Entry
  <2>2. q \in Request /\ Register!InOrder(q)
    BY RequestAssumption DEF Request, Register!InOrder
  <2> QED
    BY <1>0, <1>8, <2>1, <2>2, WriteRefines
<1>9. ASSUME NEW b \in Batch, parcel(b) PROVE Register!Next \/ UNCHANGED Register!vars
  BY <1>8, <1>9 DEF parcel
<1>10. ASSUME NEW m \in Command, decode_region(m)
       PROVE Register!Next \/ UNCHANGED Register!vars
  BY <1>8, <1>10 DEF decode_region
<1>11. ASSUME NEW b \in Batch, release(b) PROVE Register!Next
  <2>1. ASSUME entry # None PROVE entry' \in Entry /\ entry'.html = entry.html
    <3>1. entry \in Entry
      BY <1>0, <2>1 DEF TypeOK
    <3> DEFINE free == [entry EXCEPT !.inflight = None]
    <3>2. free \in Entry /\ free.html = entry.html
      BY <3>1 DEF Entry
    <3>3. /\ schedule_evict(free, bound) \in Entry
          /\ schedule_evict(free, bound).html = entry.html
      BY <3>2 DEF schedule_evict, Entry
    <3>4. entry' = schedule_evict(free, bound) \/ entry' = entry
      BY <1>11 DEF release
    <3> QED
      BY <3>1, <3>3, <3>4
  <2>2. entry = None => entry' = None
    BY <1>11 DEF release
  <2>3. entryOf'.html = entryOf.html
    BY <2>1, <2>2, EntryAssumption DEF entryOf
  <2> QED
    BY <1>11, <2>3, QuietRefines DEF release
<1>12. ASSUME NEW m \in Command, call(m) PROVE Register!Next
  <2>1. entryOf'.html = entryOf.html
    BY <1>12 DEF call, entryOf
  <2> QED
    BY <1>12, <2>1, QuietRefines DEF call, Request
<1>13. ASSUME evict PROVE Register!Next
  <2>1. CASE entry' = None
    <3>0. [entry EXCEPT !.evict = FALSE] # None
      BY <1>0, <1>13, EntryAssumption DEF evict, TypeOK, Entry
    <3>1. bound = {} /\ entryOf'.html = None
      BY <1>13, <2>1, <3>0 DEF evict, entryOf
    <3>2. Register!Forget
      BY <1>13, <3>1 DEF evict, Register!Forget
    <3> QED
      BY <3>2 DEF Register!Next
  <2>2. CASE entry' # None
    <3>1. entry' = [entry EXCEPT !.evict = FALSE] /\ entry = entryOf
      BY <1>13, <2>2 DEF evict, entryOf
    <3>2. entryOf'.html = entryOf.html
      BY <1>0, <2>2, <3>1 DEF entryOf, Entry
    <3> QED
      BY <1>13, <3>2, QuietRefines DEF evict
  <2> QED
    BY <2>1, <2>2
<1>14. ASSUME UNCHANGED vars PROVE UNCHANGED Register!vars
  BY <1>14 DEF vars, entryOf, Register!vars
<1> QED
  BY <1>1, <1>2, <1>3, <1>4, <1>5, <1>6, <1>7, <1>9, <1>10, <1>11, <1>12, <1>13, <1>14 DEF Next

\* The store implements its register, in every instance whose fetches end before
\* the eviction timer: regions may forget tickets, slots, waiters and timers.
THEOREM StoreImplementsRegister ==
  ASSUME SlowerThanEviction = FALSE
  PROVE Spec => ImplementsRegister
<1>1. Init => Register!Init
  BY DEF Init, Register!Init, entryOf
<1>2. Base /\ Tickets /\ [Next]_vars => [Register!Next]_(Register!vars)
  BY RegisterStep
<1> QED
  BY <1>1, <1>2, TicketsHold, PTL DEF Spec, ImplementsRegister, Register!Spec
=============================================================================
