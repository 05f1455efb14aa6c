-------------------------- MODULE NavigationProofs --------------------------
(* Theorems about Navigation for every set of pages, navigations, prefetches *)
(* and invalidations, and histories of any length.  What a navigation rests  *)
(* on at each stage: it has its page before it swaps (Answered), waits once  *)
(* for the chunk (Queue), is never dropped while it is the latest (LatestOK) *)
(* and is in `joins` only while its prefetch runs (Joined); a registered     *)
(* prefetch is under way, and of that page (Registered).                     *)
EXTENDS Navigation, SequenceTheorems, TLAPS

Alive == {"asked", "reading"}

\* Who waits for the chunk is in the queue once.
Queue ==
  /\ \A k \in 1 .. Len(loading) : pc[loading[k].nav] = "loading"
  /\ \A j, k \in 1 .. Len(loading) : loading[j].nav = loading[k].nav => j = k

\* The latest is never dropped; from its swap on the body is its page.
LatestOK ==
  latest # None =>
    /\ pc[latest] \in Begun \cup {"done", "handed", "stayed"}
    /\ pc[latest] \in {"swapped", "done"} => body = got[latest]

\* Whoever joined a prefetch waits for it, and for the page it asked for.
Joined ==
  \A n \in Nav : joins[n] # None =>
    pc[n] = "fetching" /\ warm[joins[n]] \in Alive /\ warm_url[joins[n]] = url[n]

\* A registered prefetch is under way, and of that page.
Registered ==
  \A p \in Page : inflight[p] # None =>
    warm[inflight[p]] \in Alive /\ warm_url[inflight[p]] = p

\* A navigation that waits for its stylesheets has its page.
Answered == \A n \in Nav : pc[n] = "styling" => got[n] \in Page

IInv ==
  /\ TypeOK
  /\ Answered
  /\ Queue
  /\ LatestOK
  /\ Joined
  /\ Registered
  /\ ClaimIsInFlight

\* What waits in the queue.
Request == [nav : Nav, kind : {"push", "replace", "pop", "keep"}]

HistoryOK == entries \in Seq(Page) /\ at \in DOMAIN entries

-----------------------------------------------------------------------------
(* The history and the queue as sequences.                                   *)

\* Writing the history leaves a history, and the browser on an entry of it.
LEMMA HistoryWrites ==
  ASSUME HistoryOK, NEW p \in Page, push_state(p) \/ replace_state(p)
  PROVE  HistoryOK'
<1> USE DEF HistoryOK
<1>1. CASE push_state(p)
  <2>1. /\ SubSeq(entries, 1, at) \in Seq(Page)
        /\ Len(SubSeq(entries, 1, at)) = at
    BY SubSeqProperties
  <2>2. /\ entries' \in Seq(Page)
        /\ Len(entries') = at + 1
    BY <1>1, <2>1, AppendProperties DEF push_state
  <2> QED
    BY <1>1, <2>2 DEF push_state
<1>2. CASE replace_state(p)
  BY <1>2 DEF replace_state
<1> QED
  BY <1>1, <1>2

\* Taking the first of the queue leaves the others, each one place further on.
LEMMA QueueTail ==
  ASSUME loading \in Seq(Request), loading # <<>>
  PROVE  /\ Head(loading) \in Request
         /\ Head(loading) = loading[1]
         /\ 1 \in 1 .. Len(loading)
         /\ Tail(loading) \in Seq(Request)
         /\ Len(Tail(loading)) = Len(loading) - 1
         /\ \A k \in 1 .. Len(Tail(loading)) :
              Tail(loading)[k] = loading[k + 1] /\ k + 1 \in 1 .. Len(loading)
BY HeadTailProperties

\* A newcomer is the last of the queue.
LEMMA QueueAppend ==
  ASSUME loading \in Seq(Request), NEW r \in Request
  PROVE  /\ Append(loading, r) \in Seq(Request)
         /\ Len(Append(loading, r)) = Len(loading) + 1
         /\ \A k \in 1 .. Len(loading) : Append(loading, r)[k] = loading[k]
         /\ Append(loading, r)[Len(loading) + 1] = r
BY AppendProperties

-----------------------------------------------------------------------------
(* Types.                                                                    *)

\* A navigation's claim.
LEMMA ClaimTypes ==
  ASSUME TypeOK, NEW n \in Nav, NEW p \in Page, NEW k \in {"push", "replace", "pop", "keep"},
         claim(n, p, k), HistoryOK'
  PROVE  TypeOK'
<1>1. loading' \in Seq(Request)
  BY QueueAppend DEF claim, TypeOK, Request
<1> QED
  BY <1>1 DEF claim, TypeOK, Request, HistoryOK, cacheVars, warmVars, softVars, pageVars

\* A click or goto that stays in the document.
LEMMA SameDocumentTypes ==
  ASSUME TypeOK, NEW n \in Nav, NEW p \in Page, NEW k \in {"push", "keep"},
         same_document(n, p, k)
  PROVE  TypeOK'
<1>1. HistoryOK'
  BY HistoryWrites DEF same_document, TypeOK, HistoryOK, historyVars
<1> QED
  BY <1>1 DEF same_document, TypeOK, HistoryOK, Ended, cacheVars, warmVars, softVars, pageVars

\* What the user and the page do.
LEMMA AskTypes ==
  ASSUME TypeOK, NEW n \in Nav,
         \/ \E p \in Page : click(n, p) \/ \E k \in {"push", "keep"} : goto(n, p, k)
         \/ \E j \in DOMAIN entries : popstate(n, j)
  PROVE  TypeOK'
<1>1. ASSUME NEW p \in Page, click(n, p) PROVE TypeOK'
  BY <1>1, ClaimTypes, SameDocumentTypes DEF click, TypeOK, HistoryOK, historyVars
<1>2. ASSUME NEW p \in Page, NEW k \in {"push", "keep"}, goto(n, p, k) PROVE TypeOK'
  BY <1>2, ClaimTypes, SameDocumentTypes DEF goto, TypeOK, HistoryOK, historyVars
<1>3. ASSUME NEW j \in DOMAIN entries, popstate(n, j) PROVE TypeOK'
  <2>1. entries[j] \in Page /\ HistoryOK'
    BY <1>3 DEF popstate, TypeOK, HistoryOK
  <2>2. CASE claim(n, entries[j], "pop")
    BY <2>1, <2>2, ClaimTypes
  <2>3. CASE ~claim(n, entries[j], "pop")
    BY <1>3, <2>1, <2>3
       DEF popstate, TypeOK, HistoryOK, Ended, cacheVars, warmVars, softVars, pageVars
  <2> QED
    BY <2>2, <2>3
<1> QED
  BY <1>1, <1>2, <1>3

\* What a navigation under way does.
LEMMA NavTypes ==
  ASSUME TypeOK, Answered, NEW n \in Nav, NavStep(n)
  PROVE  TypeOK'
<1> USE RedirectAssumption, FirstAssumption
    DEF TypeOK, historyVars, pageVars, cacheVars, warmVars, softVars, Begun
<1>1. ASSUME next_loaded(n) PROVE loading' \in Seq(Request)
  BY <1>1, QueueTail DEF next_loaded, Request
<1>2. CASE begin(n)
  <2>1. HistoryOK'
    BY <1>2, HistoryWrites DEF begin, HistoryOK
  <2>2. loading' \in Seq(Request)
    BY <1>1, <1>2 DEF begin
  <2> QED
    BY <1>2, <2>1, <2>2 DEF begin, fetch_page, HistoryOK, Request
<1>3. CASE cancelled(n)
  BY <1>1, <1>3 DEF cancelled, Request, Ended
<1>4. CASE headers(n)
  BY <1>4 DEF headers, noted
<1>5. CASE land(n)
  <2> DEFINE landed == IF final_url[url[n]] # None THEN final_url[url[n]] ELSE url[n]
  <2>1. landed \in Page
    OBVIOUS
  <2>2. HistoryOK'
    BY <1>5, <2>1, HistoryWrites DEF land, HistoryOK
  <2> QED
    BY <1>5, <2>1, <2>2 DEF land, HistoryOK, Ended
<1>6. CASE swap(n)
  BY <1>6 DEF swap, Answered
<1>7. CASE commit(n)
  BY <1>7 DEF commit, ends, Ended
<1>8. CASE superseded(n)
  BY <1>8 DEF superseded, ends, Ended
<1>9. CASE hand_off(n)
  BY <1>9 DEF hand_off, Ended
<1>10. CASE stays(n)
  BY <1>10 DEF stays, Ended
<1>11. CASE chunk_fails(n)
  BY <1>1, <1>11 DEF chunk_fails, Request, Ended
<1> QED
  BY <1>2, <1>3, <1>4, <1>5, <1>6, <1>7, <1>8, <1>9, <1>10, <1>11 DEF NavStep

\* Prefetches, the cache and the invalidations.
LEMMA CacheTypes ==
  ASSUME TypeOK,
         \/ \E f \in Prefetch : (\E p \in Page : prefetch(f, p)) \/ WarmStep(f)
         \/ \E p \in Page : expire(p)
         \/ mutation
         \/ \E i \in Soft : invalidate_all(i) \/ soft_headers(i) \/ apply_soft(i) \/ end_soft(i)
  PROVE  TypeOK'
<1> USE RedirectAssumption, FirstAssumption
    DEF TypeOK, historyVars, pageVars, navVars, cacheVars, warmVars, softVars, Begun
<1>1. ASSUME NEW f \in Prefetch, NEW p \in Page, prefetch(f, p) PROVE TypeOK'
  BY <1>1 DEF prefetch
<1>2. ASSUME NEW f \in Prefetch, warm_headers(f) PROVE TypeOK'
  BY <1>2 DEF warm_headers, noted
<1>3. ASSUME NEW f \in Prefetch, settle(f) PROVE TypeOK'
  <2>1. PICK answer \in Page \cup {None} : Resumed(f, answer)
    BY <1>3 DEF settle
  <2>2. /\ pc' \in [Nav -> {"idle", "loading"} \cup Begun \cup Ended]
        /\ got' \in [Nav -> Page \cup {None}]
        /\ joins' \in [Nav -> Prefetch \cup {None}]
        /\ UNCHANGED <<url, dest, latest, loading>>
    BY <2>1 DEF Resumed
  <2>3. /\ cache' \in [Page -> Page \cup {None}]
        /\ inflight' \in [Page -> Prefetch \cup {None}]
        /\ warm' \in [Prefetch -> {"idle", "asked", "reading", "ended"}]
        /\ UNCHANGED <<historyVars, target, pageVars, final_url, warm_url, softVars>>
    BY <1>3 DEF settle
  <2> QED
    BY <2>2, <2>3
<1>4. ASSUME NEW p \in Page, expire(p) PROVE TypeOK'
  BY <1>4 DEF expire
<1>5. CASE mutation
  BY <1>5 DEF mutation, bust, Nothing
<1>6. ASSUME NEW i \in Soft, invalidate_all(i) PROVE TypeOK'
  BY <1>6 DEF invalidate_all, bust, Nothing, address
<1>7. ASSUME NEW i \in Soft, soft_headers(i) PROVE TypeOK'
  BY <1>7 DEF soft_headers, noted
<1>8. ASSUME NEW i \in Soft, apply_soft(i) PROVE TypeOK'
  BY <1>8 DEF apply_soft
<1>9. ASSUME NEW i \in Soft, end_soft(i) PROVE TypeOK'
  BY <1>9 DEF end_soft
<1> QED
  BY <1>1, <1>2, <1>3, <1>4, <1>5, <1>6, <1>7, <1>8, <1>9 DEF WarmStep

\* Every step keeps the types.
LEMMA TypeStep == TypeOK /\ Answered /\ [Next]_vars => TypeOK'
<1>1. ASSUME TypeOK, UNCHANGED vars PROVE TypeOK'
  BY <1>1 DEF TypeOK, vars, historyVars, pageVars, navVars, cacheVars, warmVars, softVars
<1> QED
  BY <1>1, AskTypes, NavTypes, CacheTypes DEF Next

\* A page stays with the navigation that was answered with it until its swap.
LEMMA AnsweredStep == TypeOK /\ Answered /\ [Next]_vars => Answered'
<1> SUFFICES ASSUME TypeOK, Answered, [Next]_vars, NEW n \in Nav, pc'[n] = "styling"
             PROVE  got'[n] \in Page
  BY DEF Answered
<1> USE DEF Answered, TypeOK, navVars, Begun
<1>1. ASSUME NEW m \in Nav,
             \/ \E p \in Page : click(m, p) \/ \E k \in {"push", "keep"} : goto(m, p, k)
             \/ \E j \in DOMAIN entries : popstate(m, j)
      PROVE  got'[n] \in Page
  BY <1>1 DEF click, goto, popstate, claim, same_document
<1>2. ASSUME NEW m \in Nav, NavStep(m) PROVE got'[n] \in Page
  BY <1>2 DEF NavStep, begin, fetch_page, cancelled, headers, land, swap, commit, superseded,
              ends, hand_off, stays, chunk_fails
<1>3. ASSUME NEW f \in Prefetch, NEW p \in Page, prefetch(f, p) PROVE got'[n] \in Page
  BY <1>3 DEF prefetch
<1>4. ASSUME NEW f \in Prefetch, WarmStep(f) PROVE got'[n] \in Page
  BY <1>4 DEF WarmStep, warm_headers, settle, Resumed
<1>5. ASSUME (\E p \in Page : expire(p)) \/ mutation PROVE got'[n] \in Page
  BY <1>5 DEF expire, mutation
<1>6. ASSUME NEW i \in Soft,
             invalidate_all(i) \/ soft_headers(i) \/ apply_soft(i) \/ end_soft(i)
      PROVE  got'[n] \in Page
  BY <1>6 DEF invalidate_all, soft_headers, apply_soft, end_soft
<1>7. CASE UNCHANGED vars
  BY <1>7 DEF vars
<1> QED
  BY <1>1, <1>2, <1>3, <1>4, <1>5, <1>6, <1>7 DEF Next

\* The state is well typed: the browser is always on an entry of its history, and
\* what a swap puts into the document is a page.
THEOREM TypeCorrect == Spec => []TypeOK
<1>1. Init => TypeOK /\ Answered
  BY FirstAssumption DEF Init, TypeOK, Answered, Nothing, Begun
<1> QED
  BY <1>1, TypeStep, AnsweredStep, PTL DEF Spec

-----------------------------------------------------------------------------
(* The invariant.                                                            *)

\* What a click, a goto or a pop does to the router: it claims an address, or it
\* stays in the document.
Claims(n) == pc[n] = "idle" /\ \E p \in Page, k \in {"push", "replace", "pop", "keep"} : claim(n, p, k)

Stays(n) ==
  /\ pc[n] = "idle"
  /\ pc' = [pc EXCEPT ![n] = "done"]
  /\ UNCHANGED <<target, pageVars, url, joins, dest, got, latest, loading, cacheVars,
                 warmVars, softVars>>

\* A click, a goto or a pop is one or the other.
LEMMA AskCases ==
  ASSUME TypeOK, NEW n \in Nav,
         \/ \E p \in Page : click(n, p) \/ \E k \in {"push", "keep"} : goto(n, p, k)
         \/ \E j \in DOMAIN entries : popstate(n, j)
  PROVE  Claims(n) \/ Stays(n)
<1>1. ASSUME NEW j \in DOMAIN entries, popstate(n, j) PROVE Claims(n) \/ Stays(n)
  <2>1. entries[j] \in Page
    BY DEF TypeOK
  <2> QED
    BY <1>1, <2>1 DEF popstate, Claims, Stays
<1>2. ASSUME NEW p \in Page, click(n, p) PROVE Claims(n) \/ Stays(n)
  BY <1>2 DEF click, same_document, Claims, Stays
<1>3. ASSUME NEW p \in Page, NEW k \in {"push", "keep"}, goto(n, p, k)
      PROVE  Claims(n) \/ Stays(n)
  BY <1>3 DEF goto, same_document, Claims, Stays
<1> QED
  BY <1>1, <1>2, <1>3

\* The queue of those who wait for the chunk.
LEMMA QueueStep == IInv /\ [Next]_vars => Queue'
<1> SUFFICES ASSUME IInv, [Next]_vars PROVE Queue'
  OBVIOUS
<1>0. /\ loading \in Seq(Request) /\ Len(loading) \in Nat
      /\ pc \in [Nav -> {"idle", "loading"} \cup Begun \cup Ended]
      /\ Queue
      /\ \A k \in 1 .. Len(loading) : loading[k].nav \in Nav
  <2>1. loading \in Seq(Request) /\ Queue
    BY DEF IInv, TypeOK, Request
  <2>2. \A k \in 1 .. Len(loading) : loading[k] \in Request
    BY <2>1
  <2> QED
    BY <2>1, <2>2 DEF IInv, TypeOK, Request
<1>1. ASSUME loading' = loading, \A m \in Nav : pc[m] = "loading" => pc'[m] = "loading"
      PROVE  Queue'
  BY <1>0, <1>1 DEF Queue
<1>2. ASSUME NEW n \in Nav, next_loaded(n),
             \A m \in Nav \ {n} : pc[m] = "loading" => pc'[m] = "loading"
      PROVE  Queue'
  <2>1. /\ loading' = Tail(loading) /\ loading # <<>>
        /\ Len(loading') = Len(loading) - 1
        /\ n = loading[1].nav
        /\ 1 \in 1 .. Len(loading)
        /\ \A k \in 1 .. Len(loading') :
             loading'[k] = loading[k + 1] /\ k + 1 \in 1 .. Len(loading)
    BY <1>0, <1>2, QueueTail DEF next_loaded
  <2>2. ASSUME NEW k \in 1 .. Len(loading') PROVE pc'[loading'[k].nav] = "loading"
    <3>1. k + 1 \in 1 .. Len(loading) /\ k + 1 # 1 /\ loading'[k] = loading[k + 1]
      BY <2>1
    <3>2. loading[k + 1].nav # n
      BY <1>0, <2>1, <3>1 DEF Queue
    <3> QED
      BY <1>0, <1>2, <3>1, <3>2 DEF Queue
  <2>3. ASSUME NEW j \in 1 .. Len(loading'), NEW k \in 1 .. Len(loading'),
               loading'[j].nav = loading'[k].nav
        PROVE  j = k
    <3>1. j + 1 = k + 1
      BY <1>0, <2>1, <2>3 DEF Queue
    <3> QED
      BY <1>0, <2>1, <3>1
  <2> QED
    BY <2>2, <2>3 DEF Queue
<1>3. ASSUME NEW n \in Nav, Claims(n) PROVE Queue'
  <2>1. PICK p \in Page, k \in {"push", "replace", "pop", "keep"} : claim(n, p, k)
    BY <1>3 DEF Claims
  <2> DEFINE r == [nav |-> n, kind |-> k]
  <2>2. r \in Request /\ r.nav = n
    BY DEF Request
  <2>3. loading' = Append(loading, r) /\ pc' = [pc EXCEPT ![n] = "loading"]
    BY <2>1 DEF claim
  <2>4. \A j \in 1 .. Len(loading) : loading[j].nav \in Nav /\ loading[j].nav # n
    BY <1>0, <1>3 DEF Claims, Queue
  <2> HIDE DEF r
  <2>5. /\ Len(loading') = Len(loading) + 1
        /\ \A j \in 1 .. Len(loading) : loading'[j] = loading[j]
        /\ loading'[Len(loading) + 1] = r
    BY <1>0, <2>2, <2>3, QueueAppend
  <2>6. \A j \in 1 .. Len(loading') : j \in 1 .. Len(loading) \/ j = Len(loading) + 1
    BY <1>0, <2>5
  <2>7. \A j \in 1 .. Len(loading') : pc'[loading'[j].nav] = "loading"
    BY <1>0, <2>2, <2>3, <2>4, <2>5, <2>6 DEF Queue
  <2>8. \A j, m \in 1 .. Len(loading') : loading'[j].nav = loading'[m].nav => j = m
    BY <1>0, <2>2, <2>4, <2>5, <2>6 DEF Queue
  <2> QED
    BY <2>7, <2>8 DEF Queue
<1> USE <1>0 DEF Begun
<1>4. ASSUME NEW n \in Nav, Stays(n) PROVE Queue'
  BY <1>1, <1>4 DEF Stays
<1>5. ASSUME NEW n \in Nav, begin(n) \/ cancelled(n) \/ chunk_fails(n) PROVE Queue'
  BY <1>2, <1>5 DEF begin, fetch_page, cancelled, chunk_fails
<1>6. ASSUME NEW n \in Nav,
             headers(n) \/ land(n) \/ swap(n) \/ commit(n) \/ superseded(n) \/ hand_off(n)
               \/ stays(n)
      PROVE  Queue'
  BY <1>1, <1>6 DEF headers, land, swap, commit, superseded, ends, hand_off, stays
<1>7. ASSUME NEW f \in Prefetch, (\E p \in Page : prefetch(f, p)) \/ WarmStep(f) PROVE Queue'
  BY <1>1, <1>7 DEF prefetch, WarmStep, warm_headers, settle, Resumed, navVars
<1>8. ASSUME (\E p \in Page : expire(p)) \/ mutation PROVE Queue'
  BY <1>1, <1>8 DEF expire, mutation, navVars
<1>9. ASSUME NEW i \in Soft,
             invalidate_all(i) \/ soft_headers(i) \/ apply_soft(i) \/ end_soft(i)
      PROVE  Queue'
  BY <1>1, <1>9 DEF invalidate_all, soft_headers, apply_soft, end_soft, navVars
<1>10. CASE UNCHANGED vars
  BY <1>1, <1>10 DEF vars, navVars
<1>11. TypeOK
  BY DEF IInv
<1> QED
  BY AskCases, <1>3, <1>4, <1>5, <1>6, <1>7, <1>8, <1>9, <1>10, <1>11 DEF Next, NavStep

\* The latest navigation: superseded ones alone are dropped, and what it was answered
\* with is what it swaps in.
LEMMA LatestStep == IInv /\ [Next]_vars => LatestOK'
<1> SUFFICES ASSUME IInv, [Next]_vars PROVE LatestOK'
  OBVIOUS
<1>0. TypeOK /\ LatestOK /\ Answered /\ Queue
  BY DEF IInv
<1> USE <1>0, NoneAssumption DEF LatestOK, TypeOK, Begun
<1>1. ASSUME NEW n \in Nav, next_loaded(n) PROVE pc[n] = "loading"
  BY <1>1, QueueTail DEF next_loaded, Queue, Request
<1>2. ASSUME NEW n \in Nav, Claims(n) \/ Stays(n) PROVE LatestOK'
  BY <1>2 DEF Claims, claim, Stays, pageVars
<1>3. ASSUME NEW n \in Nav, begin(n) PROVE LatestOK'
  BY <1>3 DEF begin, fetch_page, pageVars
<1>4. ASSUME NEW n \in Nav, cancelled(n) \/ chunk_fails(n) PROVE LatestOK'
  BY <1>1, <1>4 DEF cancelled, chunk_fails, pageVars
<1>5. ASSUME NEW n \in Nav, headers(n) \/ land(n) \/ hand_off(n) \/ stays(n) PROVE LatestOK'
  BY <1>5 DEF headers, land, hand_off, stays, pageVars
<1>6. ASSUME NEW n \in Nav, swap(n) \/ commit(n) \/ superseded(n) PROVE LatestOK'
  BY <1>6 DEF swap, commit, superseded, ends, pageVars
<1>7. ASSUME NEW f \in Prefetch, (\E p \in Page : prefetch(f, p)) \/ WarmStep(f) PROVE LatestOK'
  BY <1>7 DEF prefetch, WarmStep, warm_headers, settle, Resumed, navVars, pageVars
<1>8. ASSUME (\E p \in Page : expire(p)) \/ mutation PROVE LatestOK'
  BY <1>8 DEF expire, mutation, navVars, pageVars
<1>9. ASSUME NEW i \in Soft,
             invalidate_all(i) \/ soft_headers(i) \/ apply_soft(i) \/ end_soft(i)
      PROVE  LatestOK'
  BY <1>9 DEF invalidate_all, soft_headers, apply_soft, end_soft, navVars, pageVars
<1>10. CASE UNCHANGED vars
  BY <1>10 DEF vars, navVars, pageVars
<1> QED
  BY AskCases, <1>2, <1>3, <1>4, <1>5, <1>6, <1>7, <1>8, <1>9, <1>10 DEF Next, NavStep

\* Joiners and prefetches: `inflight` may be emptied under both, but a prefetch ends in
\* one step with all who joined it, and a page's registration ends with its prefetch.
LEMMA JoinStep == IInv /\ [Next]_vars => Joined' /\ Registered'
<1> SUFFICES ASSUME IInv, [Next]_vars PROVE Joined' /\ Registered'
  OBVIOUS
<1>0. TypeOK /\ Joined /\ Registered /\ Queue
  BY DEF IInv
<1> USE <1>0, NoneAssumption DEF Joined, Registered, TypeOK, Alive
<1>1. ASSUME NEW n \in Nav, next_loaded(n) PROVE pc[n] = "loading"
  BY <1>1, QueueTail DEF next_loaded, Queue, Request
<1>2. ASSUME NEW n \in Nav, Claims(n) \/ Stays(n) PROVE Joined' /\ Registered'
  BY <1>2 DEF Claims, claim, Stays, cacheVars, warmVars
<1>3. ASSUME NEW n \in Nav, begin(n) PROVE Joined' /\ Registered'
  BY <1>1, <1>3 DEF begin, fetch_page, cacheVars, warmVars
<1>4. ASSUME NEW n \in Nav, cancelled(n) \/ chunk_fails(n) PROVE Joined' /\ Registered'
  BY <1>1, <1>4 DEF cancelled, chunk_fails, cacheVars, warmVars
<1>5. ASSUME NEW n \in Nav, headers(n) \/ land(n) \/ hand_off(n) \/ stays(n)
      PROVE  Joined' /\ Registered'
  BY <1>5 DEF headers, land, hand_off, stays, cacheVars, warmVars
<1>6. ASSUME NEW n \in Nav, swap(n) \/ commit(n) \/ superseded(n) PROVE Joined' /\ Registered'
  BY <1>6 DEF swap, commit, superseded, ends, cacheVars, warmVars
<1>7. ASSUME NEW f \in Prefetch, NEW p \in Page, prefetch(f, p) PROVE Joined' /\ Registered'
  BY <1>7 DEF prefetch, navVars
<1>8. ASSUME NEW f \in Prefetch, warm_headers(f) PROVE Joined' /\ Registered'
  BY <1>8 DEF warm_headers, navVars
<1>9. ASSUME NEW f \in Prefetch, settle(f) PROVE Joined' /\ Registered'
  BY <1>9 DEF settle, Resumed
<1>10. ASSUME (\E p \in Page : expire(p)) \/ mutation PROVE Joined' /\ Registered'
  BY <1>10 DEF expire, mutation, bust, Nothing, navVars, warmVars
<1>11. ASSUME NEW i \in Soft,
             invalidate_all(i) \/ soft_headers(i) \/ apply_soft(i) \/ end_soft(i)
      PROVE  Joined' /\ Registered'
  BY <1>11 DEF invalidate_all, bust, Nothing, soft_headers, apply_soft, end_soft, navVars,
               cacheVars, warmVars
<1>12. CASE UNCHANGED vars
  BY <1>12 DEF vars, navVars, cacheVars, warmVars
<1> QED
  BY AskCases, <1>2, <1>3, <1>4, <1>5, <1>6, <1>7, <1>8, <1>9, <1>10, <1>11, <1>12
     DEF Next, NavStep, WarmStep

\* The claim: whoever ends gives it up, or leaves it to the navigation that made it anew.
LEMMA ClaimStep == IInv /\ [Next]_vars => ClaimIsInFlight'
<1> SUFFICES ASSUME IInv, [Next]_vars PROVE ClaimIsInFlight'
  OBVIOUS
<1>0. TypeOK /\ ClaimIsInFlight
  BY DEF IInv
<1> USE <1>0, NoneAssumption DEF TypeOK, Begun
<1> DEFINE Holds(m) ==
      /\ url[m] = target
      /\ pc[m] = "loading" \/ (m = latest /\ pc[m] \in Begun \cup {"handed", "stayed"})
<1>1. ASSUME NEW n \in Nav, Claims(n) \/ begin(n) PROVE ClaimIsInFlight'
  BY <1>1 DEF Claims, claim, begin, fetch_page, ClaimIsInFlight
<1>2. CASE target' = None
  BY <1>2 DEF ClaimIsInFlight
<1>3. ASSUME target' = target, \A m \in Nav : Holds(m) => Holds(m)' PROVE ClaimIsInFlight'
  BY <1>3 DEF ClaimIsInFlight
<1>4. ASSUME NEW n \in Nav, Stays(n) PROVE ClaimIsInFlight'
  BY <1>3, <1>4 DEF Stays
<1>5. ASSUME NEW n \in Nav, cancelled(n) \/ chunk_fails(n) PROVE ClaimIsInFlight'
  <2>1. CASE target = url[n]
    BY <1>2, <1>5, <2>1 DEF cancelled, chunk_fails
  <2>2. CASE target # url[n]
    BY <1>3, <1>5, <2>2 DEF cancelled, chunk_fails
  <2> QED
    BY <2>1, <2>2
<1>6. ASSUME NEW n \in Nav, headers(n) \/ land(n) \/ swap(n) \/ hand_off(n) \/ stays(n)
      PROVE  ClaimIsInFlight'
  BY <1>3, <1>6 DEF headers, land, swap, hand_off, stays
<1>7. ASSUME NEW n \in Nav, commit(n) PROVE ClaimIsInFlight'
  BY <1>2, <1>7 DEF commit
<1>8. ASSUME NEW n \in Nav, superseded(n) PROVE ClaimIsInFlight'
  BY <1>3, <1>8 DEF superseded, ends
<1>9. ASSUME NEW f \in Prefetch, (\E p \in Page : prefetch(f, p)) \/ WarmStep(f)
      PROVE  ClaimIsInFlight'
  BY <1>3, <1>9 DEF prefetch, WarmStep, warm_headers, settle, Resumed, navVars
<1>10. ASSUME (\E p \in Page : expire(p)) \/ mutation PROVE ClaimIsInFlight'
  BY <1>3, <1>10 DEF expire, mutation, navVars
<1>11. ASSUME NEW i \in Soft,
             invalidate_all(i) \/ soft_headers(i) \/ apply_soft(i) \/ end_soft(i)
      PROVE  ClaimIsInFlight'
  BY <1>3, <1>11 DEF invalidate_all, soft_headers, apply_soft, end_soft, navVars
<1>12. CASE UNCHANGED vars
  BY <1>3, <1>12 DEF vars, navVars
<1> QED
  BY AskCases, <1>1, <1>4, <1>5, <1>6, <1>7, <1>8, <1>9, <1>10, <1>11, <1>12 DEF Next, NavStep

\* The initial states satisfy the invariant.
LEMMA InitIInv == Init => IInv
<1> SUFFICES ASSUME Init PROVE IInv
  OBVIOUS
<1>1. TypeOK /\ Answered
  BY FirstAssumption DEF Init, TypeOK, Answered, Nothing, Begun
<1>2. Queue /\ LatestOK /\ Joined /\ Registered /\ ClaimIsInFlight
  BY DEF Init, Queue, LatestOK, Joined, Registered, ClaimIsInFlight, Nothing
<1> QED
  BY <1>1, <1>2 DEF IInv

\* The invariant holds in every reachable state.
LEMMA Invariant == Spec => []IInv
<1>1. IInv /\ [Next]_vars => IInv'
  BY TypeStep, AnsweredStep, QueueStep, LatestStep, JoinStep, ClaimStep DEF IInv
<1> QED
  BY <1>1, InitIInv, PTL DEF Spec

-----------------------------------------------------------------------------
(* The theorems.                                                             *)

\* Of any number of navigations that supersede one another at any stage, the last
\* that began is the one in the document when nothing is under way, unless it was
\* handed to the browser, which kept the document.
THEOREM LastOneIsShown == Spec => []LastNavigationShown
<1>1. IInv => LastNavigationShown
  BY DEF IInv, TypeOK, LatestOK, LastNavigationShown, AtRest, Begun
<1> QED
  BY <1>1, Invariant, PTL

\* A click is swallowed only while the navigation it repeats is under way, or was
\* handed to the browser, which kept the document.
THEOREM ClaimsAreInFlight == Spec => []ClaimIsInFlight
<1>1. IInv => ClaimIsInFlight
  BY DEF IInv
<1> QED
  BY <1>1, Invariant, PTL

\* Nobody is left waiting for a prefetch that has ended, or handed another page's,
\* whatever emptied the maps meanwhile.
THEOREM JoinersAreResumed == Spec => []JoinsAlive
<1>1. IInv => JoinsAlive
  BY DEF IInv, Joined, JoinsAlive, Alive
<1> QED
  BY <1>1, Invariant, PTL
=============================================================================
