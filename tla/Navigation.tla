------------------------------ MODULE Navigation ------------------------------
(* The SPA router (runtime/router.ts, runtime/router-nav.ts) in one document: *)
(* navigations that supersede one another at every await, the history they    *)
(* write before they fetch, the page cache and the prefetches that fill it,   *)
(* soft invalidations, and the mutations that empty the cache.                *)
(* An address is a page: fragments are left out, and so is scroll.            *)
EXTENDS Naturals, Sequences

CONSTANTS
  Page,      \* documents: pathname and search
  Redirect,  \* Redirect[p]: the page a fetch of p lands on
  Nav,       \* navigations: clicks, gotos, pops, each made at most once
  Prefetch,  \* prefetches, each made at most once
  Soft,      \* calls of invalidateAll, each made at most once
  First,     \* the page the document was loaded with
  None

ASSUME RedirectAssumption == Redirect \in [Page -> Page]
ASSUME FirstAssumption == First \in Page
ASSUME NoneAssumption ==
  None \notin Page /\ None \notin Nav /\ None \notin Prefetch /\ None \notin Soft

VARIABLES
  entries, at, \* the session history and the entry the browser is on
  target,      \* `nav_target`: the address claimed by a navigation in flight
  current,     \* `current_url`, `doc_key`: the page the router knows it shows
  body,        \* the page whose body is in the DOM
  seeds,       \* the page whose seeds the islands read
  pc,          \* pc[n]: where navigation n is
  url,         \* url[n]: the address n asks for
  joins,       \* joins[n]: the prefetch whose promise n awaits, None for its own
  dest,        \* dest[n]: the address n's answer belongs to
  got,         \* got[n]: the page n was answered with
  latest,      \* the navigation `nav_gen` counted last
  loading,     \* the navigations that await the router-nav chunk, in call order,
               \* each with its kind: what it does to the history
  cache,       \* cache[p]: what the page cache holds for p
  inflight,    \* inflight[p]: the prefetch registered for p
  final_url,   \* final_url[p]: where a fetch of p landed
  warm,        \* warm[f]: where prefetch f is
  warm_url,    \* warm_url[f]: the page it warms
  soft,        \* soft[i]: where invalidation i is
  soft_url,    \* soft_url[i]: the page it refreshes
  soft_latest  \* the invalidation `soft_gen` counted last

historyVars == <<entries, at>>
pageVars == <<current, body, seeds>>
navVars == <<pc, url, joins, dest, got, latest, loading>>
cacheVars == <<cache, inflight, final_url>>
warmVars == <<warm, warm_url>>
softVars == <<soft, soft_url, soft_latest>>
vars == <<historyVars, target, pageVars, navVars, cacheVars, warmVars, softVars>>

address == entries[at]

\* The stages of a navigation that has begun and is neither applied nor superseded.
Begun == {"fetching", "reading", "landing", "styling", "swapped"}

\* The ends of a navigation: applied, given up, or left to the browser.
Ended == {"done", "cancelled", "dropped", "handed", "stayed"}

Nothing == [p \in Page |-> None]

Init ==
  /\ entries = <<First>> /\ at = 1
  /\ target = None
  /\ current = First /\ body = First /\ seeds = First
  /\ pc = [n \in Nav |-> "idle"]
  /\ url = [n \in Nav |-> First]
  /\ joins = [n \in Nav |-> None]
  /\ dest = [n \in Nav |-> First]
  /\ got = [n \in Nav |-> None]
  /\ latest = None
  /\ loading = <<>>
  /\ cache = Nothing /\ inflight = Nothing /\ final_url = Nothing
  /\ warm = [f \in Prefetch |-> "idle"]
  /\ warm_url = [f \in Prefetch |-> First]
  /\ soft = [i \in Soft |-> "idle"]
  /\ soft_url = [i \in Soft |-> First]
  /\ soft_latest = None

-----------------------------------------------------------------------------
(* The history.                                                              *)

\* What navigations and redirects write into the history, synchronously.  A goto
\* with `replaceState` is of kind "keep": it writes nothing.
\* Mutant of push_state: the entry left is overwritten.
push_state_over(p) ==
  /\ entries' = [entries EXCEPT ![at] = p]
  /\ at' = at + 1

push_state(p) ==
  /\ entries' = Append(SubSeq(entries, 1, at), p)
  /\ at' = at + 1

replace_state(p) ==
  /\ entries' = [entries EXCEPT ![at] = p]
  /\ UNCHANGED at

-----------------------------------------------------------------------------
(* router.ts: clicks, gotos and pops.                                        *)

\* `SpaRouter.navigate` to another document: claim the address, load the chunk.
claim(n, p, k) ==
  /\ target' = p
  /\ pc' = [pc EXCEPT ![n] = "loading"]
  /\ url' = [url EXCEPT ![n] = p]
  /\ loading' = Append(loading, [nav |-> n, kind |-> k])
  /\ UNCHANGED <<pageVars, joins, dest, got, latest, cacheVars, warmVars, softVars>>

\* `SpaRouter.navigate` within the document shown: the history alone, and nothing
\* of a navigation in flight.
same_document(n, p, k) ==
  /\ p = current
  /\ pc' = [pc EXCEPT ![n] = "done"]
  /\ IF p = address THEN UNCHANGED historyVars
     ELSE IF k = "push" THEN push_state(p) ELSE replace_state(p)
  /\ UNCHANGED <<target, pageVars, url, joins, dest, got, latest, loading,
                 cacheVars, warmVars, softVars>>

\* A click on a link: swallowed when its address is already claimed, a refresh in
\* place on the address shown, else a navigation.
click(n, p) ==
  /\ pc[n] = "idle"
  /\ target # p
  /\ \/ p = address /\ claim(n, p, "replace") /\ UNCHANGED historyVars
     \/ p # address /\ p # current /\ claim(n, p, "push") /\ UNCHANGED historyVars
     \/ p # address /\ same_document(n, p, "push")

\* goto(p), with or without `replaceState`.
goto(n, p, k) ==
  /\ pc[n] = "idle"
  /\ \/ p # current /\ claim(n, p, k) /\ UNCHANGED historyVars
     \/ same_document(n, p, k)

\* Back and forward: the browser has moved, and the router navigates unless the
\* entry is of the document it shows.
popstate(n, j) ==
  /\ pc[n] = "idle"
  /\ j \in DOMAIN entries \ {at}
  /\ at' = j /\ UNCHANGED entries
  /\ \/ entries[j] # current /\ claim(n, entries[j], "pop")
     \/ /\ entries[j] = current
        /\ pc' = [pc EXCEPT ![n] = "done"]
        /\ UNCHANGED <<target, pageVars, url, joins, dest, got, latest, loading,
                       cacheVars, warmVars, softVars>>

-----------------------------------------------------------------------------
(* router-nav.ts `navigate`.                                                 *)

\* `fetch_page(p)` by navigation n: the cached page, the prefetch in flight, or a
\* fetch of its own.
fetch_page(n, p) ==
  \/ /\ cache[p] # None
     /\ pc' = [pc EXCEPT ![n] = "landing"]
     /\ got' = [got EXCEPT ![n] = cache[p]]
     /\ UNCHANGED <<joins, dest, cacheVars>>
  \/ /\ cache[p] = None /\ inflight[p] # None
     /\ pc' = [pc EXCEPT ![n] = "fetching"]
     /\ joins' = [joins EXCEPT ![n] = inflight[p]]
     /\ UNCHANGED <<got, dest, cacheVars>>
  \/ /\ cache[p] = None /\ inflight[p] = None
     /\ pc' = [pc EXCEPT ![n] = "fetching"]
     /\ final_url' = [final_url EXCEPT ![p] = None]
     /\ UNCHANGED <<joins, dest, got, cache, inflight>>

\* The chunk's promise resumes those who wait for it in order.
next_loaded(n) ==
  /\ loading # <<>> /\ n = Head(loading).nav
  /\ loading' = Tail(loading)

\* The first navigation that waits begins: it supersedes every earlier one, writes
\* the history and fetches.
begin(n) ==
  /\ next_loaded(n)
  /\ latest' = n
  /\ target' = url[n]
  /\ CASE Head(loading).kind = "push" -> push_state(url[n])
       [] Head(loading).kind = "replace" -> replace_state(url[n])
       [] OTHER -> UNCHANGED historyVars
  /\ fetch_page(n, url[n])
  /\ UNCHANGED <<pageVars, url, warmVars, softVars>>

\* A beforeNavigate hook cancels it: it gives its claim up.
cancelled(n) ==
  /\ next_loaded(n)
  /\ pc' = [pc EXCEPT ![n] = "cancelled"]
  /\ target' = IF target = url[n] THEN None ELSE target
  /\ UNCHANGED <<historyVars, pageVars, url, joins, dest, got, latest, cacheVars,
                 warmVars, softVars>>

\* A response's headers: a redirect is noted.
noted(p) == IF Redirect[p] # p THEN [final_url EXCEPT ![p] = Redirect[p]] ELSE final_url

\* The headers of n's own fetch.
headers(n) ==
  /\ pc[n] = "fetching" /\ joins[n] = None /\ n = latest
  /\ pc' = [pc EXCEPT ![n] = "reading"]
  /\ got' = [got EXCEPT ![n] = Redirect[url[n]]]
  /\ final_url' = noted(url[n])
  /\ UNCHANGED <<historyVars, target, pageVars, url, joins, dest, latest, loading,
                 cache, inflight, warmVars, softVars>>

\* The page n was answered with is complete: the cached copy goes, the noted redirect
\* corrects the address, and the stylesheets load; or the page is not the router's to
\* render, and the browser loads the address as a document.
land(n) ==
  LET landed == IF final_url[url[n]] # None THEN final_url[url[n]] ELSE url[n]
  IN /\ pc[n] \in {"reading", "landing"} /\ n = latest /\ got[n] # None
     /\ cache' = [cache EXCEPT ![url[n]] = None]
     /\ final_url' = [final_url EXCEPT ![url[n]] = None]
     /\ dest' = [dest EXCEPT ![n] = landed]
     /\ \/ pc' = [pc EXCEPT ![n] = "handed"] /\ UNCHANGED historyVars
        \/ /\ pc' = [pc EXCEPT ![n] = "styling"]
           /\ IF landed # url[n] THEN replace_state(landed) ELSE UNCHANGED historyVars
     /\ UNCHANGED <<target, pageVars, url, joins, got, latest, loading, inflight,
                    warmVars, softVars>>

\* n ends at a stage: its locals are gone (url and dest start over).
ends(n, stage) ==
  /\ pc' = [pc EXCEPT ![n] = stage]
  /\ url' = [url EXCEPT ![n] = First]
  /\ dest' = [dest EXCEPT ![n] = First]

\* Mutant of swap: the view transition's callback does not look whether it is stale.
swap_stale(n) ==
  /\ pc[n] = "styling"
  /\ pc' = [pc EXCEPT ![n] = "swapped"]
  /\ body' = got[n] /\ seeds' = got[n]
  /\ UNCHANGED <<historyVars, target, current, url, joins, dest, got, latest,
                 loading, cacheVars, warmVars, softVars>>

\* The view transition's callback: head, seeds and body in one task.
swap(n) ==
  /\ pc[n] = "styling" /\ n = latest
  /\ pc' = [pc EXCEPT ![n] = "swapped"]
  /\ body' = got[n] /\ seeds' = got[n]
  /\ UNCHANGED <<historyVars, target, current, url, joins, dest, got, latest,
                 loading, cacheVars, warmVars, softVars>>

\* Mutant of commit: the claim is left behind.
commit_claimed(n) ==
  /\ pc[n] = "swapped" /\ n = latest
  /\ ends(n, "done")
  /\ current' = dest[n]
  /\ UNCHANGED <<historyVars, target, body, seeds, joins, got, latest, loading,
                 cacheVars, warmVars, softVars>>

\* After the callback: the router knows the page it shows, and gives up the claim.
commit(n) ==
  /\ pc[n] = "swapped" /\ n = latest
  /\ ends(n, "done")
  /\ current' = dest[n]
  /\ target' = None
  /\ UNCHANGED <<historyVars, body, seeds, joins, got, latest, loading, cacheVars,
                 warmVars, softVars>>

\* A superseded navigation stops at its next check of `nav_gen`; its own fetch is
\* aborted at once, a prefetch it joined is not.
superseded(n) ==
  /\ n # latest
  /\ pc[n] \in Begun /\ ~(pc[n] = "fetching" /\ joins[n] # None)
  /\ ends(n, "dropped")
  /\ got' = [got EXCEPT ![n] = None]
  /\ UNCHANGED <<historyVars, target, pageVars, joins, latest, loading, cacheVars,
                 warmVars, softVars>>

\* No page came (an error, not HTML): the browser loads the address as a document.
\* Until it does, this one lives on.
hand_off(n) ==
  /\ n = latest
  /\ \/ pc[n] \in {"fetching", "reading"} /\ joins[n] = None
     \/ pc[n] = "landing" /\ got[n] = None
  /\ pc' = [pc EXCEPT ![n] = "handed"]
  /\ UNCHANGED <<historyVars, target, pageVars, url, joins, dest, got, latest,
                 loading, cacheVars, warmVars, softVars>>

\* The browser keeps the document (a download, a 204): nothing is navigated, and the
\* claim stays until another navigation takes it over.
stays(n) ==
  /\ pc[n] = "handed"
  /\ pc' = [pc EXCEPT ![n] = "stayed"]
  /\ UNCHANGED <<historyVars, target, pageVars, url, joins, dest, got, latest,
                 loading, cacheVars, warmVars, softVars>>

\* Nothing of the router-nav chunk has run yet.
NotLoaded ==
  /\ latest = None /\ \A n \in Nav : pc[n] # "cancelled"
  /\ \A f \in Prefetch : warm[f] = "idle"
  /\ \A i \in Soft : soft[i] = "idle"

\* The chunk did not load: likewise, for each navigation that waited for it.
chunk_fails(n) ==
  /\ NotLoaded
  /\ next_loaded(n)
  /\ pc' = [pc EXCEPT ![n] = "handed"]
  /\ target' = IF target = url[n] THEN None ELSE target
  /\ UNCHANGED <<historyVars, pageVars, url, joins, dest, got, latest, cacheVars,
                 warmVars, softVars>>

-----------------------------------------------------------------------------
(* Prefetches.                                                               *)

\* A link is warmed: `fetch_page(p)` without a signal.
prefetch(f, p) ==
  /\ warm[f] = "idle"
  /\ cache[p] = None /\ inflight[p] = None
  /\ warm' = [warm EXCEPT ![f] = "asked"]
  /\ warm_url' = [warm_url EXCEPT ![f] = p]
  /\ inflight' = [inflight EXCEPT ![p] = f]
  /\ final_url' = [final_url EXCEPT ![p] = None]
  /\ UNCHANGED <<historyVars, target, pageVars, navVars, cache, softVars>>

warm_headers(f) ==
  /\ warm[f] = "asked"
  /\ warm' = [warm EXCEPT ![f] = "reading"]
  /\ final_url' = noted(warm_url[f])
  /\ UNCHANGED <<historyVars, target, pageVars, navVars, cache, inflight, warm_url,
                 softVars>>

\* Mutant of Resumed: a joiner only hears of a prefetch that is still registered.
ResumedIfRegistered(f, answer) ==
  LET hears(n) == pc[n] = "fetching" /\ joins[n] = f /\ inflight[url[n]] = f
  IN /\ pc' = [n \in Nav |-> IF hears(n) THEN "landing" ELSE pc[n]]
     /\ got' = [n \in Nav |-> IF hears(n) THEN answer ELSE got[n]]
     /\ UNCHANGED <<url, joins, dest, latest, loading>>

\* Those who joined f resume with what it was answered.
Resumed(f, answer) ==
  /\ pc' = [n \in Nav |-> IF pc[n] = "fetching" /\ joins[n] = f THEN "landing" ELSE pc[n]]
  /\ got' = [n \in Nav |-> IF pc[n] = "fetching" /\ joins[n] = f THEN answer ELSE got[n]]
  /\ joins' = [n \in Nav |-> IF joins[n] = f THEN None ELSE joins[n]]
  /\ UNCHANGED <<url, dest, latest, loading>>

\* f is complete (into the cache, if its headers allow) or failed.
settle(f) ==
  LET p == warm_url[f]
      deregistered == IF inflight[p] = f THEN [inflight EXCEPT ![p] = None] ELSE inflight
  IN /\ \/ /\ warm[f] = "reading"
           /\ cache' \in {cache, [cache EXCEPT ![p] = Redirect[p]]}
           /\ Resumed(f, Redirect[p])
        \/ /\ warm[f] \in {"asked", "reading"}
           /\ UNCHANGED cache
           /\ Resumed(f, None)
     /\ warm' = [warm EXCEPT ![f] = "ended"]
     /\ inflight' = deregistered
     /\ UNCHANGED <<historyVars, target, pageVars, final_url, warm_url, softVars>>

\* A cached page's TTL or the cache's bounds.
expire(p) ==
  /\ cache[p] # None
  /\ cache' = [cache EXCEPT ![p] = None]
  /\ UNCHANGED <<historyVars, target, pageVars, navVars, inflight, final_url,
                 warmVars, softVars>>

-----------------------------------------------------------------------------
(* Mutations and soft invalidations.                                         *)

\* `bust_page_cache`.
bust == cache' = Nothing /\ inflight' = Nothing /\ final_url' = Nothing

\* A remote mutation has succeeded.
mutation ==
  /\ bust
  /\ UNCHANGED <<historyVars, target, pageVars, navVars, warmVars, softVars>>

\* `invalidate_all`: the cache goes, and the page at the address is fetched anew,
\* superseding an earlier invalidation only.
invalidate_all(i) ==
  /\ soft[i] = "idle"
  /\ bust
  /\ soft' = [soft EXCEPT ![i] = "asked"]
  /\ soft_url' = [soft_url EXCEPT ![i] = address]
  /\ soft_latest' = i
  /\ UNCHANGED <<historyVars, target, pageVars, navVars, warmVars>>

soft_headers(i) ==
  /\ soft[i] = "asked" /\ i = soft_latest
  /\ soft' = [soft EXCEPT ![i] = "reading"]
  /\ final_url' = noted(soft_url[i])
  /\ UNCHANGED <<historyVars, target, pageVars, navVars, cache, inflight, warmVars,
                 soft_url, soft_latest>>

\* Its page: the seeds are refreshed, unless it failed or is not a router's page.
apply_soft(i) ==
  /\ soft[i] = "reading" /\ i = soft_latest
  /\ soft' = [soft EXCEPT ![i] = "ended"]
  /\ seeds' = Redirect[soft_url[i]]
  /\ UNCHANGED <<historyVars, target, current, body, navVars, cacheVars, warmVars,
                 soft_url, soft_latest>>

end_soft(i) ==
  /\ soft[i] \in {"asked", "reading"}
  /\ soft' = [soft EXCEPT ![i] = "ended"]
  /\ UNCHANGED <<historyVars, target, pageVars, navVars, cacheVars, warmVars,
                 soft_url, soft_latest>>

-----------------------------------------------------------------------------

\* What the event loop, the network and the rendering do on their own.
NavStep(n) ==
  \/ begin(n) \/ cancelled(n) \/ headers(n) \/ land(n) \/ swap(n) \/ commit(n)
  \/ superseded(n) \/ hand_off(n) \/ stays(n) \/ chunk_fails(n)

WarmStep(f) == warm_headers(f) \/ settle(f)

Next ==
  \/ \E n \in Nav :
       \/ \E p \in Page : click(n, p) \/ \E k \in {"push", "keep"} : goto(n, p, k)
       \/ \E j \in DOMAIN entries : popstate(n, j)
       \/ NavStep(n)
  \/ \E f \in Prefetch : (\E p \in Page : prefetch(f, p)) \/ WarmStep(f)
  \/ \E p \in Page : expire(p)
  \/ mutation
  \/ \E i \in Soft : invalidate_all(i) \/ soft_headers(i) \/ apply_soft(i) \/ end_soft(i)

Spec == Init /\ [][Next]_vars

-----------------------------------------------------------------------------
(* Properties.                                                               *)

TypeOK ==
  /\ entries \in Seq(Page) /\ at \in DOMAIN entries
  /\ target \in Page \cup {None}
  /\ current \in Page /\ body \in Page /\ seeds \in Page
  /\ pc \in [Nav -> {"idle", "loading"} \cup Begun \cup Ended]
  /\ url \in [Nav -> Page]
  /\ joins \in [Nav -> Prefetch \cup {None}]
  /\ dest \in [Nav -> Page]
  /\ got \in [Nav -> Page \cup {None}]
  /\ latest \in Nav \cup {None}
  /\ loading \in Seq([nav : Nav, kind : {"push", "replace", "pop", "keep"}])
  /\ cache \in [Page -> Page \cup {None}]
  /\ inflight \in [Page -> Prefetch \cup {None}]
  /\ final_url \in [Page -> Page \cup {None}]
  /\ warm \in [Prefetch -> {"idle", "asked", "reading", "ended"}]
  /\ warm_url \in [Prefetch -> Page]
  /\ soft \in [Soft -> {"idle", "asked", "reading", "ended"}]
  /\ soft_url \in [Soft -> Page]
  /\ soft_latest \in Soft \cup {None}

\* Nothing is under way.
AtRest ==
  /\ \A n \in Nav : pc[n] \in {"idle", "done", "cancelled", "dropped", "stayed"}
  /\ \A i \in Soft : soft[i] \notin {"asked", "reading"}

\* The last navigation that began is the one shown: whatever was superseded on the
\* way, fetched, prefetched or cached, when nothing is under way the body is its;
\* unless that one was handed to the browser, which kept the document.
LastNavigationShown ==
  AtRest => latest = None \/ pc[latest] = "stayed" \/ (pc[latest] = "done" /\ body = got[latest])

\* A click is swallowed only while the navigation it repeats is under way
\* (`nav_target`, claimed before the chunk loads and given up in three places), or
\* was handed to the browser, which kept the document: that one never gives it up.
ClaimIsInFlight ==
  target # None =>
    \E n \in Nav :
      /\ url[n] = target
      /\ pc[n] = "loading" \/ (n = latest /\ pc[n] \in Begun \cup {"handed", "stayed"})

\* A navigation that joined a prefetch is resumed when that ends, also if a mutation
\* or an invalidation has emptied `inflight` since: what n awaits is under way, and it
\* is of the page n asks for.
JoinsAlive ==
  \A n \in Nav :
    pc[n] = "fetching" /\ joins[n] # None =>
      warm[joins[n]] \in {"asked", "reading"} /\ warm_url[joins[n]] = url[n]

\* The history is written before the fetch "so the URL is correct" (router-nav.ts)
\* and a goto replaces or pushes an entry (router.ts): when nothing is under way the
\* address, the body and the seeds are of one page, if the browser took over what
\* it was handed.
OnePage ==
  AtRest /\ (\A n \in Nav : pc[n] # "stayed") => address = body /\ seeds = body
=============================================================================
