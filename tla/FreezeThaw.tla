----------------------------- MODULE FreezeThaw -----------------------------
(* Frozen pages, the invalidation path (freeze/registry.ts `invalidate`,     *)
(* `invalidate_tags`; the store adapters' `put` and `evictByTag`).  A stored *)
(* page files a receipt under every document its render read; publishing a   *)
(* document evicts, by tag, the pages that filed under it, or, by URL, one   *)
(* page or a subtree, and purges what it evicted at the edge, if the edge is *)
(* up.                                                                       *)
(* A render reads its documents some time before its entry is put, and a     *)
(* response is some time on its way to the edge: a publish, an evict and a   *)
(* purge may all fall in between, and then the old page is stored again.     *)
(* What the properties promise is that nothing else brings it back.          *)
EXTENDS Naturals

CONSTANTS
  Page,     \* pathnames
  Doc,      \* declared sources with their arguments: one receipt tag each
  Reads,    \* Reads[p]: the documents a render of p reads
  Named,    \* the pages, alone or a subtree, that an invalidation by URL may name
  Capture,  \* renders that may store their page (any number, one at a time each)
  Fill,     \* responses on their way to the edge (any number, one at a time each)
  Thaw,     \* publishes, each followed by its invalidation
  Adapter,  \* "memory": calls are atomic.  "redis": one command at a time
  None

ASSUME ReadsAssumption == Reads \in [Page -> SUBSET Doc]
ASSUME NamedAssumption == Named \subseteq SUBSET Page
ASSUME AdapterAssumption == Adapter \in {"memory", "redis"}
ASSUME NoneAssumption == None \notin Page /\ \A pages \in SUBSET Page : pages # None

VARIABLES
  src,      \* src[d]: the published version of document d
  entries,  \* entries[p]: the stored render of p, the versions it read, or None
  index,    \* index[d]: the pages filed under d's tag
  edge,     \* edge[p]: the CDN's copy of p, or None
  reply,    \* reply[f]: a page and the copy on its way to the edge, or None
  page,     \* page[c]: the page capture c renders and puts, or None
  held,     \* held[c]: the versions its render read, until it is put; or None
  filing,   \* filing[c]: the tags capture c has still to file p under
  pc,       \* pc[i]: where the thaw i is
  what,     \* what[i]: the document thaw i publishes
  where,    \* where[i]: the pages a thaw by URL names, None for one by tag
  ver,      \* ver[i]: the version thaw i published
  members,  \* members[i]: the keys still to delete (evictByTag has read them)
  purging,  \* purging[i]: the URLs still to be purged at the edge
  unpurged  \* history: those whose purge failed, of a thaw by URL

captureVars == <<page, held, filing>>
edgeVars == <<edge, reply>>
thawVars == <<pc, what, where, ver, members, purging, unpurged>>
vars == <<src, entries, index, edgeVars, captureVars, thawVars>>

\* A stored copy: the version of each document its render read.
Copy(p) == [Reads[p] -> Nat]

Init ==
  /\ src = [d \in Doc |-> 0]
  /\ entries = [p \in Page |-> None]
  /\ index = [d \in Doc |-> {}]
  /\ edge = [p \in Page |-> None]
  /\ reply = [f \in Fill |-> None]
  /\ page = [c \in Capture |-> None]
  /\ held = [c \in Capture |-> None]
  /\ filing = [c \in Capture |-> {}]
  /\ pc = [i \in Thaw |-> "idle"]
  /\ what = [i \in Thaw |-> None]
  /\ where = [i \in Thaw |-> None]
  /\ ver = [i \in Thaw |-> 0]
  /\ members = [i \in Thaw |-> {}]
  /\ purging = [i \in Thaw |-> {}]
  /\ unpurged = [i \in Thaw |-> {}]

\* In memory, put and evictByTag run to completion: the process does nothing else
\* while one does.
Alone(busy) ==
  Adapter = "memory" =>
    /\ \A c \in Capture \ busy : filing[c] = {}
    /\ \A i \in Thaw \ busy : pc[i] \notin {"deleting", "dropping"}

-----------------------------------------------------------------------------
(* A capture: the render, then put (the entry first, then one index command  *)
(* per tag).                                                                 *)

\* A render under way, or one whose put is.
Busy(c) == page[c] # None

\* Its page, once these tags are the last ones to file it under.
PageWith(c, tags) == IF tags = {} THEN None ELSE page[c]

\* In memory a process renders a page that is not stored, once at a time (the
\* single flight).  Processes that share a store over a network do not wait for
\* each other, and a miss may be an old one by the time the render starts.
MayRender(c, p) ==
  /\ ~Busy(c)
  /\ Adapter = "memory" =>
       entries[p] = None /\ \A other \in Capture : page[other] = p => ~Busy(other)

\* Mutant of render: it keeps the version of every declared document.
render_all(c, p) ==
  /\ MayRender(c, p)
  /\ Alone({})
  /\ page' = [page EXCEPT ![c] = p]
  /\ held' = [held EXCEPT ![c] = [d \in Doc |-> src[d]]]
  /\ UNCHANGED <<src, entries, index, edgeVars, filing, thawVars>>

\* The loads read their documents; the entry these versions make is stored later, if
\* at all.
render(c, p) ==
  /\ MayRender(c, p)
  /\ Alone({})
  /\ page' = [page EXCEPT ![c] = p]
  /\ held' = [held EXCEPT ![c] = [d \in Reads[p] |-> src[d]]]
  /\ UNCHANGED <<src, entries, index, edgeVars, filing, thawVars>>

\* The verdict is no (a cookie was read, the status is not 200, the render threw):
\* nothing is stored.
refuse(c) ==
  /\ held[c] # None
  /\ Alone({})
  /\ page' = [page EXCEPT ![c] = None]
  /\ held' = [held EXCEPT ![c] = None]
  /\ UNCHANGED <<src, entries, index, edgeVars, filing, thawVars>>

\* The verdict is yes: put's first command stores what the render read.
put_entry(c) ==
  /\ held[c] # None
  /\ Alone({})
  /\ entries' = [entries EXCEPT ![page[c]] = held[c]]
  /\ held' = [held EXCEPT ![c] = None]
  /\ filing' = [filing EXCEPT ![c] = Reads[page[c]]]
  /\ page' = [page EXCEPT ![c] = PageWith(c, Reads[page[c]])]
  /\ UNCHANGED <<src, index, edgeVars, thawVars>>

\* Mutant of put_tag: only one of the render's receipts is filed.
put_tag_once(c, d) ==
  /\ d \in filing[c]
  /\ Alone({c})
  /\ index' = [index EXCEPT ![d] = @ \cup {page[c]}]
  /\ filing' = [filing EXCEPT ![c] = {}]
  /\ page' = [page EXCEPT ![c] = None]
  /\ UNCHANGED <<src, entries, edgeVars, held, thawVars>>

put_tag(c, d) ==
  /\ d \in filing[c]
  /\ Alone({c})
  /\ index' = [index EXCEPT ![d] = @ \cup {page[c]}]
  /\ filing' = [filing EXCEPT ![c] = @ \ {d}]
  /\ page' = [page EXCEPT ![c] = PageWith(c, filing[c] \ {d})]
  /\ UNCHANGED <<src, entries, edgeVars, held, thawVars>>

\* The TTL, the byte budget, or a form action's self_evict drops the entry at
\* the origin alone; its receipts stay in the index ("dead keys are tolerated").
drop(p) ==
  /\ entries[p] # None
  /\ Alone({})
  /\ entries' = [entries EXCEPT ![p] = None]
  /\ UNCHANGED <<src, index, edgeVars, captureVars, thawVars>>

\* The edge misses; the origin answers with a stored page...
edge_ask(f, p) ==
  /\ reply[f] = None
  /\ entries[p] # None
  /\ Alone({})
  /\ reply' = [reply EXCEPT ![f] = [page |-> p, copy |-> entries[p]]]
  /\ UNCHANGED <<src, entries, index, edge, captureVars, thawVars>>

\* ... and the edge stores the answer when it arrives.
edge_fill(f) ==
  /\ reply[f] # None
  /\ edge' = [edge EXCEPT ![reply[f].page] = reply[f].copy]
  /\ reply' = [reply EXCEPT ![f] = None]
  /\ UNCHANGED <<src, entries, index, captureVars, thawVars>>

-----------------------------------------------------------------------------
(* Thaws.                                                                    *)

\* A document is published; its webhook calls invalidate(fn, args), or
\* invalidate(url) or invalidateWhere(prefix) when it knows the pages that show it.
publish(i, d, pages) ==
  /\ pc[i] = "idle"
  /\ Alone({})
  /\ src' = [src EXCEPT ![d] = @ + 1]
  /\ ver' = [ver EXCEPT ![i] = src[d] + 1]
  /\ what' = [what EXCEPT ![i] = d]
  /\ where' = [where EXCEPT ![i] = pages]
  /\ pc' = [pc EXCEPT ![i] = IF pages = None THEN "reading" ELSE "evicting"]
  /\ members' = [members EXCEPT ![i] = IF pages = None THEN {} ELSE pages]
  /\ purging' = [purging EXCEPT ![i] = IF pages = None THEN {} ELSE pages]
  /\ UNCHANGED <<entries, index, edgeVars, captureVars, unpurged>>

\* evictByTag: SMEMBERS of the tag's set.
read_members(i) ==
  /\ pc[i] = "reading"
  /\ Alone({})
  /\ members' = [members EXCEPT ![i] = index[what[i]]]
  /\ pc' = [pc EXCEPT ![i] = "deleting"]
  /\ UNCHANGED <<src, entries, index, edgeVars, captureVars, what, where, ver, purging, unpurged>>

\* The keys evictByTag returns: memory names those it deleted, redis all members.
Returned(i) ==
  IF Adapter = "memory" THEN {p \in members[i] : entries[p] # None} ELSE members[i]

\* Mutant of delete_members: one key too few is deleted (an off-by-one slice).
delete_members_but_one(i) ==
  /\ pc[i] = "deleting"
  /\ Alone({i})
  /\ \E kept \in members[i] \cup {None} :
       entries' = [p \in Page |-> IF p \in members[i] \ {kept} THEN None ELSE entries[p]]
  /\ purging' = [purging EXCEPT ![i] = Returned(i)]
  /\ members' = [members EXCEPT ![i] = {}]
  /\ pc' = [pc EXCEPT ![i] = "dropping"]
  /\ UNCHANGED <<src, index, edgeVars, captureVars, what, where, ver, unpurged>>

\* DEL of the members' entries.
delete_members(i) ==
  /\ pc[i] = "deleting"
  /\ Alone({i})
  /\ entries' = [p \in Page |-> IF p \in members[i] THEN None ELSE entries[p]]
  /\ purging' = [purging EXCEPT ![i] = Returned(i)]
  /\ members' = [members EXCEPT ![i] = {}]
  /\ pc' = [pc EXCEPT ![i] = "dropping"]
  /\ UNCHANGED <<src, index, edgeVars, captureVars, what, where, ver, unpurged>>

\* DEL of the tag's set, whatever it holds by now.
drop_tag(i) ==
  /\ pc[i] = "dropping"
  /\ Alone({i})
  /\ index' = [index EXCEPT ![what[i]] = {}]
  /\ pc' = [pc EXCEPT ![i] = "purging"]
  /\ UNCHANGED <<src, entries, edgeVars, captureVars, what, where, ver, members, purging, unpurged>>

\* invalidate(url), invalidateWhere: the origin's evict is one job (in memory one
\* scan of all its keys, over a network one cursor's batch after the other)...
evict(i, batch) ==
  /\ pc[i] = "evicting"
  /\ batch \subseteq members[i] /\ (Adapter = "memory" => batch = members[i])
  /\ Alone({})
  /\ entries' = [p \in Page |-> IF p \in batch THEN None ELSE entries[p]]
  /\ members' = [members EXCEPT ![i] = @ \ batch]
  /\ pc' = [pc EXCEPT ![i] = IF batch = members[i] THEN "purging" ELSE "evicting"]
  /\ UNCHANGED <<src, index, edgeVars, captureVars, what, where, ver, purging, unpurged>>

\* Mutant of PurgeMayLand: the purge is sent before the evict.
PurgeAnyTime(i) == pc[i] \in {"purging", "evicting"}

\* ... and the edge's purge another, started with it: in memory the evict is
\* done before the purge is even sent, over a network they race.
PurgeMayLand(i) ==
  pc[i] = "purging" \/ (Adapter = "redis" /\ pc[i] = "evicting")

\* One call to the edge: a URL that evictByTag returned, or all of a page or subtree.
PurgeCall(i, pages) ==
  /\ pages \subseteq purging[i] /\ pages # {}
  /\ IF where[i] = None THEN \E p \in Page : pages = {p} ELSE pages = purging[i]
  /\ PurgeMayLand(i)
  /\ purging' = [purging EXCEPT ![i] = @ \ pages]

purge_edge(i, pages) ==
  /\ PurgeCall(i, pages)
  /\ edge' = [p \in Page |-> IF p \in pages THEN None ELSE edge[p]]
  /\ UNCHANGED <<src, entries, index, reply, captureVars, pc, what, where, ver, members, unpurged>>

\* The edge is down: settle_all warns, and nobody asks again.
purge_fails(i, pages) ==
  /\ PurgeCall(i, pages)
  /\ unpurged' = [unpurged EXCEPT ![i] = {p \in pages : where[i] # None}]
  /\ UNCHANGED <<src, entries, index, edgeVars, captureVars, pc, what, where, ver, members>>

Next ==
  \/ \E c \in Capture : \/ \E p \in Page : render(c, p)
                        \/ refuse(c) \/ put_entry(c)
                        \/ \E d \in Doc : put_tag(c, d)
  \/ \E p \in Page : drop(p) \/ \E f \in Fill : edge_ask(f, p)
  \/ \E f \in Fill : edge_fill(f)
  \/ \E i \in Thaw :
       \/ \E d \in Doc : publish(i, d, None)
       \/ \E d \in Doc, pages \in Named :
            (\E p \in pages : d \in Reads[p]) /\ publish(i, d, pages)
       \/ read_members(i) \/ delete_members(i) \/ drop_tag(i)
       \/ \E pages \in SUBSET Page :
            evict(i, pages) \/ purge_edge(i, pages) \/ purge_fails(i, pages)

Spec == Init /\ [][Next]_vars

-----------------------------------------------------------------------------
(* Properties.                                                               *)

TypeOK ==
  /\ src \in [Doc -> Nat]
  /\ \A p \in Page : entries[p] \in Copy(p) \cup {None} /\ edge[p] \in Copy(p) \cup {None}
  /\ DOMAIN entries = Page /\ DOMAIN edge = Page
  /\ index \in [Doc -> SUBSET Page]
  /\ DOMAIN reply = Fill
  /\ \A f \in Fill : reply[f] # None =>
       reply[f].page \in Page /\ reply[f].copy \in Copy(reply[f].page)
  /\ page \in [Capture -> Page \cup {None}]
  /\ DOMAIN held = Capture
  /\ \A c \in Capture : held[c] # None => page[c] \in Page /\ held[c] \in Copy(page[c])
  /\ filing \in [Capture -> SUBSET Doc]
  /\ pc \in [Thaw -> {"idle", "reading", "deleting", "dropping", "evicting", "purging"}]
  /\ what \in [Thaw -> Doc \cup {None}]
  /\ where \in [Thaw -> {None} \cup SUBSET Page]
  /\ ver \in [Thaw -> Nat]
  /\ members \in [Thaw -> SUBSET Page]
  /\ purging \in [Thaw -> SUBSET Page] /\ unpurged \in [Thaw -> SUBSET Page]

\* The receipt a put still has to file for p under d.
StillFiling(p, d) == \E c \in Capture : page[c] = p /\ d \in filing[c]

\* "Each stored page whose render called loadDoc files a receipt": a live entry
\* is in the index of every document it read, or its put is about to file it.
\* (evictByTag deletes a tag's set, and only that, after deleting its members.)
ReceiptKept ==
  \A p \in Page : entries[p] # None =>
    \A d \in Reads[p] : p \in index[d] \/ StillFiling(p, d)

\* The evicting half of thaw i is over.
Evicted(i) == pc[i] = "purging"

\* The pages thaw i is about.
Affected(i) == {p \in Page : what[i] \in Reads[p] /\ (where[i] # None => p \in where[i])}

\* A copy older than what thaw i published.
Old(i, copy) == copy # None /\ copy[what[i]] < ver[i]

\* The origin holds a page from before thaw i, which has evicted.
StaleAtOrigin(i, p) == Evicted(i) /\ p \in Affected(i) /\ Old(i, entries[p])

\* Thaw i overtook the render that capture c of p is about to store.
Overtaken(i, p) == \E c \in Capture : page[c] = p /\ Old(i, held[c]) /\ entries'[p] = held[c]

\* Once an invalidation evicted, no page that shows the document (by tag), and none of
\* the pages named, is at the origin with the old version, except one stored since by a
\* render that had read the document before it was published: nothing else brings
\* the old version back, and until such a render is stored there is none.
OriginThawed ==
  [][\A i \in Thaw, p \in Page :
       StaleAtOrigin(i, p)' => StaleAtOrigin(i, p) \/ Overtaken(i, p)]_vars

\* Thaw i named pages, and the edge has taken or refused all its purges.
Purged(i) == Evicted(i) /\ purging[i] = {} /\ where[i] # None

\* The edge holds a page thaw i named and purged, from before it.
StaleAtEdge(i, p) == Purged(i) /\ p \in Affected(i) \ unpurged[i] /\ Old(i, edge[p])

\* An old copy of p is on its way to the edge.
OnItsWay(i, p) == \E f \in Fill : reply[f] # None /\ reply[f].page = p /\ Old(i, reply[f].copy)

\* Once invalidate(url) or invalidateWhere has purged, the edge holds no old version
\* of a page named, unless the purge failed or an old response was still on its way
\* and has arrived since: one that left before the origin evicted, or one of a page
\* that OriginThawed excepts.
EdgeThawedByURL ==
  [][\A i \in Thaw, p \in Page :
       StaleAtEdge(i, p)' => StaleAtEdge(i, p) \/ (OnItsWay(i, p) /\ edge'[p] # edge[p])]_vars
=============================================================================
