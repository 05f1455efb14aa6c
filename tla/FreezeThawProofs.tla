-------------------------- MODULE FreezeThawProofs --------------------------
(* Theorems about FreezeThaw for every set of pages, documents, captures,    *)
(* responses and thaws.  The types, and what a thaw by URL promises of the   *)
(* origin, hold for every store; the rest is about the in-memory store,      *)
(* whose put and evictByTag run to completion: while a thaw is between       *)
(* evictByTag's commands nobody else is inside a call (Atomic), so the       *)
(* members it read are still the tag's set and, once deleted, stay deleted   *)
(* until the set is dropped (Evicting).  So no page from before a thaw is    *)
(* left at the step that ends its eviction, and later only the put of what a *)
(* render had read by then brings one back.  A thaw by URL evicts all it     *)
(* names before its purge may land (Subject).                                *)
EXTENDS FreezeThaw, TLAPS

\* Between the commands of evictByTag.
InEvict == {"deleting", "dropping"}

\* A capture that files receipts has put what it held.
FilingHasPage == \A c \in Capture : filing[c] # {} => page[c] \in Page /\ held[c] = None

Atomic ==
  \A i \in Thaw : pc[i] \in InEvict =>
    /\ \A c \in Capture : filing[c] = {}
    /\ \A j \in Thaw : pc[j] \in InEvict => j = i

\* What a thaw is about at each stage.
Subject ==
  \A i \in Thaw :
    /\ pc[i] # "idle" => what[i] \in Doc /\ ver[i] <= src[what[i]]
    /\ pc[i] \in InEvict \cup {"reading"} => where[i] = None
    /\ pc[i] = "evicting" =>
         where[i] \in SUBSET Page /\ members[i] = where[i] /\ purging[i] = where[i]
    /\ pc[i] = "purging" /\ where[i] # None => purging[i] \in {{}, where[i]}

Evicting ==
  \A i \in Thaw :
    /\ pc[i] = "deleting" => members[i] = index[what[i]]
    /\ pc[i] = "dropping" => \A p \in index[what[i]] : entries[p] = None

IInv ==
  /\ TypeOK
  /\ FilingHasPage
  /\ Atomic
  /\ Subject
  /\ Evicting
  /\ ReceiptKept

-----------------------------------------------------------------------------
(* Types, for every store.                                                   *)

\* The steps of a capture before its receipts, and those that move or lose a copy.
CaptureStep(c) == (\E p \in Page : render(c, p)) \/ refuse(c) \/ put_entry(c)
CopyStep ==
  \/ \E p \in Page : drop(p) \/ \E f \in Fill : edge_ask(f, p)
  \/ \E f \in Fill : edge_fill(f)

Typed == TypeOK /\ FilingHasPage /\ \A i \in Thaw : pc[i] # "idle" => what[i] \in Doc

\* Every step keeps the types, whatever the store.
LEMMA TypedStep == Typed /\ [Next]_vars => Typed'
<1> SUFFICES ASSUME Typed, [Next]_vars PROVE Typed'
  OBVIOUS
<1> USE ReadsAssumption, NoneAssumption
    DEF Typed, TypeOK, FilingHasPage, Copy, captureVars, edgeVars, thawVars
<1>1. ASSUME NEW c \in Capture, CaptureStep(c) PROVE Typed'
  <2>1. ASSUME NEW p \in Page, render(c, p) PROVE Typed'
    BY <2>1 DEF render, MayRender, Busy
  <2>2. ASSUME refuse(c) PROVE Typed'
    BY <2>2 DEF refuse
  <2>3. ASSUME put_entry(c) PROVE Typed'
    BY <2>3 DEF put_entry, PageWith
  <2> QED
    BY <1>1, <2>1, <2>2, <2>3 DEF CaptureStep
<1>2. ASSUME NEW c \in Capture, NEW d \in Doc, put_tag(c, d) PROVE Typed'
  BY <1>2 DEF put_tag, PageWith
<1>3. ASSUME NEW p \in Page, drop(p) PROVE Typed'
  BY <1>3 DEF drop
<1>4. ASSUME NEW f \in Fill, edge_fill(f) \/ \E p \in Page : edge_ask(f, p) PROVE Typed'
  BY <1>4 DEF edge_ask, edge_fill
<1>5. ASSUME NEW i \in Thaw, NEW d \in Doc, NEW pages \in {None} \cup SUBSET Page,
             publish(i, d, pages)
      PROVE  Typed'
  BY <1>5 DEF publish
<1>6. ASSUME NEW i \in Thaw, read_members(i) PROVE Typed'
  BY <1>6 DEF read_members
<1>7. ASSUME NEW i \in Thaw, delete_members(i) PROVE Typed'
  BY <1>7 DEF delete_members, Returned
<1>8. ASSUME NEW i \in Thaw, drop_tag(i) PROVE Typed'
  BY <1>8 DEF drop_tag
<1>9. ASSUME NEW i \in Thaw, NEW pages \in SUBSET Page, evict(i, pages) PROVE Typed'
  BY <1>9 DEF evict
<1>10. ASSUME NEW i \in Thaw, NEW pages \in SUBSET Page,
             purge_edge(i, pages) \/ purge_fails(i, pages)
      PROVE  Typed'
  BY <1>10 DEF purge_edge, purge_fails, PurgeCall
<1>11. CASE UNCHANGED vars
  BY <1>11 DEF vars
<1> QED
  BY NamedAssumption, <1>1, <1>2, <1>3, <1>4, <1>5, <1>6, <1>7, <1>8, <1>9, <1>10, <1>11 DEF Next, CaptureStep, CopyStep

\* The state is well typed, in memory and over a network alike.
THEOREM TypeCorrect == Spec => []TypeOK
<1>1. Init => Typed
  BY ReadsAssumption DEF Init, Typed, TypeOK, FilingHasPage, Copy
<1>2. Typed => TypeOK
  BY DEF Typed
<1> QED
  BY <1>1, <1>2, TypedStep, PTL DEF Spec

-----------------------------------------------------------------------------
(* The in-memory store.                                                      *)

\* The initial states satisfy the invariant.
LEMMA InitIInv == Init => IInv
BY ReadsAssumption DEF Init, IInv, TypeOK, Copy, FilingHasPage, Atomic, Subject, Evicting,
   ReceiptKept, InEvict

\* Who is inside a call, and what each thaw is about, survive every step.
LEMMA CallStep ==
  ASSUME Adapter = "memory", IInv, [Next]_vars
  PROVE  Atomic' /\ Subject'
<1> USE DEF IInv, TypeOK, Atomic, Subject, InEvict, captureVars, edgeVars, thawVars
<1>1. ASSUME NEW c \in Capture, CaptureStep(c) PROVE Atomic' /\ Subject'
  BY <1>1 DEF CaptureStep, render, refuse, put_entry, PageWith, Alone
<1>2. ASSUME NEW c \in Capture, NEW d \in Doc, put_tag(c, d) PROVE Atomic' /\ Subject'
  BY <1>2 DEF put_tag, PageWith, Alone
<1>3. ASSUME CopyStep PROVE Atomic' /\ Subject'
  BY <1>3 DEF CopyStep, drop, edge_ask, edge_fill
<1>4. ASSUME NEW i \in Thaw, NEW d \in Doc, NEW pages \in {None} \cup SUBSET Page,
             publish(i, d, pages)
      PROVE  Atomic' /\ Subject'
  BY <1>4 DEF publish
<1>5. ASSUME NEW i \in Thaw, read_members(i) PROVE Atomic' /\ Subject'
  BY <1>5 DEF read_members, Alone
<1>6. ASSUME NEW i \in Thaw, delete_members(i) PROVE Atomic' /\ Subject'
  BY <1>6 DEF delete_members
<1>7. ASSUME NEW i \in Thaw, drop_tag(i) PROVE Atomic' /\ Subject'
  BY <1>7 DEF drop_tag
<1>8. ASSUME NEW i \in Thaw, NEW pages \in SUBSET Page, evict(i, pages) PROVE Atomic' /\ Subject'
  BY <1>8, NoneAssumption DEF evict
<1>9. ASSUME NEW i \in Thaw, NEW pages \in SUBSET Page,
             purge_edge(i, pages) \/ purge_fails(i, pages)
      PROVE  Atomic' /\ Subject'
  BY <1>9 DEF purge_edge, purge_fails, PurgeCall, PurgeMayLand
<1>10. CASE UNCHANGED vars
  BY <1>10 DEF vars
<1> QED
  BY NamedAssumption, <1>1, <1>2, <1>3, <1>4, <1>5, <1>6, <1>7, <1>8, <1>9, <1>10 DEF Next, CaptureStep, CopyStep

\* The members deleted are the tag's set, and stay out of the store until it is dropped.
LEMMA EvictingStep ==
  ASSUME Adapter = "memory", IInv, [Next]_vars
  PROVE  Evicting'
<1> USE DEF IInv, TypeOK, Atomic, Subject, Evicting, InEvict, captureVars, edgeVars, thawVars
<1>1. ASSUME NEW c \in Capture, CaptureStep(c) PROVE Evicting'
  BY <1>1 DEF CaptureStep, render, refuse, put_entry, PageWith, Alone
<1>2. ASSUME NEW c \in Capture, NEW d \in Doc, put_tag(c, d) PROVE Evicting'
  BY <1>2 DEF put_tag, PageWith, Alone
<1>3. ASSUME CopyStep PROVE Evicting'
  BY <1>3 DEF CopyStep, drop, edge_ask, edge_fill
<1>4. ASSUME NEW i \in Thaw, NEW d \in Doc, NEW pages \in {None} \cup SUBSET Page,
             publish(i, d, pages)
      PROVE  Evicting'
  BY <1>4 DEF publish
<1>5. ASSUME NEW i \in Thaw, read_members(i) PROVE Evicting'
  BY <1>5 DEF read_members
<1>6. ASSUME NEW i \in Thaw, delete_members(i) PROVE Evicting'
  BY <1>6 DEF delete_members
<1>7. ASSUME NEW i \in Thaw, drop_tag(i) PROVE Evicting'
  BY <1>7 DEF drop_tag
<1>8. ASSUME NEW i \in Thaw, NEW pages \in SUBSET Page, evict(i, pages) PROVE Evicting'
  BY <1>8 DEF evict
<1>9. ASSUME NEW i \in Thaw, NEW pages \in SUBSET Page,
             purge_edge(i, pages) \/ purge_fails(i, pages)
      PROVE  Evicting'
  BY <1>9 DEF purge_edge, purge_fails, PurgeCall
<1>10. CASE UNCHANGED vars
  BY <1>10 DEF vars
<1> QED
  BY NamedAssumption, <1>1, <1>2, <1>3, <1>4, <1>5, <1>6, <1>7, <1>8, <1>9, <1>10 DEF Next, CaptureStep, CopyStep

\* A live entry keeps its receipts: a tag's set is dropped only when no page in it is stored.
LEMMA ReceiptStep ==
  ASSUME Adapter = "memory", IInv, [Next]_vars
  PROVE  ReceiptKept'
<1> USE DEF IInv, TypeOK, ReceiptKept, StillFiling, captureVars, edgeVars, thawVars
<1>1. ASSUME NEW c \in Capture, CaptureStep(c) PROVE ReceiptKept'
  <2> USE NoneAssumption DEF FilingHasPage
  <2>1. ASSUME NEW p \in Page, render(c, p) PROVE ReceiptKept'
    BY <2>1 DEF render, MayRender, Busy
  <2>2. ASSUME refuse(c) PROVE ReceiptKept'
    BY <2>2 DEF refuse
  <2>3. ASSUME put_entry(c) PROVE ReceiptKept'
    BY <2>3 DEF put_entry, PageWith
  <2> QED
    BY <1>1, <2>1, <2>2, <2>3 DEF CaptureStep
<1>2. ASSUME NEW c \in Capture, NEW d \in Doc, put_tag(c, d) PROVE ReceiptKept'
  <2> USE <1>2 DEF put_tag, PageWith
  <2>1. SUFFICES ASSUME NEW p \in Page, entries[p] # None, NEW e \in Reads[p],
                        ~(p \in index'[e])
                 PROVE  StillFiling(p, e)'
    OBVIOUS
  <2>2. e \in Doc
    BY <2>1, ReadsAssumption
  <2>3. PICK k \in Capture : page[k] = p /\ e \in filing[k]
    BY <2>1, <2>2
  <2>4. ~(k = c /\ e = d)
    BY <2>1, <2>2, <2>3
  <2> QED
    BY <2>3, <2>4
<1>3. ASSUME CopyStep PROVE ReceiptKept'
  BY <1>3 DEF CopyStep, drop, edge_ask, edge_fill
<1>4. ASSUME NEW i \in Thaw, NEW d \in Doc, NEW pages \in {None} \cup SUBSET Page,
             publish(i, d, pages)
      PROVE  ReceiptKept'
  BY <1>4 DEF publish
<1>5. ASSUME NEW i \in Thaw, read_members(i) PROVE ReceiptKept'
  BY <1>5 DEF read_members
<1>6. ASSUME NEW i \in Thaw, delete_members(i) PROVE ReceiptKept'
  BY <1>6 DEF delete_members
<1>7. ASSUME NEW i \in Thaw, drop_tag(i) PROVE ReceiptKept'
  BY <1>7, ReadsAssumption DEF drop_tag, Atomic, Evicting, InEvict
<1>8. ASSUME NEW i \in Thaw, NEW pages \in SUBSET Page, evict(i, pages) PROVE ReceiptKept'
  BY <1>8 DEF evict
<1>9. ASSUME NEW i \in Thaw, NEW pages \in SUBSET Page,
             purge_edge(i, pages) \/ purge_fails(i, pages)
      PROVE  ReceiptKept'
  BY <1>9 DEF purge_edge, purge_fails, PurgeCall
<1>10. CASE UNCHANGED vars
  BY <1>10 DEF vars
<1> QED
  BY NamedAssumption, <1>1, <1>2, <1>3, <1>4, <1>5, <1>6, <1>7, <1>8, <1>9, <1>10 DEF Next, CaptureStep, CopyStep

\* Every step in memory keeps the invariant.
LEMMA IInvStep == Adapter = "memory" /\ IInv /\ [Next]_vars => IInv'
<1> SUFFICES ASSUME Adapter = "memory", IInv, [Next]_vars PROVE IInv'
  OBVIOUS
<1>1. TypeOK' /\ FilingHasPage'
  BY TypedStep DEF IInv, Typed, Subject
<1> QED
  BY <1>1, CallStep, EvictingStep, ReceiptStep DEF IInv

-----------------------------------------------------------------------------
(* The theorems.                                                             *)

\* The invariant the results below rest on.
LEMMA Invariant ==
  ASSUME Adapter = "memory"
  PROVE  Spec => []IInv
<1>1. IInv /\ [Next]_vars => IInv'
  BY IInvStep
<1> QED
  BY <1>1, InitIInv, PTL DEF Spec

\* In memory a stored page is always found by every receipt its render filed,
\* however puts, drops and thaws of any number of pages interleave.
THEOREM ReceiptsFindTheirPages ==
  ASSUME Adapter = "memory"
  PROVE  Spec => []ReceiptKept
<1>1. IInv => ReceiptKept
  BY DEF IInv
<1> QED
  BY <1>1, Invariant, PTL

\* A page from before a thaw that has evicted was there and known, or a put just stored
\* what a render had read before it.
LEMMA OriginStep ==
  ASSUME Adapter = "memory", IInv, [Next]_vars, NEW i \in Thaw, NEW p \in Page,
         StaleAtOrigin(i, p)'
  PROVE  StaleAtOrigin(i, p) \/ Overtaken(i, p)
<1> USE DEF IInv, TypeOK, StaleAtOrigin, Evicted, Affected, Old, captureVars, edgeVars, thawVars
<1>1. ASSUME NEW c \in Capture, CaptureStep(c) PROVE StaleAtOrigin(i, p) \/ Overtaken(i, p)
  BY <1>1 DEF CaptureStep, render, refuse, put_entry, Overtaken
<1>2. ASSUME NEW c \in Capture, NEW d \in Doc, put_tag(c, d) PROVE StaleAtOrigin(i, p)
  BY <1>2 DEF put_tag
<1>3. ASSUME CopyStep PROVE StaleAtOrigin(i, p)
  BY <1>3 DEF CopyStep, drop, edge_ask, edge_fill
<1>4. ASSUME NEW k \in Thaw, NEW d \in Doc, NEW pages \in {None} \cup SUBSET Page,
             publish(k, d, pages)
      PROVE  StaleAtOrigin(i, p)
  BY <1>4 DEF publish
<1>5. ASSUME NEW k \in Thaw, read_members(k) PROVE StaleAtOrigin(i, p)
  BY <1>5 DEF read_members
<1>6. ASSUME NEW k \in Thaw, delete_members(k) PROVE StaleAtOrigin(i, p)
  BY <1>6 DEF delete_members
<1>7. ASSUME NEW k \in Thaw, drop_tag(k) PROVE StaleAtOrigin(i, p)
  <2> USE <1>7 DEF drop_tag
  <2>1. what[k] \in Reads[p] => entries[p] = None
    BY DEF Atomic, InEvict, ReceiptKept, StillFiling, Evicting
  <2> QED
    BY <2>1
<1>8. ASSUME NEW k \in Thaw, NEW pages \in SUBSET Page, evict(k, pages)
      PROVE  StaleAtOrigin(i, p)
  BY <1>8, NoneAssumption DEF evict, Subject
<1>9. ASSUME NEW k \in Thaw, NEW pages \in SUBSET Page,
             purge_edge(k, pages) \/ purge_fails(k, pages)
      PROVE  StaleAtOrigin(i, p)
  BY <1>9 DEF purge_edge, purge_fails, PurgeCall
<1>10. CASE UNCHANGED vars
  BY <1>10 DEF vars
<1> QED
  BY NamedAssumption, <1>1, <1>2, <1>3, <1>4, <1>5, <1>6, <1>7, <1>8, <1>9, <1>10
  DEF Next, CaptureStep, CopyStep

\* In memory, once a thaw has evicted, no page that shows its document is stored from
\* before it, but by the put of a render that had read the document before the publish.
THEOREM OriginIsThawed ==
  ASSUME Adapter = "memory"
  PROVE  Spec => OriginThawed
<1>1. IInv /\ [Next]_vars =>
        [\A i \in Thaw, p \in Page :
           StaleAtOrigin(i, p)' => StaleAtOrigin(i, p) \/ Overtaken(i, p)]_vars
  BY OriginStep
<1> QED
  BY <1>1, Invariant, PTL DEF Spec, OriginThawed

\* A page a thaw named and purged comes back to the edge from before it only by a
\* response that was on its way.
LEMMA EdgeStep ==
  ASSUME Adapter = "memory", IInv, [Next]_vars, NEW i \in Thaw, NEW p \in Page,
         StaleAtEdge(i, p)'
  PROVE  StaleAtEdge(i, p) \/ (OnItsWay(i, p) /\ edge'[p] # edge[p])
<1> USE DEF IInv, TypeOK, StaleAtEdge, Purged, Evicted, Affected, Old, captureVars, edgeVars,
           thawVars
<1>1. ASSUME NEW c \in Capture, CaptureStep(c) PROVE StaleAtEdge(i, p)
  BY <1>1 DEF CaptureStep, render, refuse, put_entry
<1>2. ASSUME NEW c \in Capture, NEW d \in Doc, put_tag(c, d) PROVE StaleAtEdge(i, p)
  BY <1>2 DEF put_tag
<1>3. ASSUME CopyStep PROVE StaleAtEdge(i, p) \/ (OnItsWay(i, p) /\ edge'[p] # edge[p])
  BY <1>3 DEF CopyStep, drop, edge_ask, edge_fill, OnItsWay
<1>4. ASSUME NEW k \in Thaw, NEW d \in Doc, NEW pages \in {None} \cup SUBSET Page,
             publish(k, d, pages)
      PROVE  StaleAtEdge(i, p)
  BY <1>4 DEF publish
<1>5. ASSUME NEW k \in Thaw, read_members(k) PROVE StaleAtEdge(i, p)
  BY <1>5 DEF read_members
<1>6. ASSUME NEW k \in Thaw, delete_members(k) PROVE StaleAtEdge(i, p)
  BY <1>6 DEF delete_members
<1>7. ASSUME NEW k \in Thaw, drop_tag(k) PROVE StaleAtEdge(i, p)
  BY <1>7 DEF drop_tag, Subject, InEvict
<1>8. ASSUME NEW k \in Thaw, NEW pages \in SUBSET Page, evict(k, pages)
      PROVE  StaleAtEdge(i, p)
  BY <1>8 DEF evict, Subject
<1>9. ASSUME NEW k \in Thaw, NEW pages \in SUBSET Page,
             purge_edge(k, pages) \/ purge_fails(k, pages)
      PROVE  StaleAtEdge(i, p)
  BY <1>9 DEF purge_edge, purge_fails, PurgeCall, PurgeMayLand, Subject
<1>10. CASE UNCHANGED vars
  BY <1>10 DEF vars
<1> QED
  BY NamedAssumption, <1>1, <1>2, <1>3, <1>4, <1>5, <1>6, <1>7, <1>8, <1>9, <1>10
  DEF Next, CaptureStep, CopyStep

\* In memory, once invalidate(url) has purged, the edge gets no page it named from before
\* it, but by a response that was on its way.
THEOREM EdgeIsThawedByURL ==
  ASSUME Adapter = "memory"
  PROVE  Spec => EdgeThawedByURL
<1>1. IInv /\ [Next]_vars =>
        [\A i \in Thaw, p \in Page :
           StaleAtEdge(i, p)' => StaleAtEdge(i, p) \/ (OnItsWay(i, p) /\ edge'[p] # edge[p])]_vars
  BY EdgeStep
<1> QED
  BY <1>1, Invariant, PTL DEF Spec, EdgeThawedByURL

-----------------------------------------------------------------------------
(* Thaws by URL, for every store.                                            *)

\* A thaw that is inside evictByTag named no pages.
ByTag == \A i \in Thaw : pc[i] \in InEvict \cup {"reading"} => where[i] = None

\* Every step keeps it, whatever the store.
LEMMA ByTagStep == Typed /\ ByTag /\ [Next]_vars => ByTag'
<1> SUFFICES ASSUME Typed, ByTag, [Next]_vars PROVE ByTag'
  OBVIOUS
<1> USE DEF Typed, TypeOK, ByTag, InEvict, captureVars, edgeVars, thawVars
<1>1. ASSUME NEW c \in Capture, CaptureStep(c) PROVE ByTag'
  BY <1>1 DEF CaptureStep, render, refuse, put_entry
<1>2. ASSUME NEW c \in Capture, NEW d \in Doc, put_tag(c, d) PROVE ByTag'
  BY <1>2 DEF put_tag
<1>3. ASSUME CopyStep PROVE ByTag'
  BY <1>3 DEF CopyStep, drop, edge_ask, edge_fill
<1>4. ASSUME NEW i \in Thaw, NEW d \in Doc, NEW pages \in {None} \cup SUBSET Page,
             publish(i, d, pages)
      PROVE  ByTag'
  BY <1>4 DEF publish
<1>5. ASSUME NEW i \in Thaw, read_members(i) \/ delete_members(i) \/ drop_tag(i) PROVE ByTag'
  BY <1>5 DEF read_members, delete_members, drop_tag
<1>6. ASSUME NEW i \in Thaw, NEW pages \in SUBSET Page,
             evict(i, pages) \/ purge_edge(i, pages) \/ purge_fails(i, pages)
      PROVE  ByTag'
  BY <1>6 DEF evict, purge_edge, purge_fails, PurgeCall
<1>7. CASE UNCHANGED vars
  BY <1>7 DEF vars
<1> QED
  BY NamedAssumption, <1>1, <1>2, <1>3, <1>4, <1>5, <1>6, <1>7 DEF Next, CaptureStep, CopyStep

\* A page thaw i named and has done with is at the origin from before it.
StaleNamed(i, p) ==
  where[i] # None /\ p \in Affected(i) \ members[i] /\ Old(i, entries[p])

\* OriginThawed for the thaws by URL, batch by batch of their eviction.
OriginThawedByURL ==
  [][\A i \in Thaw, p \in Page :
       StaleNamed(i, p)' => StaleNamed(i, p) \/ Overtaken(i, p)]_vars

\* A page named and evicted comes back from before the thaw only by the put of a render
\* the thaw overtook.
LEMMA NamedStep ==
  ASSUME Typed, ByTag, [Next]_vars, NEW i \in Thaw, NEW p \in Page, StaleNamed(i, p)'
  PROVE  StaleNamed(i, p) \/ Overtaken(i, p)
<1> USE DEF Typed, TypeOK, StaleNamed, Affected, Old, captureVars, edgeVars, thawVars
<1>1. ASSUME NEW c \in Capture, CaptureStep(c) PROVE StaleNamed(i, p) \/ Overtaken(i, p)
  BY <1>1 DEF CaptureStep, render, refuse, put_entry, Overtaken
<1>2. ASSUME NEW c \in Capture, NEW d \in Doc, put_tag(c, d) PROVE StaleNamed(i, p)
  BY <1>2 DEF put_tag
<1>3. ASSUME CopyStep PROVE StaleNamed(i, p)
  BY <1>3 DEF CopyStep, drop, edge_ask, edge_fill
<1>4. ASSUME NEW k \in Thaw, NEW d \in Doc, NEW pages \in {None} \cup SUBSET Page,
             publish(k, d, pages)
      PROVE  StaleNamed(i, p)
  BY <1>4 DEF publish
<1>5. ASSUME NEW k \in Thaw, read_members(k) \/ delete_members(k) \/ drop_tag(k)
      PROVE  StaleNamed(i, p)
  BY <1>5 DEF read_members, delete_members, drop_tag, ByTag, InEvict
<1>6. ASSUME NEW k \in Thaw, NEW pages \in SUBSET Page, evict(k, pages)
      PROVE  StaleNamed(i, p)
  BY <1>6 DEF evict
<1>7. ASSUME NEW k \in Thaw, NEW pages \in SUBSET Page,
             purge_edge(k, pages) \/ purge_fails(k, pages)
      PROVE  StaleNamed(i, p)
  BY <1>7 DEF purge_edge, purge_fails, PurgeCall
<1>8. CASE UNCHANGED vars
  BY <1>8 DEF vars
<1> QED
  BY NamedAssumption, <1>1, <1>2, <1>3, <1>4, <1>5, <1>6, <1>7, <1>8
  DEF Next, CaptureStep, CopyStep

\* In memory and over a network alike, and however puts fall between the batches of an
\* eviction, a page that invalidate(url) or invalidateWhere has evicted is not stored
\* from before it, but by the put of a render that had read the document before the
\* publish.
THEOREM OriginIsThawedByURL == Spec => OriginThawedByURL
<1>1. Init => Typed /\ ByTag
  BY ReadsAssumption DEF Init, Typed, TypeOK, FilingHasPage, Copy, ByTag, InEvict
<1>2. Typed /\ ByTag /\ [Next]_vars => Typed' /\ ByTag'
  BY TypedStep, ByTagStep
<1>3. Typed /\ ByTag /\ [Next]_vars =>
        [\A i \in Thaw, p \in Page :
           StaleNamed(i, p)' => StaleNamed(i, p) \/ Overtaken(i, p)]_vars
  BY NamedStep
<1> QED
  BY <1>1, <1>2, <1>3, PTL DEF Spec, OriginThawedByURL
=============================================================================
