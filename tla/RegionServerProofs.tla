-------------------------- MODULE RegionServerProofs --------------------------
(* RegionServer for every set of requests, calls, sessions and pages, every   *)
(* limit and every clock: capabilities outlive the documents they came with,  *)
(* the memo mixes nobody's renders and serves none past its time, and the      *)
(* gate counts its renders, idles on none, and keeps its limit as long as      *)
(* nobody comes in ahead of a waiter that was called.                          *)
EXTENDS RegionServer, FiniteSetTheorems, TLAPS

-----------------------------------------------------------------------------
(* Capabilities.                                                              *)

\* Dividing rounds down, to a multiple the divisor away at most.
LEMMA DivBounds ==
  ASSUME NEW a \in Nat, NEW b \in Nat \ {0}
  PROVE /\ a \div b \in Nat
        /\ (a \div b) * b <= a /\ a < (a \div b) * b + b
  OBVIOUS

\* A window is at least a second long, and at least half the lifetime, rounded down.
LEMMA WindowType ==
  ASSUME NEW ttl \in Nat
  PROVE Window(ttl) \in Nat \ {0} /\ Window(ttl) >= ttl \div 2
<1>1. ttl \div 2 \in Nat
  BY DivBounds
<1> QED
  BY <1>1 DEF Window, Larger

\* A capability minted now expires after the next whole window, and no later than
\* two windows from now: of a lifetime of two seconds or more, between half of it
\* and all of it (`capability_expiry`).
LEMMA ExpiryBounds ==
  ASSUME NEW m \in Nat, NEW ttl \in Nat
  PROVE /\ Expiry(m, ttl) \in Nat
        /\ m + Window(ttl) < Expiry(m, ttl)
        /\ Expiry(m, ttl) <= m + 2 * Window(ttl)
<1> DEFINE w == Window(ttl)
           k == m \div w
<1>1. w \in Nat \ {0}
  BY WindowType
<1>2. k \in Nat /\ k * w <= m /\ m < k * w + w
  BY <1>1, DivBounds
<1>3. k * w \in Nat
  BY <1>1, <1>2
<1>4. Expiry(m, ttl) = k * w + 2 * w
  <2>1. Expiry(m, ttl) = (k + 2) * w
    BY DEF Expiry
  <2> HIDE DEF w, k
  <2> QED
    BY <1>1, <1>2, <2>1
<1> HIDE DEF k
<1> QED
  BY <1>1, <1>2, <1>3, <1>4

\* What a document's header allows shared caches is a number of seconds.
Header == [closed : BOOLEAN, shared : Nat \cup {NotSaid}, fresh : Nat \cup {NotSaid},
           revalidate : Nat]

LEMMA SharedType == \A header \in Header : SharedLifetime(header) \in Nat
  BY DEF Header, SharedLifetime, Larger, NotSaid

\* Twice the shared lifetime is a lifetime whose window covers it.
LEMMA MintCovers ==
  ASSUME NEW shared \in Nat, 2 * shared <= StoredTtl
  PROVE /\ MintTtl(FALSE, FALSE, shared) \in Nat
        /\ shared <= Window(MintTtl(FALSE, FALSE, shared))
<1> DEFINE ttl == MintTtl(FALSE, FALSE, shared)
<1>1. ttl \in Nat /\ 2 * shared <= ttl
  BY TtlAssumption DEF MintTtl, Smaller, Larger
<1>2. Window(ttl) \in Nat /\ Window(ttl) >= ttl \div 2
  BY <1>1, WindowType
<1>3. ttl \in Nat /\ shared <= Window(ttl)
  <2> HIDE DEF ttl
  <2>1. ttl \div 2 \in Nat /\ ttl < (ttl \div 2) * 2 + 2
    BY <1>1, DivBounds
  <2> QED
    BY <1>1, <1>2, <2>1
<1> QED
  BY <1>3

\* What is minted is a lifetime.
LEMMA MintType ==
  ASSUME NEW session \in BOOLEAN, NEW shared \in Nat
  PROVE MintTtl(FALSE, session, shared) \in Nat
  BY TtlAssumption DEF MintTtl, Smaller, Larger

\* An anonymous hole outlives the document it came with: as long as shared caches may
\* serve the document its header describes, the capability minted with it has not
\* expired (`mint_ttl_sec`, unless the cap of PRERENDER_REGION_TTL_SEC bites).
THEOREM HoleOutlivesDocument ==
  ASSUME NEW header \in Header, NEW m \in Nat, NEW now_sec \in Nat,
         2 * SharedLifetime(header) <= StoredTtl,
         now_sec - m <= SharedLifetime(header)
  PROVE ~Expired(Expiry(m, MintTtl(FALSE, FALSE, SharedLifetime(header))), now_sec)
<1> DEFINE shared == SharedLifetime(header)
           ttl == MintTtl(FALSE, FALSE, shared)
<1>1. shared \in Nat
  BY SharedType
<1>2. ttl \in Nat /\ shared <= Window(ttl)
  BY <1>1, MintCovers
<1>3. Expiry(m, ttl) \in Nat /\ m + Window(ttl) < Expiry(m, ttl) /\ Window(ttl) \in Nat
  BY <1>2, ExpiryBounds, WindowType
<1>4. now_sec < Expiry(m, ttl)
  <2>1. now_sec - m <= shared
    OBVIOUS
  <2> HIDE DEF shared, ttl
  <2> QED
    BY <1>1, <1>2, <1>3, <2>1
<1>5. Expiry(m, ttl) \in Nat
  BY <1>3
<1> HIDE DEF shared, ttl
<1>6. ~Expired(Expiry(m, ttl), now_sec)
  BY <1>4, <1>5 DEF Expired
<1> QED
  BY <1>6 DEF ttl, shared

-----------------------------------------------------------------------------
(* The gate, the memo and the answers.                                        *)

\* Who waits for a slot, or was called to one, is queued, once.
Queue ==
  /\ \A i \in 1 .. Len(waiting) : stage[waiting[i]] = "queued" /\ waiting[i] \notin resumed
  /\ \A i, j \in 1 .. Len(waiting) : waiting[i] = waiting[j] => i = j
  /\ \A r \in resumed : stage[r] = "queued"

\* A kept render is of its key's call and visitor, of its page if the call reads it,
\* and expires within the call's ttl of when it read its data.
MemoIsKeyed ==
  \A k \in Key : memo[k] # None =>
    /\ memo[k].html.call = k.call /\ memo[k].html.visitor = k.visitor
    /\ k.call \in ReadsPage => memo[k].html.page = k.page
    /\ memo[k].expires <= memo[k].html.read + Ttl[k.call]

\* Answers are for those answered, and a render began after its request.
Served ==
  \A r \in Request : /\ answer[r] # None => stage[r] = "answered"
                     /\ started[r] <= now
                     /\ stage[r] = "rendering" => started[r] <= read[r]

IInv == TypeOK /\ SlotsAreRenders /\ NoSlotIdles /\ Queue /\ MemoIsKeyed /\ Served /\ AnswerIsOwn

\* The requests that hold a slot.
Renders == {r \in Request : stage[r] = "rendering"}

LEMMA RendersFinite ==
  IsFiniteSet(Renders) /\ Cardinality(Renders) \in Nat /\ (resumed \subseteq Request => IsFiniteSet(resumed) /\ Cardinality(resumed) \in Nat)
  BY RequestAssumption, FS_Subset, FS_CardinalityType DEF Renders

LEMMA InitIInv == Init => IInv
<1> SUFFICES ASSUME Init PROVE IInv
  OBVIOUS
<1> USE DEF Init
<1>1. 0 \in Time /\ 1 \in Time /\ Anonymous \in Visitor
  BY BoundAssumption DEF Time, Visitor
<1>2. TypeOK
  BY <1>1 DEF TypeOK, Stages, NoCap
<1>3. SlotsAreRenders
  <2>1. Renders = {}
    BY DEF Renders
  <2> QED
    BY <2>1, FS_EmptySet DEF SlotsAreRenders, Renders
<1>4. NoSlotIdles /\ Queue /\ MemoIsKeyed /\ Served /\ AnswerIsOwn
  BY DEF NoSlotIdles, Queue, MemoIsKeyed, Served, AnswerIsOwn
<1> QED
  BY <1>2, <1>3, <1>4 DEF IInv

\* A step of request r that neither takes nor gives a slot leaves the gate as it was.
LEMMA GateKeeps ==
  ASSUME IInv, UNCHANGED gate, NEW r \in Request, NEW s, s # "rendering",
         stage[r] \notin {"rendering", "queued"},
         stage' = [stage EXCEPT ![r] = s]
  PROVE SlotsAreRenders' /\ NoSlotIdles' /\ Queue'
<1>1. Renders' = Renders
  BY DEF IInv, TypeOK, Renders
<1>2. SlotsAreRenders' /\ NoSlotIdles'
  BY <1>1 DEF IInv, SlotsAreRenders, NoSlotIdles, gate, Renders
<1>3. \A q \in Request : stage[q] = "queued" => stage'[q] = "queued"
  BY DEF IInv, TypeOK
<1>4. \A i \in 1 .. Len(waiting) : waiting[i] \in Request
  BY DEF IInv, TypeOK
<1>5. Queue'
  BY <1>3, <1>4 DEF IInv, TypeOK, Queue, gate
<1> QED
  BY <1>2, <1>5

\* The checks move a request on that was answered nothing.
LEMMA PassesKeeps ==
  ASSUME IInv, NEW r \in Request, stage[r] \in {"idle", "expired"},
         NEW verdict \in {"expired", "refused", "checked"},
         NEW asked \in Asks \cup {None},
         IF verdict = "refused" THEN asked = None ELSE asked \in Asks,
         NEW c \in [sealed : Visitor, exp : Nat, current : BOOLEAN],
         Passes(r, verdict, asked, c)
  PROVE IInv'
<1>1. TypeOK'
  BY DEF Passes, IInv, TypeOK, Stages, gate
<1>2. SlotsAreRenders' /\ NoSlotIdles' /\ Queue'
  BY GateKeeps DEF Passes
<1>3. MemoIsKeyed'
  BY DEF Passes, IInv, MemoIsKeyed
<1>4. Served'
  BY DEF Passes, IInv, TypeOK, Served
<1>5. AnswerIsOwn'
  BY DEF Passes, IInv, TypeOK, Served, AnswerIsOwn
<1> QED
  BY <1>1, <1>2, <1>3, <1>4, <1>5 DEF IInv

LEMMA ArriveKeeps == ASSUME IInv, NEW r \in Request, Arrive(r) PROVE IInv'
<1>1. PICK sealed \in Visitor, asked \in Visits, m \in 0 .. now, shared \in Lifetime :
        LET exp == Expiry(m, MintTtl(FALSE, sealed # Anonymous, shared))
            c == [sealed |-> sealed, exp |-> exp, current |-> now - m <= shared]
        IN /\ sealed # Anonymous => shared = 0
           /\ \/ Expired(exp, now) /\ Passes(r, "expired", asked, c)
              \/ ~Expired(exp, now) /\ Passes(r, "refused", None, NoCap)
              \/ ~Expired(exp, now) /\ sealed = asked.visitor /\ Passes(r, "checked", asked, NoCap)
  BY DEF Arrive
<1> DEFINE exp == Expiry(m, MintTtl(FALSE, sealed # Anonymous, shared))
           c == [sealed |-> sealed, exp |-> exp, current |-> now - m <= shared]
<1>2. m \in Nat /\ shared \in Nat
  BY BoundAssumption DEF IInv, TypeOK, Time
<1>3. exp \in Nat
  <2>1. (sealed # Anonymous) \in BOOLEAN
    OBVIOUS
  <2>2. MintTtl(FALSE, sealed # Anonymous, shared) \in Nat
    BY <1>2, <2>1, MintType
  <2> QED
    BY <1>2, <2>2, ExpiryBounds
<1>4. c \in [sealed : Visitor, exp : Nat, current : BOOLEAN]
  <2> HIDE DEF exp
  <2> QED
    BY <1>3
<1>5. NoCap \in [sealed : Visitor, exp : Nat, current : BOOLEAN]
  BY DEF NoCap, Visitor
<1>6. asked \in Asks /\ stage[r] = "idle"
  BY VisitsAssumption DEF Arrive, Asks, Visitor
<1>7. \/ Passes(r, "expired", asked, c)
      \/ Passes(r, "refused", None, NoCap)
      \/ Passes(r, "checked", asked, NoCap)
  BY <1>1
<1> HIDE DEF c
<1> QED
  BY <1>4, <1>5, <1>6, <1>7, PassesKeeps

LEMMA RenewKeeps == ASSUME IInv, NEW r \in Request, Renew(r) PROVE IInv'
<1>1. NoCap \in [sealed : Visitor, exp : Nat, current : BOOLEAN]
  BY DEF NoCap, Visitor
<1>2. asks[r] \in Asks /\ stage[r] = "expired"
  BY DEF Renew, IInv, TypeOK
<1>3. Passes(r, "refused", None, NoCap) \/ Passes(r, "checked", asks[r], NoCap)
  BY DEF Renew
<1> QED
  BY <1>1, <1>2, <1>3, PassesKeeps

\* A visit's key.
LEMMA KeyType ==
  ASSUME NEW a \in Asks
  PROVE /\ KeyOf(a) \in Key
        /\ KeyOf(a).call = a.call /\ KeyOf(a).visitor = a.visitor
        /\ a.call \in ReadsPage => KeyOf(a).page = a.page
  BY DEF KeyOf, Key, Asks

\* Who is answered from the memo is answered with its own call, page and session.
LEMMA LookupKeeps == ASSUME IInv, NEW r \in Request, Lookup(r) PROVE IInv'
<1>0. stage[r] = "checked" /\ asks[r] \in Asks /\ KeyOf(asks[r]) \in Key /\ answer[r] = None
  BY KeyType DEF Lookup, IInv, TypeOK, Served
<1>1. SlotsAreRenders' /\ NoSlotIdles' /\ Queue'
  BY <1>0, GateKeeps DEF Lookup
<1>2. MemoIsKeyed'
  BY DEF Lookup, IInv, MemoIsKeyed
<1>3. CASE Held(asks[r])
  <2> DEFINE e == memo[KeyOf(asks[r])]
  <2>1. /\ stage' = [stage EXCEPT ![r] = "answered"]
        /\ answer' = [answer EXCEPT ![r] = e.html]
        /\ UNCHANGED <<now, asks, cap, started, read, memo, gate>>
    BY <1>3 DEF Lookup
  <2>2. e \in Entry /\ e # None
    BY <1>0, <1>3 DEF Held, IInv, TypeOK
  <2>3. /\ e.html.call = asks[r].call /\ e.html.visitor = asks[r].visitor
        /\ asks[r].call \in ReadsPage => e.html.page = asks[r].page
    BY <1>0, <2>2, KeyType DEF IInv, MemoIsKeyed
  <2>4. e.html \in Html
    BY <2>2 DEF Entry
  <2> HIDE DEF e
  <2>5. TypeOK'
    BY <1>0, <2>1, <2>4 DEF IInv, TypeOK, Stages, gate
  <2>6. Served'
    BY <1>0, <2>1 DEF IInv, TypeOK, Served
  <2>7. AnswerIsOwn'
    BY <1>0, <2>1, <2>3 DEF IInv, TypeOK, AnswerIsOwn
  <2> QED
    BY <1>1, <1>2, <2>5, <2>6, <2>7 DEF IInv
<1>4. CASE ~Held(asks[r])
  <2>1. /\ stage' = [stage EXCEPT ![r] = "missed"]
        /\ started' = [started EXCEPT ![r] = now]
        /\ UNCHANGED <<now, asks, cap, read, answer, memo, gate>>
    BY <1>4 DEF Lookup
  <2>2. TypeOK'
    BY <1>0, <2>1 DEF IInv, TypeOK, Stages, gate
  <2>3. Served'
    BY <1>0, <2>1 DEF IInv, TypeOK, Served, Time
  <2>4. AnswerIsOwn'
    BY <1>0, <2>1 DEF IInv, TypeOK, AnswerIsOwn
  <2> QED
    BY <1>1, <1>2, <2>2, <2>3, <2>4 DEF IInv
<1> QED
  BY <1>3, <1>4

\* A request that holds a slot from now on.
LEMMA SlotTaken ==
  ASSUME IInv, NEW r \in Request, stage[r] # "rendering",
         stage' = [stage EXCEPT ![r] = "rendering"], active' = active + 1
  PROVE SlotsAreRenders' /\ active' \in Nat
<1>1. Renders' = Renders \cup {r} /\ r \notin Renders
  BY DEF IInv, TypeOK, Renders
<1>2. Cardinality(Renders') = Cardinality(Renders) + 1
  BY <1>1, RendersFinite, FS_AddElement
<1> QED
  BY <1>2 DEF IInv, TypeOK, SlotsAreRenders, Renders

LEMMA AskKeeps == ASSUME IInv, NEW r \in Request, Ask(r) PROVE IInv'
<1>0. /\ stage[r] = "missed" /\ asks[r] \in Asks /\ active \in Nat
      /\ waiting \in Seq(Request) /\ resumed \subseteq Request
      /\ stage \in [Request -> Stages] /\ answer[r] = None
      /\ now \in Time
  BY DEF Ask, IInv, TypeOK, Served
<1>1. UNCHANGED <<now, asks, cap, started, answer, memo, resumed>>
  BY DEF Ask
<1>2. MemoIsKeyed' /\ AnswerIsOwn'
  BY <1>1 DEF IInv, MemoIsKeyed, AnswerIsOwn
<1>3. CASE active >= Limit
  <2>1. /\ stage' = [stage EXCEPT ![r] = "queued"] /\ waiting' = Append(waiting, r)
        /\ UNCHANGED <<active, read>>
    BY <1>3 DEF Ask
  <2>2. TypeOK'
    BY <1>0, <1>1, <2>1 DEF IInv, TypeOK, Stages
  <2>3. SlotsAreRenders'
    <3>1. Renders' = Renders
      BY <1>0, <2>1 DEF Renders
    <3> QED
      BY <2>1, <3>1 DEF IInv, SlotsAreRenders, Renders
  <2>4. NoSlotIdles'
    BY <1>0, <1>1, <1>3, <2>1, RendersFinite, LimitAssumption DEF NoSlotIdles
  <2>5. Queue'
    <3>1. /\ Len(waiting') = Len(waiting) + 1 /\ Len(waiting) \in Nat
          /\ \A i \in 1 .. Len(waiting) : waiting'[i] = waiting[i] /\ waiting[i] \in Request
          /\ waiting'[Len(waiting) + 1] = r
      BY <1>0, <2>1
    <3>2. \A q \in Request : stage[q] = "queued" => stage'[q] = "queued" /\ q # r
      BY <1>0, <2>1
    <3>3. stage'[r] = "queued" /\ r \notin resumed
      BY <1>0, <2>1 DEF IInv, Queue
    <3>4. \A i \in 1 .. Len(waiting) : waiting[i] # r /\ stage'[waiting[i]] = "queued"
                                       /\ waiting[i] \notin resumed
      BY <3>1, <3>2 DEF IInv, Queue
    <3>5. \A i \in 1 .. Len(waiting') : i \in 1 .. Len(waiting) \/ i = Len(waiting) + 1
      BY <3>1
    <3>6. \A i \in 1 .. Len(waiting') : stage'[waiting'[i]] = "queued" /\ waiting'[i] \notin resumed'
      BY <1>1, <3>1, <3>3, <3>4, <3>5
    <3>7. \A i, j \in 1 .. Len(waiting') : waiting'[i] = waiting'[j] => i = j
      BY <3>1, <3>4, <3>5 DEF IInv, Queue
    <3>8. \A q \in resumed' : stage'[q] = "queued"
      BY <1>0, <1>1, <3>2 DEF IInv, Queue
    <3> QED
      BY <3>6, <3>7, <3>8 DEF Queue
  <2>6. Served'
    BY <1>0, <1>1, <2>1 DEF IInv, TypeOK, Served
  <2> QED
    BY <1>2, <2>2, <2>3, <2>4, <2>5, <2>6 DEF IInv
<1>4. CASE ~(active >= Limit)
  <2>1. /\ stage' = [stage EXCEPT ![r] = "rendering"] /\ active' = active + 1
        /\ read' = [read EXCEPT ![r] = now] /\ UNCHANGED waiting
    BY <1>4 DEF Ask
  <2>2. SlotsAreRenders' /\ active' \in Nat
    BY <1>0, <2>1, SlotTaken
  <2>3. TypeOK'
    BY <1>0, <1>1, <2>1, <2>2 DEF IInv, TypeOK, Stages
  <2>4. NoSlotIdles'
    BY <1>0, <1>1, <2>1, RendersFinite, LimitAssumption DEF IInv, NoSlotIdles
  <2>5. Queue'
    <3>1. \A q \in Request : stage[q] = "queued" => stage'[q] = "queued"
      BY <1>0, <2>1
    <3>2. \A i \in 1 .. Len(waiting) : waiting[i] \in Request
      BY <1>0
    <3> QED
      BY <1>0, <1>1, <2>1, <3>1, <3>2 DEF IInv, Queue
  <2>6. Served'
    BY <1>0, <1>1, <2>1 DEF IInv, TypeOK, Served, Time
  <2> QED
    BY <1>2, <2>2, <2>3, <2>4, <2>5, <2>6 DEF IInv
<1> QED
  BY <1>3, <1>4

LEMMA ResumeKeeps == ASSUME IInv, NEW r \in Request, Resume(r) PROVE IInv'
<1>0. /\ r \in resumed /\ stage[r] = "queued" /\ asks[r] \in Asks /\ active \in Nat
      /\ waiting \in Seq(Request) /\ resumed \subseteq Request
      /\ stage \in [Request -> Stages] /\ answer[r] = None /\ now \in Time
  BY DEF Resume, IInv, TypeOK, Queue, Served
<1>1. /\ resumed' = resumed \ {r} /\ stage' = [stage EXCEPT ![r] = "rendering"]
      /\ active' = active + 1 /\ read' = [read EXCEPT ![r] = now]
      /\ UNCHANGED <<now, asks, cap, started, answer, memo, waiting>>
  BY DEF Resume
<1>2. MemoIsKeyed' /\ AnswerIsOwn'
  BY <1>1 DEF IInv, MemoIsKeyed, AnswerIsOwn
<1>3. SlotsAreRenders' /\ active' \in Nat
  BY <1>0, <1>1, SlotTaken
<1>4. TypeOK'
  BY <1>0, <1>1, <1>3 DEF IInv, TypeOK, Stages
<1>5. NoSlotIdles'
  <2>1. IsFiniteSet(resumed) /\ Cardinality(resumed) \in Nat
    BY <1>0, RendersFinite
  <2>2. Cardinality(resumed') = Cardinality(resumed) - 1
    BY <1>0, <1>1, <2>1, FS_RemoveElement
  <2> QED
    BY <1>0, <1>1, <2>1, <2>2, LimitAssumption DEF IInv, NoSlotIdles
<1>6. Queue'
  <2>1. \A i \in 1 .. Len(waiting) : waiting[i] \in Request /\ waiting[i] # r
    BY <1>0 DEF IInv, Queue
  <2>2. \A q \in Request : q # r /\ stage[q] = "queued" => stage'[q] = "queued"
    BY <1>0, <1>1
  <2> QED
    BY <1>0, <1>1, <2>1, <2>2 DEF IInv, Queue
<1>7. Served'
  BY <1>0, <1>1 DEF IInv, TypeOK, Served, Time
<1> QED
  BY <1>2, <1>3, <1>4, <1>5, <1>6, <1>7 DEF IInv

\* A slot given back is counted once, and the first who waits is called.
LEMMA LeaveKeeps ==
  ASSUME IInv, NEW r \in Request, stage[r] = "rendering", Leave,
         NEW s \in {"answered", "ended"}, stage' = [stage EXCEPT ![r] = s]
  PROVE /\ active' \in Nat /\ waiting' \in Seq(Request) /\ resumed' \subseteq Request
        /\ SlotsAreRenders' /\ NoSlotIdles' /\ Queue'
<1>0. /\ active \in Nat /\ waiting \in Seq(Request) /\ resumed \subseteq Request
      /\ stage \in [Request -> Stages] /\ active' = active - 1
  BY DEF IInv, TypeOK, Leave, GivenBack
<1>1. Renders' = Renders \ {r} /\ r \in Renders
  BY <1>0 DEF Renders
<1>2. Cardinality(Renders') = Cardinality(Renders) - 1 /\ Cardinality(Renders') \in Nat
  <2>1. IsFiniteSet(Renders')
    BY <1>1, RendersFinite, FS_Subset
  <2> QED
    BY <1>1, <2>1, RendersFinite, FS_RemoveElement, FS_CardinalityType
<1>3. active' \in Nat /\ SlotsAreRenders'
  BY <1>0, <1>2 DEF IInv, SlotsAreRenders, Renders
<1>4. \A q \in Request : stage[q] = "queued" => stage'[q] = "queued"
  BY <1>0
<1>5. \A i \in 1 .. Len(waiting) : waiting[i] \in Request
  BY <1>0
<1>6. IsFiniteSet(resumed) /\ Cardinality(resumed) \in Nat
  BY <1>0, RendersFinite
<1>7. CASE waiting = <<>>
  <2>1. waiting' = waiting /\ resumed' = resumed
    BY <1>7 DEF Leave, Called
  <2>2. Queue'
    BY <1>0, <1>4, <1>5, <2>1 DEF IInv, Queue
  <2> QED
    BY <1>0, <1>3, <1>7, <2>1, <2>2 DEF NoSlotIdles
<1>8. CASE waiting # <<>>
  <2> DEFINE h == Head(waiting)
  <2>1. waiting' = Tail(waiting) /\ resumed' = resumed \cup {h}
    BY <1>8 DEF Leave, Called
  <2>2. /\ Len(waiting) \in Nat \ {0} /\ h = waiting[1] /\ h \in Request
        /\ waiting' \in Seq(Request) /\ Len(waiting') = Len(waiting) - 1
        /\ \A i \in 1 .. Len(waiting') : waiting'[i] = waiting[i + 1] /\ i + 1 \in 1 .. Len(waiting)
    BY <1>0, <1>8, <2>1
  <2>3. 1 \in 1 .. Len(waiting)
    BY <2>2
  <2>4. h \notin resumed /\ stage[h] = "queued"
    BY <2>2, <2>3 DEF IInv, Queue
  <2>5. Cardinality(resumed') = Cardinality(resumed) + 1
    BY <1>6, <2>1, <2>4, FS_AddElement
  <2>6. NoSlotIdles'
    BY <1>0, <1>6, <1>8, <2>5, LimitAssumption DEF IInv, NoSlotIdles
  <2>7. \A i \in 1 .. Len(waiting') : waiting'[i] # h
    BY <2>2, <2>3 DEF IInv, Queue
  <2>8. Queue'
    <3>1. \A i \in 1 .. Len(waiting') : stage'[waiting'[i]] = "queued" /\ waiting'[i] \notin resumed'
      BY <1>4, <1>5, <2>1, <2>2, <2>7 DEF IInv, Queue
    <3>2. \A i, j \in 1 .. Len(waiting') : waiting'[i] = waiting'[j] => i = j
      <4> SUFFICES ASSUME NEW i \in 1 .. Len(waiting'), NEW j \in 1 .. Len(waiting'),
                          waiting'[i] = waiting'[j]
                   PROVE i = j
        OBVIOUS
      <4>1. waiting[i + 1] = waiting[j + 1] /\ i + 1 \in 1 .. Len(waiting) /\ j + 1 \in 1 .. Len(waiting)
        BY <2>2
      <4>2. i + 1 = j + 1
        BY <4>1 DEF IInv, Queue
      <4> QED
        BY <2>2, <4>2
    <3>3. \A q \in resumed' : stage'[q] = "queued"
      BY <1>0, <1>4, <2>1, <2>2, <2>4 DEF IInv, Queue
    <3> QED
      BY <3>1, <3>2, <3>3 DEF Queue
  <2> QED
    BY <1>0, <1>3, <2>1, <2>2, <2>6, <2>8
<1> QED
  BY <1>7, <1>8

\* What is kept under a request's key is its own, and of a render that began after
\* its request.
LEMMA RenderedKeeps == ASSUME IInv, NEW r \in Request, Rendered(r) PROVE IInv'
<1> DEFINE html == [call |-> asks[r].call, visitor |-> asks[r].visitor, page |-> asks[r].page,
                    read |-> read[r]]
<1>0. /\ stage[r] = "rendering" /\ asks[r] \in Asks /\ stage \in [Request -> Stages]
      /\ started[r] <= read[r] /\ read[r] \in Time /\ started[r] \in Time
  BY DEF Rendered, IInv, TypeOK, Served
<1>1. /\ Leave /\ stage' = [stage EXCEPT ![r] = "answered"]
      /\ answer' = [answer EXCEPT ![r] = html] /\ memo' = Stored(r, html)
      /\ started' = [started EXCEPT ![r] = 0] /\ read' = [read EXCEPT ![r] = 0]
      /\ UNCHANGED <<now, asks, cap>>
  BY DEF Rendered
<1>2. html \in Html /\ asks[r].call \in Call
  BY <1>0 DEF Html, Asks
<1>3. html.call = asks[r].call /\ html.visitor = asks[r].visitor /\ html.page = asks[r].page
      /\ html.read = read[r]
  OBVIOUS
<1>4. /\ active' \in Nat /\ waiting' \in Seq(Request) /\ resumed' \subseteq Request
      /\ SlotsAreRenders' /\ NoSlotIdles' /\ Queue'
  BY <1>0, <1>1, LeaveKeeps
<1> HIDE DEF html
<1>5. /\ Expires(r) \in Nat /\ Expires(r) <= read[r] + Ttl[asks[r].call]
      /\ 0 \in Time
  BY <1>0, <1>2, CallAssumption, BoundAssumption DEF Expires, Time
<1>6. memo' \in [Key -> Entry \cup {None}]
  <2>1. [html |-> html, expires |-> Expires(r)] \in Entry
    BY <1>2, <1>5 DEF Entry
  <2> QED
    BY <1>1, <2>1 DEF Stored, IInv, TypeOK
<1>7. TypeOK'
  BY <1>0, <1>1, <1>2, <1>4, <1>5, <1>6 DEF IInv, TypeOK, Stages
<1>8. MemoIsKeyed'
  <2> SUFFICES ASSUME NEW k \in Key, memo'[k] # None
               PROVE /\ memo'[k].html.call = k.call /\ memo'[k].html.visitor = k.visitor
                     /\ k.call \in ReadsPage => memo'[k].html.page = k.page
                     /\ memo'[k].expires <= memo'[k].html.read + Ttl[k.call]
    BY DEF MemoIsKeyed
  <2>1. CASE memo'[k] = memo[k]
    BY <2>1 DEF IInv, MemoIsKeyed
  <2>2. CASE memo'[k] # memo[k]
    <3>1. /\ k = KeyOf(asks[r])
          /\ memo'[k] = [html |-> html, expires |-> Expires(r)]
      BY <1>1, <2>2 DEF Stored, IInv, TypeOK
    <3> QED
      BY <1>0, <1>3, <1>5, <3>1, KeyType
  <2> QED
    BY <2>1, <2>2
<1>9. Served'
  BY <1>0, <1>1, <1>5 DEF IInv, TypeOK, Served, Time
<1>10. AnswerIsOwn'
  BY <1>0, <1>1, <1>3 DEF IInv, TypeOK, AnswerIsOwn
<1> QED
  BY <1>4, <1>7, <1>8, <1>9, <1>10 DEF IInv

LEMMA EndsKeeps == ASSUME IInv, NEW r \in Request, EndsWithout(r) PROVE IInv'
<1>0. /\ stage[r] = "rendering" /\ stage \in [Request -> Stages] /\ answer[r] = None
      /\ 0 \in Time /\ now \in Time
  BY BoundAssumption DEF EndsWithout, IInv, TypeOK, Served, Time
<1>1. /\ Leave /\ stage' = [stage EXCEPT ![r] = "ended"]
      /\ started' = [started EXCEPT ![r] = 0] /\ read' = [read EXCEPT ![r] = 0]
      /\ asks' = [asks EXCEPT ![r] = None] /\ UNCHANGED <<now, cap, answer, memo>>
  BY DEF EndsWithout
<1>2. /\ active' \in Nat /\ waiting' \in Seq(Request) /\ resumed' \subseteq Request
      /\ SlotsAreRenders' /\ NoSlotIdles' /\ Queue'
  BY <1>0, <1>1, LeaveKeeps
<1>3. TypeOK'
  BY <1>0, <1>1, <1>2 DEF IInv, TypeOK, Stages
<1>4. MemoIsKeyed'
  BY <1>1 DEF IInv, MemoIsKeyed
<1>5. Served' /\ AnswerIsOwn'
  BY <1>0, <1>1 DEF IInv, TypeOK, Served, AnswerIsOwn, Time
<1> QED
  BY <1>2, <1>3, <1>4, <1>5 DEF IInv

LEMMA StepKeeps == IInv /\ [Next]_vars => IInv'
<1> SUFFICES ASSUME IInv, [Next]_vars PROVE IInv'
  OBVIOUS
<1>1. ASSUME NEW r \in Request, Handle(r) PROVE IInv'
  BY <1>1, ArriveKeeps, RenewKeeps, LookupKeeps, AskKeeps, ResumeKeeps, RenderedKeeps, EndsKeeps
     DEF Handle
<1>2. ASSUME NEW k \in Key, Evict(k) PROVE IInv'
  <2>1. memo' = [memo EXCEPT ![k] = None] /\ UNCHANGED <<now, request, gate>>
    BY <1>2 DEF Evict
  <2>2. TypeOK'
    BY <2>1 DEF IInv, TypeOK, request, gate
  <2>3. SlotsAreRenders' /\ NoSlotIdles' /\ Queue' /\ Served' /\ AnswerIsOwn'
    BY <2>1 DEF IInv, SlotsAreRenders, NoSlotIdles, Queue, Served, AnswerIsOwn, request, gate
  <2>4. MemoIsKeyed'
    BY <2>1 DEF IInv, TypeOK, MemoIsKeyed
  <2> QED
    BY <2>2, <2>3, <2>4 DEF IInv
<1>3. ASSUME Tick PROVE IInv'
  <2>1. now' = now + 1 /\ now < MaxNow /\ UNCHANGED <<request, memo, gate>>
    BY <1>3 DEF Tick
  <2>2. TypeOK'
    BY <2>1, BoundAssumption DEF IInv, TypeOK, Time, request, gate
  <2>3. SlotsAreRenders' /\ NoSlotIdles' /\ Queue' /\ AnswerIsOwn' /\ MemoIsKeyed'
    BY <2>1 DEF IInv, SlotsAreRenders, NoSlotIdles, Queue, AnswerIsOwn, MemoIsKeyed, request, gate
  <2>4. Served'
    BY <2>1, BoundAssumption DEF IInv, TypeOK, Served, Time, request
  <2> QED
    BY <2>2, <2>3, <2>4 DEF IInv
<1>4. ASSUME UNCHANGED vars PROVE IInv'
  <2>1. UNCHANGED <<now, request, memo, gate>>
    BY <1>4 DEF vars
  <2>2. TypeOK' /\ MemoIsKeyed' /\ Served' /\ AnswerIsOwn'
    BY <2>1 DEF IInv, TypeOK, MemoIsKeyed, Served, AnswerIsOwn, request, gate
  <2>3. SlotsAreRenders' /\ NoSlotIdles' /\ Queue'
    BY <2>1 DEF IInv, SlotsAreRenders, NoSlotIdles, Queue, request, gate
  <2> QED
    BY <2>2, <2>3 DEF IInv
<1> QED
  BY <1>1, <1>2, <1>3, <1>4 DEF Next

-----------------------------------------------------------------------------
(* The theorems.                                                              *)

\* The server's invariant, in every instance.
THEOREM Invariant == Spec => []IInv
<1> QED
  BY InitIInv, StepKeeps, PTL DEF Spec

\* The endpoint's state keeps its types.
THEOREM TypeCorrect == Spec => []TypeOK
<1>1. IInv => TypeOK
  BY DEF IInv
<1> QED
  BY <1>1, Invariant, PTL

\* However many visitors, pages and renders, an answer is of its request's own call
\* and session, and of its page when the call reads it (`#hole_cache_key`).
THEOREM AnswersAreOwn == Spec => []AnswerIsOwn
<1>1. IInv => AnswerIsOwn
  BY DEF IInv
<1> QED
  BY <1>1, Invariant, PTL

\* Whatever the limit, the gate's count is the number of the renders that hold a slot,
\* and nobody waits while a slot is free that nobody was called to (`run`'s finally).
THEOREM GateCounts == Spec => []GateIsExact
<1>1. IInv => GateIsExact
  BY DEF IInv, GateIsExact
<1> QED
  BY <1>1, Invariant, PTL

\* A request of its own step is the only one whose answer changes.
LEMMA OthersKeep ==
  ASSUME IInv, [Next]_vars, NEW r \in Request, answer'[r] # answer[r] \/ stage'[r] # stage[r]
  PROVE Handle(r)
<1>1. ASSUME NEW q \in Request, Handle(q), q # r PROVE FALSE
  BY <1>1 DEF Handle, Arrive, Renew, Passes, Lookup, Ask, Resume, Rendered, EndsWithout, IInv, TypeOK
<1>2. ASSUME NEW k \in Key, Evict(k) PROVE FALSE
  BY <1>2 DEF Evict, request
<1>3. ~Tick /\ ~UNCHANGED vars
  BY DEF Tick, vars, request
<1> QED
  BY <1>1, <1>2, <1>3 DEF Next

\* A hole never shows data older than its ttl when it was asked for: an entry's life is
\* counted from its request's start, which its data is no older than (`expires`).
THEOREM HolesAreFresh == Spec => FreshEnough
<1> DEFINE Fresh == \A r \in Request : answer'[r] # answer[r] =>
             LET asked == IF stage[r] = "checked" THEN now ELSE started[r] IN
             answer'[r].read >= asked \/ asked - answer'[r].read < Ttl[asks[r].call]
<1>1. IInv /\ [Next]_vars => [Fresh]_vars
  <2> SUFFICES ASSUME IInv, [Next]_vars, vars' # vars, NEW r \in Request, answer'[r] # answer[r]
               PROVE LET asked == IF stage[r] = "checked" THEN now ELSE started[r] IN
                     answer'[r].read >= asked \/ asked - answer'[r].read < Ttl[asks[r].call]
    OBVIOUS
  <2>1. Lookup(r) \/ Rendered(r)
    BY OthersKeep DEF Handle, Arrive, Renew, Passes, Ask, Resume, EndsWithout
  <2>2. CASE Lookup(r)
    <3> DEFINE a == asks[r]
               e == memo[KeyOf(a)]
    <3>1. stage[r] = "checked" /\ Held(a) /\ answer' = [answer EXCEPT ![r] = e.html]
      BY <2>2 DEF Lookup
    <3>2. a \in Asks /\ KeyOf(a) \in Key /\ KeyOf(a).call = a.call /\ now \in Nat
      <4>1. stage[r] = "checked"
        BY <3>1
      <4>2. now \in Nat
        BY DEF IInv, TypeOK, Time
      <4>3. a \in Asks
        BY <4>1 DEF IInv, TypeOK
      <4> HIDE DEF a
      <4> QED
        BY <4>2, <4>3, KeyType
    <3>3. e \in Entry /\ e # None /\ now < e.expires
      BY <3>1, <3>2 DEF Held, IInv, TypeOK
    <3>4. /\ e.expires <= e.html.read + Ttl[a.call] /\ e.expires \in Nat /\ e.html.read \in Nat
          /\ Ttl[a.call] \in Nat
      BY <3>2, <3>3, CallAssumption DEF IInv, MemoIsKeyed, Entry, Html, Time, Asks
    <3>5. answer'[r] = e.html
      BY <3>1 DEF IInv, TypeOK
    <3> HIDE DEF e
    <3>6. now - answer'[r].read < Ttl[asks[r].call]
      BY <3>2, <3>3, <3>4, <3>5
    <3> QED
      BY <3>1, <3>6
  <2>3. CASE Rendered(r)
    <3>1. stage[r] = "rendering" /\ started[r] <= read[r]
      BY <2>3 DEF Rendered, IInv, Served
    <3>2. answer'[r].read = read[r]
      BY <2>3 DEF Rendered, IInv, TypeOK
    <3>3. started[r] \in Nat /\ read[r] \in Nat
      BY DEF IInv, TypeOK, Time
    <3>4. answer'[r].read >= started[r]
      BY <3>1, <3>2, <3>3
    <3> QED
      BY <3>1, <3>4
  <2> QED
    BY <2>1, <2>2, <2>3
<1> QED
  BY <1>1, Invariant, PTL DEF Spec, FreshEnough

\* No anonymous hole of a document that shared caches may still serve is refused as
\* expired, whatever their lifetime, up to half of PRERENDER_REGION_TTL_SEC.
THEOREM HolesOutliveTheirPage ==
  ASSUME \A shared \in Lifetime : 2 * shared <= StoredTtl
  PROVE Spec => OutlivesItsPage
<1> DEFINE Outlives == \A r \in Request : stage[r] = "idle" /\ stage'[r] = "expired" =>
             cap'[r].sealed # Anonymous \/ ~cap'[r].current
<1>1. IInv /\ [Next]_vars => [Outlives]_vars
  <2> SUFFICES ASSUME IInv, [Next]_vars, vars' # vars, NEW r \in Request,
                      stage[r] = "idle", stage'[r] = "expired",
                      cap'[r].sealed = Anonymous, cap'[r].current
               PROVE FALSE
    OBVIOUS
  <2>1. Handle(r) /\ ~Resume(r)
    BY OthersKeep DEF Resume, IInv, Queue
  <2>2. Arrive(r)
    BY <2>1 DEF Handle, Renew, Lookup, Ask, Rendered, EndsWithout
  <2>3. PICK sealed \in Visitor, asked \in Visits, m \in 0 .. now, shared \in Lifetime :
          LET exp == Expiry(m, MintTtl(FALSE, sealed # Anonymous, shared))
              c == [sealed |-> sealed, exp |-> exp, current |-> now - m <= shared]
          IN \/ Expired(exp, now) /\ Passes(r, "expired", asked, c)
             \/ Passes(r, "refused", None, NoCap)
             \/ Passes(r, "checked", asked, NoCap)
    BY <2>2 DEF Arrive
  <2> DEFINE exp == Expiry(m, MintTtl(FALSE, sealed # Anonymous, shared))
             c == [sealed |-> sealed, exp |-> exp, current |-> now - m <= shared]
  <2>4. Expired(exp, now) /\ cap'[r] = c
    <3>1. \A verdict, a, d : Passes(r, verdict, a, d) => stage'[r] = verdict /\ cap'[r] = d
      BY DEF Passes, IInv, TypeOK
    <3> HIDE DEF exp, c
    <3>2. \/ Expired(exp, now) /\ Passes(r, "expired", asked, c)
          \/ Passes(r, "refused", None, NoCap)
          \/ Passes(r, "checked", asked, NoCap)
      BY <2>3 DEF exp, c
    <3> QED
      BY <3>1, <3>2
  <2>5. sealed = Anonymous /\ now - m <= shared
    <3>1. c.sealed = sealed /\ c.current = (now - m <= shared)
      OBVIOUS
    <3> HIDE DEF c, exp
    <3>2. c.sealed = Anonymous /\ c.current
      BY <2>4
    <3> QED
      BY <3>1, <3>2
  <2> DEFINE ttl == MintTtl(FALSE, FALSE, shared)
  <2>6. Expiry(m, ttl) < now
    BY <2>4, <2>5 DEF Expired
  <2>7. shared \in Nat /\ m \in Nat /\ now \in Nat /\ 2 * shared <= StoredTtl
    BY BoundAssumption DEF IInv, TypeOK, Time
  <2>8. ttl \in Nat /\ shared <= Window(ttl)
    BY <2>7, MintCovers
  <2>9. Expiry(m, ttl) \in Nat /\ m + Window(ttl) < Expiry(m, ttl) /\ Window(ttl) \in Nat
    BY <2>7, <2>8, ExpiryBounds, WindowType
  <2> HIDE DEF ttl, c, exp
  <2> QED
    BY <2>5, <2>6, <2>7, <2>8, <2>9
<1> QED
  BY <1>1, Invariant, PTL DEF Spec, OutlivesItsPage

-----------------------------------------------------------------------------
(* What the gate's cap takes.                                                 *)

\* Nobody asks for a slot between a leaver's call and the called waiter's continuation:
\* what the caller of `run` would have to ensure, and the endpoint does not.
NoBarging == [][\A r \in Request : Ask(r) => TaskEnds]_vars

\* The slots taken, and those promised to the waiters called, are within the limit.
SlotsPromised == active + Cardinality(resumed) <= Limit

LEMMA PromisesKept ==
  ASSUME IInv, SlotsPromised, [Next]_vars, [\A r \in Request : Ask(r) => TaskEnds]_vars
  PROVE SlotsPromised'
<1>0. /\ active \in Nat /\ waiting \in Seq(Request) /\ resumed \subseteq Request
      /\ IsFiniteSet(resumed) /\ Cardinality(resumed) \in Nat /\ Limit \in Nat
  BY RendersFinite, LimitAssumption DEF IInv, TypeOK
<1>1. ASSUME UNCHANGED <<active, resumed>> PROVE SlotsPromised'
  BY <1>1 DEF SlotsPromised
<1>2. ASSUME NEW r \in Request, Ask(r) PROVE SlotsPromised'
  <2>1. vars' # vars
    <3>1. stage'[r] # stage[r]
      BY <1>2 DEF Ask, IInv, TypeOK
    <3> QED
      BY <3>1 DEF vars, request
  <2>2. resumed = {} /\ resumed' = {}
    BY <1>2, <2>1 DEF TaskEnds, Ask
  <2>3. Cardinality(resumed') = 0
    BY <2>2, FS_EmptySet
  <2> QED
    BY <1>0, <1>2, <2>2, <2>3 DEF Ask, SlotsPromised
<1>3. ASSUME NEW r \in Request, Resume(r) PROVE SlotsPromised'
  <2>1. Cardinality(resumed') = Cardinality(resumed) - 1
    BY <1>0, <1>3, FS_RemoveElement DEF Resume
  <2> QED
    BY <1>0, <1>3, <2>1 DEF Resume, SlotsPromised
<1>4. ASSUME Leave PROVE SlotsPromised'
  <2>1. CASE waiting = <<>>
    <3>1. resumed' = resumed /\ active' = active - 1
      BY <1>4, <2>1 DEF Leave, Called, GivenBack
    <3> QED
      BY <1>0, <3>1 DEF SlotsPromised
  <2>2. CASE waiting # <<>>
    <3>1. resumed' = resumed \cup {waiting[1]} /\ active' = active - 1
      BY <1>0, <1>4, <2>2 DEF Leave, Called, GivenBack
    <3>2. waiting[1] \notin resumed
      BY <1>0, <2>2 DEF IInv, Queue
    <3>3. Cardinality(resumed') = Cardinality(resumed) + 1
      BY <1>0, <3>1, <3>2, FS_AddElement
    <3> QED
      BY <1>0, <3>1, <3>3 DEF SlotsPromised
  <2> QED
    BY <2>1, <2>2
<1>5. ASSUME NEW r \in Request, Handle(r) PROVE SlotsPromised'
  BY <1>1, <1>2, <1>3, <1>4, <1>5 DEF Handle, Arrive, Renew, Passes, Lookup, Rendered,
     EndsWithout, gate
<1>6. ASSUME (\E k \in Key : Evict(k)) \/ Tick \/ UNCHANGED vars PROVE SlotsPromised'
  BY <1>1, <1>6 DEF Evict, Tick, vars, gate
<1> QED
  BY <1>5, <1>6 DEF Next

\* The barging of a newcomer is all that breaks the cap: for any limit and any requests,
\* were no slot asked for between a call and its continuation, the gate would never run
\* more than it is allowed to (`concurrency.ts`: "Caps in-flight work").
THEOREM CapHoldsWithoutBarging == Spec /\ NoBarging => []NeverExceeds
<1>1. Init => SlotsPromised
  BY FS_EmptySet, LimitAssumption DEF Init, SlotsPromised
<1>2. IInv /\ SlotsPromised /\ [Next]_vars /\ [\A r \in Request : Ask(r) => TaskEnds]_vars
      => SlotsPromised'
  BY PromisesKept
<1>3. IInv /\ SlotsPromised => NeverExceeds
  BY RendersFinite, LimitAssumption DEF IInv, TypeOK, SlotsPromised, NeverExceeds
<1> QED
  BY <1>1, <1>2, <1>3, Invariant, PTL DEF Spec, NoBarging
=============================================================================
