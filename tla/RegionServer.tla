----------------------------- MODULE RegionServer -----------------------------
(* The islands endpoint (hooks.ts render_region, render_batch and             *)
(* #render_capability): a hole's request with its capability checked, its     *)
(* render memo (server/render-cache.ts) and the gate that caps renders        *)
(* (runtime/concurrency.ts).  The memo's byte budget is any eviction, a       *)
(* visitor's request budgets (server/rate-limit.ts) are any refusal, and a    *)
(* render reads its data as it begins, the earliest it can.                   *)
EXTENDS Capability, FiniteSets, Sequences

CONSTANTS
  Request,       \* requests, each of one hole
  Call,          \* a region and its props
  Ttl,           \* the seconds its render may be kept, 0 for none
  ReadsPage,     \* the calls whose server tree reads page.data
  Session,       \* the values of the session cookie
  Anonymous,     \* no cookie
  Page,          \* the pages a hole sits on
  Visits,        \* what is asked: calls, by visitors, on pages
  AnyPage,       \* its place in a key that no page is part of
  None,          \* no answer, no entry
  Lifetime,      \* shared-cache lifetimes of the documents
  Limit,         \* REGION_RENDER_CONCURRENCY
  MaxNow         \* bound: the clock

ASSUME CallAssumption == Ttl \in [Call -> Nat] /\ ReadsPage \subseteq Call
ASSUME SessionAssumption == Anonymous \notin Session /\ AnyPage \notin Page
ASSUME VisitsAssumption ==
  Visits \subseteq [call : Call, visitor : Session \cup {Anonymous}, page : Page]
ASSUME LimitAssumption == Limit \in Nat \ {0}
ASSUME BoundAssumption == MaxNow \in Nat \ {0} /\ Lifetime \subseteq Nat
ASSUME RequestAssumption == IsFiniteSet(Request)

Visitor == Session \cup {Anonymous}

VARIABLES
  now,        \* Date.now(), in seconds (at 0 the first documents were rendered)
  stage,      \* where each request is
  asks,       \* its call, the visitor and the page of its request (None when none is
              \* being served)
  cap,        \* its expired capability: the session sealed in, its expiry, and
              \* whether shared caches may still serve the document it came with
  started,    \* when it reached the memo (0 once it is over)
  read,       \* when its render began (0 once it is over)
  answer,     \* the HTML it was answered with
  memo,       \* the store of render-cache.ts
  active,     \* the gate: #active
  waiting,    \* #wait
  resumed     \* waiters called, whose continuation has not run

request == <<stage, asks, cap, started, read, answer>>
gate == <<active, waiting, resumed>>
vars == <<now, request, memo, gate>>

Time == 0..MaxNow
Asks == [call : Call, visitor : Visitor, page : Page]
Html == [call : Call, visitor : Visitor, page : Page, read : Time]
Key == [call : Call, visitor : Visitor, page : Page \cup {AnyPage}]
Entry == [html : Html, expires : Nat]
Stages == {"idle", "expired", "refused", "checked", "missed", "queued", "rendering",
           "answered", "ended"}
NoCap == [sealed |-> Anonymous, exp |-> 0, current |-> FALSE]

TypeOK ==
  /\ now \in Time
  /\ stage \in [Request -> Stages]
  /\ asks \in [Request -> Asks \cup {None}]
  /\ \A r \in Request : IF stage[r] \in {"idle", "refused", "ended"} THEN asks[r] = None ELSE asks[r] \in Asks
  /\ cap \in [Request -> [sealed : Visitor, exp : Nat, current : BOOLEAN]]
  /\ started \in [Request -> Time] /\ read \in [Request -> Time]
  /\ answer \in [Request -> Html \cup {None}]
  /\ memo \in [Key -> Entry \cup {None}]
  /\ active \in Nat /\ waiting \in Seq(Request) /\ resumed \subseteq Request

Init ==
  /\ now = 1
  /\ stage = [r \in Request |-> "idle"]
  /\ asks = [r \in Request |-> None]
  /\ cap = [r \in Request |-> NoCap]
  /\ started = [r \in Request |-> 0] /\ read = [r \in Request |-> 0]
  /\ answer = [r \in Request |-> None]
  /\ memo = [k \in Key |-> None]
  /\ active = 0 /\ waiting = <<>> /\ resumed = {}

-----------------------------------------------------------------------------
(* A called waiter's continuation is a microtask: only continuations queued   *)
(* before it run first, a render's end or a request whose page was looked up. *)
TaskEnds == resumed = {}

(* The checks, in one step: expiry, the probe budget, the signature over the  *)
(* session, the render budget.                                                *)

Passes(r, verdict, asked, capability) ==
  /\ asks' = [asks EXCEPT ![r] = asked]
  /\ stage' = [stage EXCEPT ![r] = verdict]
  /\ cap' = [cap EXCEPT ![r] = capability]
  /\ UNCHANGED <<now, started, read, answer, memo, gate>>

(* A hole of a document rendered at m for the visitor `sealed`, which shared  *)
(* caches keep for `shared` seconds, is asked by a visitor who may have       *)
(* logged in or out since.                                                    *)
Arrive(r) ==
  /\ TaskEnds /\ stage[r] = "idle"
  /\ \E sealed \in Visitor, asked \in Visits, m \in 0..now, shared \in Lifetime :
       LET exp == Expiry(m, MintTtl(FALSE, sealed # Anonymous, shared))
           c == [sealed |-> sealed, exp |-> exp, current |-> now - m <= shared]
       IN /\ sealed # Anonymous => shared = 0
          /\ \/ Expired(exp, now) /\ Passes(r, "expired", asked, c)
             \/ ~Expired(exp, now) /\ Passes(r, "refused", None, NoCap)
             \/ ~Expired(exp, now) /\ sealed = asked.visitor /\ Passes(r, "checked", asked, NoCap)

(* The runtime asks once more, to renew it: an anonymous hole is signed anew. *)
Renew(r) ==
  /\ TaskEnds /\ stage[r] = "expired"
  /\ LET renews == /\ Renewable(cap[r].exp, now)
                   /\ asks[r].visitor = Anonymous /\ cap[r].sealed = Anonymous
     IN \/ Passes(r, "refused", None, NoCap)
        \/ renews /\ Passes(r, "checked", asks[r], NoCap)

-----------------------------------------------------------------------------
(* The memo.                                                                  *)

\* Mutant of KeyOf: the memo is shared by all visitors.
KeyOfAll(a) == [call |-> a.call, visitor |-> Anonymous,
                page |-> IF a.call \in ReadsPage THEN a.page ELSE AnyPage]
KeyOf(a) == [call |-> a.call, visitor |-> a.visitor,
             page |-> IF a.call \in ReadsPage THEN a.page ELSE AnyPage]

Held(a) == LET e == memo[KeyOf(a)] IN
  Ttl[a.call] > 0 /\ e # None /\ now < e.expires

Lookup(r) ==
  /\ TaskEnds /\ stage[r] = "checked"
  /\ IF Held(asks[r])
     THEN /\ stage' = [stage EXCEPT ![r] = "answered"]
          /\ answer' = [answer EXCEPT ![r] = memo[KeyOf(asks[r])].html]
          /\ UNCHANGED started
     ELSE /\ stage' = [stage EXCEPT ![r] = "missed"]
          /\ started' = [started EXCEPT ![r] = now]
          /\ UNCHANGED answer
  /\ UNCHANGED <<now, asks, cap, read, memo, gate>>

\* Mutant of Expires: the life of an entry is counted from its render's end.
ExpiresFromNow(r) == now + Ttl[asks[r].call]
Expires(r) == started[r] + Ttl[asks[r].call]

(* The render's memo is that of its request's start.                          *)
Stored(r, html) ==
  IF Ttl[asks[r].call] = 0 THEN memo
  ELSE [memo EXCEPT ![KeyOf(asks[r])] = [html |-> html, expires |-> Expires(r)]]

Evict(k) ==
  /\ memo[k] # None
  /\ memo' = [memo EXCEPT ![k] = None]
  /\ UNCHANGED <<now, request, gate>>

-----------------------------------------------------------------------------
(* The gate.                                                                  *)

(* Its page is looked up; then it asks for a slot.                            *)
Ask(r) ==
  /\ stage[r] = "missed"
  /\ IF active >= Limit
     THEN /\ stage' = [stage EXCEPT ![r] = "queued"]
          /\ waiting' = Append(waiting, r)
          /\ UNCHANGED <<active, read>>
     ELSE /\ stage' = [stage EXCEPT ![r] = "rendering"]
          /\ active' = active + 1
          /\ read' = [read EXCEPT ![r] = now]
          /\ UNCHANGED waiting
  /\ UNCHANGED <<now, asks, cap, started, answer, memo, resumed>>

(* A waiter's continuation: it enters, whatever the count is by now.          *)
Resume(r) ==
  /\ r \in resumed
  /\ resumed' = resumed \ {r}
  /\ stage' = [stage EXCEPT ![r] = "rendering"]
  /\ active' = active + 1
  /\ read' = [read EXCEPT ![r] = now]
  /\ UNCHANGED <<now, asks, cap, started, answer, memo, waiting>>

\* Mutant of Called: nobody is called when a slot is given back.
CalledNever == <<>>
Called == IF waiting = <<>> THEN <<>> ELSE <<Head(waiting)>>

\* Mutants of GivenBack: the timeout and the render both give the slot back;
\* neither does.
GivenBackTwice == active - 2
GivenBackNever == active
GivenBack == active - 1

(* The finally of run.                                                        *)
Leave ==
  /\ active' = GivenBack
  /\ waiting' = IF Called = <<>> THEN waiting ELSE Tail(waiting)
  /\ resumed' = resumed \cup {Called[i] : i \in DOMAIN Called}

(* It ends with a body, which is kept: the hole's HTML, or the marker of a    *)
(* fallback that is right as it is.                                           *)
Rendered(r) ==
  LET html == [call |-> asks[r].call, visitor |-> asks[r].visitor, page |-> asks[r].page,
               read |-> read[r]]
  IN /\ stage[r] = "rendering"
     /\ Leave
     /\ stage' = [stage EXCEPT ![r] = "answered"]
     /\ answer' = [answer EXCEPT ![r] = html]
     /\ memo' = Stored(r, html)
     /\ started' = [started EXCEPT ![r] = 0] /\ read' = [read EXCEPT ![r] = 0]
     /\ UNCHANGED <<now, asks, cap>>

(* It throws (keepFallback, an error) or times out: nothing is kept.          *)
EndsWithout(r) ==
  /\ stage[r] = "rendering"
  /\ Leave
  /\ stage' = [stage EXCEPT ![r] = "ended"]
  /\ started' = [started EXCEPT ![r] = 0] /\ read' = [read EXCEPT ![r] = 0]
  /\ asks' = [asks EXCEPT ![r] = None]
  /\ UNCHANGED <<now, cap, answer, memo>>

Tick ==
  /\ TaskEnds /\ now < MaxNow
  /\ now' = now + 1
  /\ UNCHANGED <<request, memo, gate>>

-----------------------------------------------------------------------------
Handle(r) == \/ Arrive(r) \/ Renew(r) \/ Lookup(r) \/ Ask(r) \/ Resume(r)
             \/ Rendered(r) \/ EndsWithout(r)

Next == \/ \E r \in Request : Handle(r)
        \/ \E k \in Key : Evict(k)
        \/ Tick

(* A continuation runs; a render ends, by the timeout at the latest.          *)
Fairness == \A r \in Request : /\ WF_vars(Lookup(r)) /\ WF_vars(Ask(r)) /\ WF_vars(Resume(r))
                               /\ WF_vars(Rendered(r) \/ EndsWithout(r))

Spec == Init /\ [][Next]_vars /\ Fairness

-----------------------------------------------------------------------------
(* No answer crosses visitors: the HTML is of the request's call, of its      *)
(* visitor's session and, when the call reads page.data, of its page          *)
(* (render-cache.ts: "a per-user render is never served to another user").    *)
AnswerIsOwn ==
  \A r \in Request : answer[r] # None =>
    /\ answer[r].call = asks[r].call /\ answer[r].visitor = asks[r].visitor
    /\ asks[r].call \in ReadsPage => answer[r].page = asks[r].page

(* A hole shows data at most its ttl old when it was asked for, however long  *)
(* renders took and whichever of them was stored last (render-cache.ts).      *)
FreshEnough ==
  [][\A r \in Request : answer'[r] # answer[r] =>
       LET asked == IF stage[r] = "checked" THEN now ELSE started[r] IN
       answer'[r].read >= asked \/ asked - answer'[r].read < Ttl[asks[r].call]]_vars

(* An anonymous hole of a document within its shared-cache lifetime is never  *)
(* refused as expired (shared-cache.ts: "a deferred hole's capability must    *)
(* outlive the document it sits in").                                         *)
OutlivesItsPage ==
  [][\A r \in Request : stage[r] = "idle" /\ stage'[r] = "expired" =>
       cap'[r].sealed # Anonymous \/ ~cap'[r].current]_vars

(* The gate counts the renders that hold a slot, and keeps none waiting while *)
(* a slot is free that nobody was called to (concurrency.ts run).             *)
SlotsAreRenders == active = Cardinality({r \in Request : stage[r] = "rendering"})
NoSlotIdles == waiting # <<>> => active + Cardinality(resumed) >= Limit

(* Both: no end of a render, by its answer, an error or the timeout, loses a  *)
(* slot or gives one back twice (concurrency.ts's finally).                   *)
GateIsExact == SlotsAreRenders /\ NoSlotIdles

(* Every request that queued for a slot gets one (concurrency.ts: "waiters    *)
(* queue FIFO").                                                              *)
Enters(r) == stage[r] = "queued" ~> stage[r] = "rendering"

(* The gate's cap: a slot given back is for the waiter that was called, not   *)
(* for whoever asks before it runs (test/audit-fixes.test.ts: "never exceeds  *)
(* max concurrent runners").                                                  *)
NeverExceeds == active <= Limit
=============================================================================
