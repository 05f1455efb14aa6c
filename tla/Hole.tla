--------------------------------- MODULE Hole ---------------------------------
(* A deferred hole (runtime/core.ts): the element's schedule, #server,        *)
(* #fetch_html with its retries, #apply behind a stylesheet, the renewal of   *)
(* its address, and its teardown.  The frame store is seen through what it    *)
(* promises one element (FrameRegister): a subscription replays the applied   *)
(* frame, a frame that lands reaches whoever is subscribed.  Addresses are    *)
(* numbered as they are minted, frames as they land.                          *)
EXTENDS Integers, FiniteSets, SequencesExt

CONSTANTS
  Interactive,    \* the answer is an island: a second phase wakes it
  MaxMints,       \* bound: addresses minted for the hole
  MaxFrames,      \* bound: frames that land at them
  MaxLeaves,      \* bound: times the element leaves
  Attempts        \* a failed fetch is retried while fewer have failed

ASSUME BooleanAssumption == Interactive \in BOOLEAN
ASSUME BoundAssumption ==
  /\ MaxMints \in Nat \ {0} /\ MaxFrames \in Nat /\ MaxLeaves \in Nat
  /\ Attempts \in Nat \ {0}

Address == 1..MaxMints
Frame == 1..MaxFrames
None == 0

VARIABLES
  where, leaving, leaves,  \* isConnected; the teardown's microtask; times it left
  scheduled, armed,        \* #scheduled; its schedule has not fired
  starting,                \* its start is in the background queue
  strayed,                 \* history: a start of an earlier stay ran after its teardown
  minted,                  \* the endpoint attribute
  address, bound,          \* #frame_address; the address #frame_unsub is bound to
  fetch,                   \* the run of #fetch_html under way (#fetching)
  attempts, retries,       \* #fetch_attempts; the retry timers set
  servers,                 \* #server runs past their fetch: the frame they await
  applies, applying,       \* frames that wait for their stylesheet; #applying
  done, kept,              \* #done, #kept
  shown,                   \* the frame in the element, None for the fallback
  overtaken,               \* history: the frame that came last went in before another
  woken,                   \* phase 2: the hydrate schedule is armed
  given_up,                \* history: how its last fetch ended without an answer
  content, landed, markers \* the store: the frame applied at an address, how many
                           \* landed, and which are "keep the fallback"

element == <<where, leaving, leaves, scheduled, armed, starting, strayed>>
fetching == <<fetch, attempts, retries, given_up>>
page == <<applies, applying, done, kept, shown, overtaken>>
store == <<content, landed, markers>>
vars == <<element, minted, address, bound, fetching, servers, page, woken, store>>

NoFetch == [stage |-> "none", at |-> None, revalidate |-> FALSE, gone |-> FALSE,
            killed |-> FALSE, by |-> "none"]

TypeOK ==
  /\ where \in {"in", "out"} /\ leaving \in BOOLEAN /\ leaves \in 0..MaxLeaves
  /\ scheduled \in BOOLEAN /\ armed \in BOOLEAN /\ starting \in BOOLEAN
  /\ strayed \in BOOLEAN /\ overtaken \in BOOLEAN
  /\ minted \in Address
  /\ address \in Address \cup {None} /\ bound \in Address \cup {None}
  /\ fetch.stage # "none" => fetch.at \in Address
  /\ fetch \in [stage : {"none", "joining", "waiting", "orphaned"}, at : Address \cup {None},
                revalidate : BOOLEAN, gone : BOOLEAN, killed : BOOLEAN,
                by : {"none", "server", "plain"}]
  /\ attempts \in 0..Attempts /\ retries \subseteq {"server", "revalidate"}
  /\ servers \subseteq Frame \cup {None}
  /\ applies \in Seq(Frame) /\ applying \in Frame \cup {None}
  /\ done \in BOOLEAN /\ kept \in BOOLEAN /\ shown \in Frame \cup {None}
  /\ woken \in BOOLEAN
  /\ given_up \in {"no", "refused", "exhausted", "dropped", "aborted", "orphaned"}
  /\ content \in [Address -> Frame \cup {None}] /\ landed \in 0..MaxFrames
  /\ markers \subseteq Frame

Init ==
  /\ where = "out" /\ leaving = FALSE /\ leaves = 0
  /\ scheduled = FALSE /\ armed = FALSE /\ starting = FALSE /\ strayed = FALSE
  /\ minted = 1 /\ address = None /\ bound = None
  /\ fetch = NoFetch /\ attempts = 0 /\ retries = {} /\ given_up = "no"
  /\ servers = {} /\ applies = <<>> /\ applying = None
  /\ done = FALSE /\ kept = FALSE /\ shown = None /\ woken = FALSE
  /\ overtaken = FALSE
  /\ content = [a \in Address |-> None] /\ landed = 0 /\ markers = {}

-----------------------------------------------------------------------------
(* #apply, up to its await, of frame f (None: there is none to replay): not   *)
(* into a detached element, and a marker keeps the fallback at once.          *)
Apply(f) ==
  IF f = None THEN UNCHANGED page
  ELSE /\ done' = (done \/ (where = "in" /\ f \in markers'))
       /\ kept' = (kept \/ (where = "in" /\ f \in markers'))
       /\ applies' = IF where = "in" /\ f \notin markers' THEN Append(applies, f) ELSE applies
       /\ applying' = IF where = "in" /\ f \notin markers' THEN f ELSE None
       /\ overtaken' = (overtaken /\ ~(where = "in" /\ f \notin markers'))
       /\ UNCHANGED shown

(* subscribe: the frame applied there is replayed.                            *)
Bind(a) ==
  /\ bound' = a /\ address' = a
  /\ Apply(content[a])

(* The stylesheet of f is there (or its wait is over): the frame goes in,     *)
(* whichever came first.                                                      *)
Sheet(f) ==
  /\ ~leaving
  /\ \E i \in DOMAIN applies :
       /\ applies[i] = f
       /\ applies' = RemoveAt(applies, i)
       /\ overtaken' = (overtaken \/ (i = Len(applies) /\ i > 1))
  /\ IF where = "in" THEN shown' = f /\ done' = TRUE ELSE UNCHANGED <<shown, done>>
  /\ UNCHANGED <<element, minted, address, bound, fetching, servers, applying, kept, woken, store>>

-----------------------------------------------------------------------------
(* #fetch_html.                                                               *)

(* A start finds the fetch of the element's earlier stay under way: #fetching *)
(* turns it away, and that fetch will not fill the element.                   *)
Refused == IF fetch.gone THEN "dropped" ELSE given_up

MayFetch(revalidate) == fetch.stage = "none" /\ (~done \/ revalidate)

\* Mutant of FetchAddress: the address of the fetch before.
FetchAddressBefore == address
FetchAddress == minted'

\* Mutant of Rebinds: only an element that is bound nowhere binds.
RebindsUnbound == bound = None
Rebinds == bound # minted'

(* It begins: bound to the address minted last.  A first fetch may join a     *)
(* batch, at the end of the task.                                             *)
BeginFetch(revalidate, by) ==
  /\ fetch' = [stage |-> IF revalidate THEN "waiting" ELSE "joining", at |-> FetchAddress,
               revalidate |-> revalidate, gone |-> FALSE, killed |-> FALSE, by |-> by]
  /\ given_up' = IF by = "server" THEN "no" ELSE given_up
  /\ IF Rebinds THEN Bind(minted') ELSE UNCHANGED <<address, bound, page>>

(* Its finally; a #server run goes on to await what is being applied.         *)
EndFetch ==
  /\ fetch' = NoFetch
  /\ servers' = IF fetch.by = "server" THEN servers \cup {applying'} ELSE servers

(* The frame store asks, or answers from what it holds.                       *)
Joined ==
  /\ fetch.stage = "joining" /\ ~leaving
  /\ UNCHANGED page
  /\ IF content[fetch.at] # None
     THEN EndFetch
     ELSE fetch' = [fetch EXCEPT !.stage = "waiting"] /\ UNCHANGED servers
  /\ UNCHANGED <<element, minted, address, bound, attempts, retries, given_up, woken, store>>

(* A frame lands at address a: whoever is bound there applies it.             *)
Lands(a) ==
  LET f == landed + 1 IN
  /\ f \in Frame /\ landed' = f
  /\ content' = [content EXCEPT ![a] = f]
  /\ \E m \in {markers, markers \cup {f}} : markers' = m
  /\ IF bound = a THEN Apply(f) ELSE UNCHANGED page

(* Its answer is written, or a newer one is there already.                    *)
Answered ==
  /\ fetch.stage = "waiting" /\ ~fetch.killed /\ ~leaving
  /\ \/ Lands(fetch.at)
     \/ content[fetch.at] # None /\ UNCHANGED <<page, store>>
  /\ EndFetch
  /\ UNCHANGED <<element, minted, address, bound, attempts, retries, given_up, woken>>

(* A batch, a command or a twin writes.                                       *)
OtherFrame(a) ==
  /\ ~leaving /\ Lands(a)
  /\ UNCHANGED <<element, minted, address, bound, fetching, servers, woken>>

(* The store lets an unbound address go.                                      *)
Evict(a) ==
  /\ content[a] # None /\ bound # a /\ ~(fetch.stage = "waiting" /\ fetch.at = a)
  /\ content' = [content EXCEPT ![a] = None]
  /\ UNCHANGED <<element, minted, address, bound, fetching, servers, page, woken, landed, markers>>

\* Mutant of Unscheduled: the failed element stays scheduled.
UnscheduledNever == scheduled
Unscheduled == FALSE

(* The fetch rejects although the element is there: it may be scheduled       *)
(* again, and is, by a timer, while attempts are left.                        *)
Failed ==
  /\ fetch.stage = "waiting" /\ ~fetch.killed /\ ~fetch.gone /\ ~leaving
  /\ scheduled' = Unscheduled
  /\ attempts' = IF attempts < Attempts THEN attempts + 1 ELSE attempts
  /\ \/ /\ where = "in" /\ attempts' < Attempts
        /\ retries' = retries \cup {IF fetch.revalidate THEN "revalidate" ELSE "server"}
        /\ UNCHANGED given_up
     \/ /\ where = "out" \/ attempts' = Attempts
        /\ given_up' = "exhausted" /\ UNCHANGED retries
     \/ given_up' = "refused" /\ UNCHANGED retries
  /\ UNCHANGED <<where, leaving, leaves, armed, starting, strayed, minted, address, bound, page, woken, store>>
  /\ EndFetch

(* The fetch rejects and the error is swallowed: its element left since, or   *)
(* it is there and the request was aborted all the same (a twin that did not  *)
(* wait for it abandoned the address).  Nothing is set to try again.          *)
Swallowed ==
  /\ fetch.stage = "waiting" /\ ~leaving
  /\ given_up' = IF fetch.gone THEN given_up ELSE "aborted"
  /\ UNCHANGED <<element, minted, address, bound, attempts, retries, page, woken, store>>
  /\ EndFetch

(* It joined a batch's reservation that a revalidate replaces, or that the    *)
(* last to abandon the address drops: nothing settles it any more, #fetching  *)
(* stays set.                                                                 *)
Orphaned ==
  /\ fetch.stage = "waiting" /\ ~fetch.revalidate /\ ~leaving
  /\ fetch' = [fetch EXCEPT !.stage = "orphaned"]
  /\ given_up' = IF fetch.gone THEN given_up ELSE "orphaned"
  /\ UNCHANGED <<element, minted, address, bound, attempts, retries, servers, page, woken, store>>

-----------------------------------------------------------------------------
(* #server and the schedule.                                                  *)

Arm == scheduled' = TRUE /\ armed' = TRUE

Connect ==
  /\ where = "out"
  /\ where' = "in"
  /\ IF scheduled THEN UNCHANGED <<scheduled, armed>> ELSE Arm
  /\ UNCHANGED <<leaving, leaves, starting, strayed, minted, address, bound, fetching, servers, page, woken, store>>

(* The schedule fires: the start is queued at background priority.            *)
Fires ==
  /\ armed /\ ~leaving
  /\ armed' = FALSE /\ starting' = TRUE
  /\ UNCHANGED <<where, leaving, leaves, scheduled, strayed, minted, address, bound, fetching, servers, page, woken, store>>

(* #server subscribes first: a replayed marker keeps the fallback at once.     *)
ReplaysMarker == bound = None /\ where = "in" /\ content[minted] \in markers

(* The queued start runs #server, wherever the element is by now: nothing     *)
(* takes a start out of the queue as its element leaves.                      *)
Server ==
  /\ starting /\ ~leaving
  /\ starting' = FALSE
  /\ strayed' = (strayed \/ where = "out")
  /\ UNCHANGED <<minted, markers, landed>>
  /\ IF MayFetch(FALSE) /\ ~ReplaysMarker
     THEN BeginFetch(FALSE, "server") /\ UNCHANGED servers
     ELSE /\ IF bound = None THEN Bind(minted) ELSE UNCHANGED <<address, bound, page>>
          /\ servers' = servers \cup {applying'}
          /\ given_up' = Refused /\ UNCHANGED fetch
  /\ UNCHANGED <<where, leaving, leaves, scheduled, armed, attempts, retries, woken, content>>

\* Mutant of Applied: the frame being applied is not awaited.
AppliedOrNot(f) == TRUE
Applied(f) == ~Contains(applies, f)

(* A #server run resumes when the frame it awaits has gone in.                *)
ServerEnds(f) ==
  /\ f \in servers /\ Applied(f) /\ ~leaving
  /\ servers' = servers \ {f}
  /\ woken' = (woken \/ (done /\ ~kept /\ where = "in" /\ Interactive))
  /\ UNCHANGED <<element, minted, address, bound, fetching, page, store>>

(* The retry's timer.                                                         *)
Retry(kind) ==
  /\ kind \in retries /\ ~leaving
  /\ retries' = retries \ {kind}
  /\ UNCHANGED <<minted, markers, landed>>
  /\ CASE where = "out" \/ done \/ fetch.stage # "none" ->
            given_up' = Refused /\ UNCHANGED <<scheduled, armed, fetch, address, bound, page>>
       [] where = "in" /\ ~done /\ fetch.stage = "none" /\ kind = "revalidate" ->
            BeginFetch(TRUE, "plain") /\ UNCHANGED <<scheduled, armed>>
       [] OTHER -> /\ IF scheduled THEN UNCHANGED <<scheduled, armed>> ELSE Arm
                   /\ UNCHANGED <<fetch, given_up, address, bound, page>>
  /\ UNCHANGED <<where, leaving, leaves, starting, strayed, attempts, servers, woken, content>>

(* A refreshed ancestor mints the hole anew (#renew): a new answer is fetched *)
(* at the new address, unless a fetch is under way.                           *)
Renew ==
  /\ where = "in" /\ ~leaving /\ minted < MaxMints
  /\ minted' = minted + 1
  /\ UNCHANGED <<markers, landed>>
  /\ IF address # None /\ MayFetch(TRUE)
     THEN BeginFetch(TRUE, "plain")
     ELSE UNCHANGED <<fetch, given_up, address, bound, page>>
  /\ UNCHANGED <<element, attempts, retries, servers, woken, content>>

Disconnect ==
  /\ where = "in" /\ leaves < MaxLeaves
  /\ where' = "out" /\ leaving' = TRUE /\ leaves' = leaves + 1
  /\ UNCHANGED <<scheduled, armed, starting, strayed, minted, address, bound, fetching, servers, page, woken, store>>

(* The fetch as its element leaves: abandoned at the store, which ends it     *)
(* there if nobody else waits for it.                                         *)
Abandoned(killed) ==
  IF fetch.stage = "none" THEN fetch
  ELSE [fetch EXCEPT !.gone = TRUE, !.killed = @ \/ (killed /\ fetch.stage = "waiting")]

\* Mutant of Unbound: the subscription outlives the element's stay.
UnboundNever == bound
Unbound == None

\* Mutant of Forgotten: an element torn down stays scheduled.
ForgottenNever == scheduled
Forgotten == FALSE

Teardown ==
  /\ leaving /\ leaving' = FALSE
  /\ IF where = "in"
     THEN UNCHANGED <<scheduled, armed, strayed, address, bound, fetch, woken>>
     ELSE /\ \E killed \in BOOLEAN : fetch' = Abandoned(killed)
          /\ bound' = Unbound /\ address' = None
          /\ scheduled' = Forgotten /\ armed' = FALSE /\ woken' = FALSE
          /\ strayed' = FALSE
  /\ UNCHANGED <<where, leaves, starting, minted, attempts, retries, given_up, servers, page, store>>

-----------------------------------------------------------------------------
Step == \/ Fires \/ Server \/ Joined \/ Answered \/ Failed \/ Swallowed \/ Orphaned \/ Teardown
        \/ \E f \in Frame : Sheet(f)
        \/ \E f \in Frame \cup {None} : ServerEnds(f)
        \/ \E kind \in {"server", "revalidate"} : Retry(kind)

Next == \/ Step
        \/ Connect \/ Disconnect \/ Renew
        \/ \E a \in Address : OtherFrame(a) \/ Evict(a)

(* Tasks and microtasks run, timers and the schedule of a start fire, a       *)
(* stylesheet loads or its wait ends, a request is answered or fails, unless  *)
(* the wait for it is orphaned first.  No frame need come from elsewhere,     *)
(* nothing need be renewed or move.                                           *)
Fairness ==
  /\ WF_vars(Fires) /\ WF_vars(Server) /\ WF_vars(Joined) /\ WF_vars(Teardown)
  /\ WF_vars(Answered \/ Failed \/ Swallowed)
  /\ \A kind \in {"server", "revalidate"} : WF_vars(Retry(kind))
  /\ \A f \in Frame : WF_vars(Sheet(f))
  /\ \A f \in Frame \cup {None} : WF_vars(ServerEnds(f))

Spec == Init /\ [][Next]_vars /\ Fairness
-----------------------------------------------------------------------------
(* The element is in the document, and no start of an earlier stay subscribed *)
(* it while it was out: a replay it ignored there does not come again.        *)
Attached == where = "in" /\ ~leaving /\ ~strayed

(* Its fetch is under way, for this stay, and will be settled.                *)
IsFetching == fetch.stage \in {"joining", "waiting"} /\ ~fetch.gone

(* Something under way will ask for the hole's answer, or brings it.          *)
HasAFetch == armed \/ starting \/ retries # {} \/ applies # <<>> \/ IsFetching

(* A hole shows its fallback only while something will still fill it, or with *)
(* a verdict: refused, out of attempts, turned away by the fetch of its       *)
(* earlier stay, aborted by a twin, or orphaned by the store (core.ts         *)
(* #fetch_html: "Failure leaves `#done` false so a reconnect, remount, or     *)
(* deferred retry can try again").                                            *)
FallbackIsTemporary == Attached /\ ~done => HasAFetch \/ given_up # "no"

(* An interactive hole that was answered is woken, or a run of #server is     *)
(* under way that will: the frame is awaited before #done is read (core.ts    *)
(* #server: "an interactive deferred leaf would swap in and stay dead").  Not *)
(* after a failure or a verdict: a frame from elsewhere that comes then is    *)
(* not seen by any run.                                                       *)
AnsweredIsWoken ==
  Attached /\ Interactive /\ done /\ ~kept /\ attempts = 0 =>
    \/ woken \/ armed \/ starting \/ servers # {}
    \/ fetch.by = "server" /\ IsFetching
    \/ given_up # "no"

(* However often it was moved, renewed or taken out, a hole listens where its *)
(* own fetch will be answered and, with no stylesheet awaited, shows the      *)
(* frame applied there, unless that one went in before an older one that had  *)
(* to wait longer for its stylesheet (core.ts #fetch_html, #apply, #teardown  *)
(* against the store's replay).                                               *)
ListensWhereItAsks == fetch.stage # "none" /\ ~fetch.gone /\ ~leaving => bound = fetch.at
ShowsItsFrame ==
  /\ ListensWhereItAsks
  /\ Attached /\ bound # None /\ content[bound] \notin markers \cup {None}
       /\ applies = <<>> /\ ~overtaken =>
       shown = content[bound]

(* A hole whose start runs gets an answer or a verdict, if it stays: retries  *)
(* end, and a wait of #fetch_html or #server that is for ever has its name.   *)
Settles == starting ~> done \/ given_up # "no" \/ where = "out" \/ strayed
=============================================================================
