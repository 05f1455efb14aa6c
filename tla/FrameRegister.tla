----------------------------- MODULE FrameRegister -----------------------------
(* What the frame store promises the regions of one address: a register of    *)
(* one frame that whoever is bound to it has applied, that a late answer to    *)
(* an early fetch never takes back, and that is forgotten only while nobody    *)
(* is bound.  No tickets, no slot, no waiters, no timer.                       *)
EXTENDS Naturals

CONSTANTS Region, Request, Fetch, None

VARIABLES
  content,  \* the frame applied, or None
  bound,    \* the regions that subscribe
  painted,  \* the frame each applied last
  began,    \* the order in which requests left
  clock

vars == <<content, bound, painted, began, clock>>

Init ==
  /\ content = None /\ bound = {}
  /\ painted = [r \in Region |-> None]
  /\ began = [q \in Request |-> 0] /\ clock = 0

\* A request may leave.
Asks(q) == began' = [began EXCEPT ![q] = clock + 1] /\ clock' = clock + 1
MayAsk == UNCHANGED <<began, clock>> \/ \E q \in Request : Asks(q)

Ask == MayAsk /\ UNCHANGED <<content, bound, painted>>

\* Who binds applies what is there, and may ask for what is not.
Bind(r) ==
  /\ r \notin bound
  /\ bound' = bound \cup {r}
  /\ painted' = [painted EXCEPT ![r] = IF content # None THEN content ELSE @]
  /\ MayAsk
  /\ UNCHANGED content

Unbind(r) ==
  /\ r \in bound
  /\ bound' = bound \ {r}
  /\ UNCHANGED <<content, painted, began, clock>>

\* A frame lands: never a fetch's over one of a fetch that began later.
InOrder(q) == content \in Fetch /\ q \in Fetch /\ content # q => began[q] > began[content]

Land(q) ==
  /\ InOrder(q)
  /\ content' = q
  /\ painted' = [r \in Region |-> IF r \in bound THEN q ELSE painted[r]]
  /\ UNCHANGED <<bound, began, clock>>

Forget ==
  /\ bound = {}
  /\ content' = None
  /\ UNCHANGED <<bound, painted, began, clock>>

Next == \/ \E r \in Region : Bind(r) \/ Unbind(r)
        \/ \E q \in Request : Land(q)
        \/ Ask \/ Forget

Spec == Init /\ [][Next]_vars
=============================================================================
