------------------------------ MODULE HoleProofs ------------------------------
(* Theorems about Hole for any number of addresses, frames, attempts and      *)
(* stays: it listens where it asks, no answer leaves it dead, its fallback is *)
(* final only by name, and the frame that came last is the one it shows       *)
(* unless it overtook another.                                                *)
EXTENDS Hole, SequenceTheorems, TLAPS

-----------------------------------------------------------------------------
(* The sequence of frames that wait for their stylesheets.                    *)

\* A frame goes to the end of those that wait.
LEMMA Appended ==
  ASSUME NEW S, NEW s \in Seq(S), NEW f \in S
  PROVE  /\ Append(s, f) \in Seq(S) /\ Append(s, f) # <<>>
         /\ Len(Append(s, f)) = Len(s) + 1 /\ Append(s, f)[Len(s) + 1] = f
         /\ Contains(Append(s, f), f)
         /\ \A g : Contains(s, g) => Contains(Append(s, f), g)
<1>1. /\ Append(s, f) \in Seq(S)
      /\ Len(Append(s, f)) = Len(s) + 1
      /\ \A i \in 1 .. Len(s) : Append(s, f)[i] = s[i]
      /\ Append(s, f)[Len(s) + 1] = f
  BY AppendProperties
<1>2. Len(s) \in Nat
  BY LenProperties
<1>3. Append(s, f) # <<>>
  BY <1>1, <1>2, EmptySeq
<1> QED
  BY <1>1, <1>2, <1>3 DEF Contains

\* One leaves, wherever it stood.
LEMMA Removed ==
  ASSUME NEW S, NEW s \in Seq(S), NEW i \in DOMAIN s
  PROVE  /\ RemoveAt(s, i) \in Seq(S)
         /\ Len(RemoveAt(s, i)) = Len(s) - 1
         /\ \A k \in i .. Len(s) - 1 : RemoveAt(s, i)[k] = s[k + 1]
<1> DEFINE before == SubSeq(s, 1, i - 1)
           after == SubSeq(s, i + 1, Len(s))
<1>1. Len(s) \in Nat /\ i \in 1 .. Len(s) /\ \A k \in 1 .. Len(s) : s[k] \in S
  BY LenProperties, ElementOfSeq
<1>2. before \in Seq(S) /\ Len(before) = i - 1
  <2>1. /\ before \in Seq(S)
        /\ Len(before) = IF 1 <= i - 1 THEN (i - 1) - 1 + 1 ELSE 0
    BY <1>1, SubSeqProperties
  <2> QED
    BY <1>1, <2>1
<1>3. /\ after \in Seq(S) /\ Len(after) = Len(s) - i
      /\ \A k \in 1 .. Len(s) - i : after[k] = s[i + k]
  <2>1. /\ after \in Seq(S)
        /\ Len(after) = IF i + 1 <= Len(s) THEN Len(s) - (i + 1) + 1 ELSE 0
        /\ \A k \in 1 .. Len(s) - (i + 1) + 1 : after[k] = s[(i + 1) + k - 1]
    BY <1>1, SubSeqProperties
  <2> QED
    BY <1>1, <2>1
<1>4. /\ before \o after \in Seq(S)
      /\ Len(before \o after) = Len(before) + Len(after)
      /\ \A k \in 1 .. Len(before) + Len(after) :
           (before \o after)[k] = IF k <= Len(before) THEN before[k] ELSE after[k - Len(before)]
  BY <1>2, <1>3, ConcatProperties
<1>5. RemoveAt(s, i) = before \o after
  BY DEF RemoveAt
<1> HIDE DEF before, after
<1>6. RemoveAt(s, i) \in Seq(S) /\ Len(RemoveAt(s, i)) = Len(s) - 1
  <2>1. (i - 1) + (Len(s) - i) = Len(s) - 1
    BY <1>1
  <2> QED
    BY <2>1, <1>2, <1>3, <1>4, <1>5
<1>7. ASSUME NEW k \in i .. Len(s) - 1
      PROVE  RemoveAt(s, i)[k] = s[k + 1]
  <2>1. /\ Len(before) = i - 1 /\ Len(after) = Len(s) - i
        /\ k \in 1 .. Len(before) + Len(after) /\ ~(k <= Len(before))
        /\ k - Len(before) = k - i + 1 /\ k - i + 1 \in 1 .. Len(s) - i
        /\ i + (k - i + 1) = k + 1
    BY <1>1, <1>2, <1>3, <1>7
  <2>2. (before \o after)[k] = after[k - i + 1]
    BY <1>4, <2>1
  <2>3. after[k - i + 1] = s[i + (k - i + 1)]
    BY <1>3, <2>1
  <2> QED
    BY <1>5, <2>1, <2>2, <2>3
<1> QED
  BY <1>6, <1>7

-----------------------------------------------------------------------------
(* Types.                                                                     *)

PageOK == /\ applies \in Seq(Frame) /\ applying \in Frame \cup {None}
          /\ done \in BOOLEAN /\ kept \in BOOLEAN /\ shown \in Frame \cup {None}
          /\ overtaken \in BOOLEAN

\* What #apply leaves.
LEMMA ApplyTypes ==
  ASSUME PageOK, NEW f \in Frame \cup {None}, Apply(f)
  PROVE  PageOK'
<1>1. CASE f = None
  BY <1>1 DEF PageOK, Apply, page
<1>2. CASE f # None
  <2>1. f \in Frame /\ Append(applies, f) \in Seq(Frame)
    BY <1>2, Appended DEF PageOK
  <2> QED
    BY <1>2, <2>1 DEF PageOK, Apply
<1> QED
  BY <1>1, <1>2

\* What a step of the store leaves.
LEMMA LandsTypes ==
  ASSUME TypeOK, NEW a \in Address, Lands(a)
  PROVE  /\ PageOK'
         /\ content' \in [Address -> Frame \cup {None}]
         /\ landed' \in 0 .. MaxFrames /\ markers' \subseteq Frame
<1>1. PageOK
  BY DEF TypeOK, PageOK
<1>2. landed + 1 \in Frame
  BY DEF Lands
<1>3. PageOK'
  <2>1. CASE bound = a
    BY <2>1, <1>1, <1>2, ApplyTypes DEF Lands
  <2>2. CASE bound # a
    BY <2>2, <1>1 DEF Lands, page, PageOK
  <2> QED
    BY <2>1, <2>2
<1> QED
  BY <1>2, <1>3, BoundAssumption DEF Lands, TypeOK, Frame

\* How a fetch may have ended without an answer.
Verdicts == {"no", "refused", "exhausted", "dropped", "aborted", "orphaned"}

\* The fetch, in any state it can be in.
Fetches == [stage : {"none", "joining", "waiting", "orphaned"}, at : Address \cup {None},
            revalidate : BOOLEAN, gone : BOOLEAN, killed : BOOLEAN,
            by : {"none", "server", "plain"}]

FetchOK == fetch \in Fetches /\ (fetch.stage # "none" => fetch.at \in Address)

\* A fetch begins, and binds.
LEMMA BeginTypes ==
  ASSUME TypeOK, NEW revalidate \in BOOLEAN, NEW by \in {"server", "plain"},
         minted' \in Address, BeginFetch(revalidate, by)
  PROVE  /\ FetchOK' /\ PageOK'
         /\ address' \in Address \cup {None} /\ bound' \in Address \cup {None}
         /\ given_up' \in Verdicts
<1>1. FetchOK'
  BY DEF BeginFetch, FetchOK, Fetches, FetchAddress
<1>2. PageOK
  BY DEF TypeOK, PageOK
<1>3. CASE Rebinds
  <2>1. content[minted'] \in Frame \cup {None}
    BY DEF TypeOK
  <2>2. PageOK'
    BY <1>2, <1>3, <2>1, ApplyTypes DEF BeginFetch, Bind
  <2> QED
    BY <1>1, <1>3, <2>2 DEF BeginFetch, Bind, TypeOK, Verdicts
<1>4. CASE ~Rebinds
  BY <1>1, <1>2, <1>4 DEF BeginFetch, page, PageOK, TypeOK, Verdicts
<1> QED
  BY <1>3, <1>4

\* A fetch ends.
LEMMA EndTypes ==
  ASSUME TypeOK, applying' \in Frame \cup {None}, EndFetch
  PROVE  FetchOK' /\ servers' \subseteq Frame \cup {None}
BY DEF EndFetch, TypeOK, FetchOK, Fetches, NoFetch

\* TypeOK in the parts the lemmas speak of.
ElementOK ==
  /\ where \in {"in", "out"} /\ leaving \in BOOLEAN /\ leaves \in 0 .. MaxLeaves
  /\ scheduled \in BOOLEAN /\ armed \in BOOLEAN /\ starting \in BOOLEAN
  /\ strayed \in BOOLEAN /\ woken \in BOOLEAN
FlightOK ==
  /\ minted \in Address
  /\ address \in Address \cup {None} /\ bound \in Address \cup {None}
  /\ FetchOK
  /\ attempts \in 0 .. Attempts /\ retries \subseteq {"server", "revalidate"}
  /\ given_up \in Verdicts
  /\ servers \subseteq Frame \cup {None}
StoreOK == /\ content \in [Address -> Frame \cup {None}] /\ landed \in 0 .. MaxFrames
           /\ markers \subseteq Frame

\* The parts are the whole.
LEMMA TypeParts == TypeOK <=> ElementOK /\ FlightOK /\ PageOK /\ StoreOK
BY DEF TypeOK, ElementOK, FlightOK, FetchOK, Fetches, Verdicts, PageOK, StoreOK

\* A stylesheet loads: one frame fewer waits.
LEMMA SheetTypes ==
  ASSUME PageOK, NEW f \in Frame, Sheet(f)
  PROVE  PageOK'
<1>1. applies' \in Seq(Frame)
  BY Removed DEF PageOK, Sheet
<1> QED
  BY <1>1 DEF PageOK, Sheet

\* Every step keeps the types.
LEMMA TypeStep ==
  ASSUME TypeOK, [Next]_vars
  PROVE  TypeOK'
<1>0. SUFFICES ElementOK' /\ FlightOK' /\ PageOK' /\ StoreOK'
  BY TypeParts DEF TypeOK, ElementOK, FlightOK, FetchOK, Fetches, Verdicts, PageOK, StoreOK
<1>a. ElementOK /\ FlightOK /\ PageOK /\ StoreOK
  BY TypeParts
<1> USE <1>a
<1>1. ASSUME NEW f \in Frame, Sheet(f) PROVE ElementOK' /\ FlightOK' /\ PageOK' /\ StoreOK'
  BY <1>1, SheetTypes
     DEF Sheet, ElementOK, FlightOK, FetchOK, StoreOK, element, fetching, store
<1>2. CASE Joined
  <2>1. PageOK'
    BY <1>2 DEF Joined, page, PageOK
  <2>2. FetchOK' /\ servers' \subseteq Frame \cup {None}
    <3>1. CASE content[fetch.at] # None
      BY <1>2, <2>1, <3>1, EndTypes DEF Joined, PageOK
    <3>2. CASE content[fetch.at] = None
      BY <1>2, <3>2 DEF Joined, FlightOK, FetchOK, Fetches
    <3> QED
      BY <3>1, <3>2
  <2> QED
    BY <1>2, <2>1, <2>2 DEF Joined, ElementOK, FlightOK, StoreOK, element, store
<1>3. CASE Answered
  <2>1. PageOK' /\ StoreOK'
    <3>1. CASE Lands(fetch.at)
      BY <1>3, <3>1, LandsTypes DEF Answered, FlightOK, FetchOK, StoreOK
    <3>2. CASE UNCHANGED <<page, store>>
      BY <3>2 DEF page, store, PageOK, StoreOK
    <3> QED
      BY <1>3, <3>1, <3>2 DEF Answered
  <2>2. FetchOK' /\ servers' \subseteq Frame \cup {None}
    BY <1>3, <2>1, EndTypes DEF Answered, PageOK
  <2> QED
    BY <1>3, <2>1, <2>2 DEF Answered, ElementOK, FlightOK, element
<1>4. ASSUME NEW a \in Address, OtherFrame(a) PROVE ElementOK' /\ FlightOK' /\ PageOK' /\ StoreOK'
  BY <1>4, LandsTypes
     DEF OtherFrame, ElementOK, FlightOK, FetchOK, StoreOK, element, fetching
<1>5. ASSUME NEW a \in Address, Evict(a) PROVE ElementOK' /\ FlightOK' /\ PageOK' /\ StoreOK'
  BY <1>5 DEF Evict, ElementOK, FlightOK, FetchOK, PageOK, StoreOK, element, fetching, page
<1>6. CASE Failed
  <2>1. PageOK' /\ StoreOK'
    BY <1>6 DEF Failed, page, store, PageOK, StoreOK
  <2>2. FetchOK' /\ servers' \subseteq Frame \cup {None}
    BY <1>6, <2>1, EndTypes DEF Failed, PageOK
  <2>3. attempts' \in 0 .. Attempts
    BY <1>6, BoundAssumption DEF Failed, FlightOK
  <2>4. /\ retries' \subseteq {"server", "revalidate"}
        /\ given_up' \in Verdicts
    BY <1>6 DEF Failed, FlightOK, Verdicts
  <2> QED
    BY <1>6, <2>1, <2>2, <2>3, <2>4 DEF Failed, Unscheduled, ElementOK, FlightOK
<1>7. CASE Swallowed
  <2>1. PageOK' /\ StoreOK'
    BY <1>7 DEF Swallowed, page, store, PageOK, StoreOK
  <2>2. FetchOK' /\ servers' \subseteq Frame \cup {None}
    BY <1>7, <2>1, EndTypes DEF Swallowed, PageOK
  <2> QED
    BY <1>7, <2>1, <2>2 DEF Swallowed, ElementOK, FlightOK, Verdicts, element
<1>8. CASE Server
  <2>1. CASE MayFetch(FALSE) /\ ~ReplaysMarker
    BY <1>8, <2>1, BeginTypes DEF Server, ElementOK, FlightOK, StoreOK
  <2>2. CASE ~(MayFetch(FALSE) /\ ~ReplaysMarker)
    <3>1. /\ PageOK'
          /\ address' \in Address \cup {None} /\ bound' \in Address \cup {None}
      <4>1. CASE bound = None
        BY <1>8, <2>2, <4>1, ApplyTypes DEF Server, Bind, FlightOK, StoreOK
      <4>2. CASE bound # None
        BY <1>8, <2>2, <4>2 DEF Server, page, PageOK, FlightOK
      <4> QED
        BY <4>1, <4>2
    <3> QED
      BY <1>8, <2>2, <3>1 DEF Server, Refused, Verdicts, ElementOK, FlightOK, FetchOK, StoreOK, PageOK
  <2> QED
    BY <2>1, <2>2
<1>9. ASSUME NEW f \in Frame \cup {None}, ServerEnds(f)
      PROVE  ElementOK' /\ FlightOK' /\ PageOK' /\ StoreOK'
  BY <1>9 DEF ServerEnds, ElementOK, FlightOK, FetchOK, PageOK, StoreOK,
              element, fetching, page, store
<1>10. ASSUME NEW kind \in {"server", "revalidate"}, Retry(kind)
       PROVE  ElementOK' /\ FlightOK' /\ PageOK' /\ StoreOK'
  <2>1. CASE where = "out" \/ done \/ fetch.stage # "none"
    <3>1. given_up' = Refused /\ UNCHANGED <<scheduled, armed, fetch, address, bound, page>>
      BY <1>10, <2>1 DEF Retry
    <3> QED
      BY <1>10, <3>1
         DEF Retry, Refused, Verdicts, ElementOK, FlightOK, FetchOK, PageOK, StoreOK, page
  <2>2. CASE where = "in" /\ ~done /\ fetch.stage = "none" /\ kind = "revalidate"
    BY <1>10, <2>2, BeginTypes DEF Retry, ElementOK, FlightOK, StoreOK
  <2>3. CASE where = "in" /\ ~done /\ fetch.stage = "none" /\ kind # "revalidate"
    <3>1. /\ IF scheduled THEN UNCHANGED <<scheduled, armed>> ELSE Arm
          /\ UNCHANGED <<fetch, given_up, address, bound, page>>
      BY <1>10, <2>3 DEF Retry
    <3>2. ElementOK'
      BY <1>10, <3>1 DEF Retry, Arm, ElementOK
    <3> QED
      BY <1>10, <3>1, <3>2 DEF Retry, FlightOK, FetchOK, PageOK, StoreOK, page
  <2>4. where = "in" \/ where = "out"
    BY DEF ElementOK
  <2> QED
    BY <2>1, <2>2, <2>3, <2>4
<1>11. CASE Renew
  <2>1. minted' \in Address
    BY <1>11, BoundAssumption DEF Renew, FlightOK, Address
  <2>2. CASE address # None /\ MayFetch(TRUE)
    BY <1>11, <2>1, <2>2, BeginTypes DEF Renew, ElementOK, FlightOK, StoreOK, element
  <2>3. CASE ~(address # None /\ MayFetch(TRUE))
    <3>1. UNCHANGED <<fetch, given_up, address, bound, page>>
      BY <1>11, <2>3 DEF Renew
    <3> QED
      BY <1>11, <2>1, <3>1
         DEF Renew, ElementOK, FlightOK, FetchOK, PageOK, StoreOK, element, page
  <2> QED
    BY <2>2, <2>3
<1>12. CASE Teardown
  <2>1. FetchOK'
    <3>1. \A killed \in BOOLEAN : Abandoned(killed) \in Fetches
      BY DEF Abandoned, FlightOK, FetchOK, Fetches
    <3>2. \A killed \in BOOLEAN : Abandoned(killed).at = fetch.at
                                /\ Abandoned(killed).stage = fetch.stage
      BY DEF Abandoned, FlightOK, FetchOK, Fetches
    <3>3. fetch' = fetch \/ \E killed \in BOOLEAN : fetch' = Abandoned(killed)
      BY <1>12 DEF Teardown
    <3> QED
      BY <3>1, <3>2, <3>3 DEF FlightOK, FetchOK
  <2> QED
    BY <1>12, <2>1
       DEF Teardown, Unbound, Forgotten, ElementOK, FlightOK, PageOK, StoreOK, page, store
<1>13. CASE Fires \/ Connect \/ Disconnect
  <2>1. ElementOK'
    <3>1. CASE Disconnect
      <4>1. leaves' \in 0 .. MaxLeaves
        BY <3>1, BoundAssumption DEF Disconnect, ElementOK
      <4> QED
        BY <3>1, <4>1 DEF Disconnect, ElementOK
    <3>2. CASE Fires \/ Connect
      BY <3>2 DEF Fires, Connect, Arm, ElementOK
    <3> QED
      BY <1>13, <3>1, <3>2
  <2>2. UNCHANGED <<minted, address, bound, fetching, servers, page, store>>
    BY <1>13 DEF Fires, Connect, Disconnect
  <2> QED
    BY <2>1, <2>2 DEF FlightOK, FetchOK, PageOK, StoreOK, fetching, page, store
<1>14. CASE Orphaned
  <2>1. FetchOK'
    BY <1>14 DEF Orphaned, FlightOK, FetchOK, Fetches
  <2> QED
    BY <1>14, <2>1
       DEF Orphaned, Verdicts, ElementOK, FlightOK, PageOK, StoreOK, element, page, store
<1>15. CASE UNCHANGED vars
  BY <1>15 DEF vars, ElementOK, FlightOK, FetchOK, PageOK, StoreOK, element, fetching, page, store
<1> QED
  BY <1>1, <1>2, <1>3, <1>4, <1>5, <1>6, <1>7, <1>8, <1>9, <1>10, <1>11, <1>12, <1>13, <1>14, <1>15
     DEF Next, Step

\* A hole that is not in the document, never fetched.
LEMMA TypeInit == Init => TypeOK
<1> SUFFICES ASSUME Init PROVE ElementOK /\ FlightOK /\ PageOK /\ StoreOK
  BY TypeParts
<1>1. 0 \in 0 .. MaxLeaves
  BY BoundAssumption
<1>2. ElementOK
  BY <1>1 DEF Init, ElementOK
<1>3. FetchOK
  BY DEF Init, NoFetch, FetchOK, Fetches
<1>4. FlightOK
  BY <1>3, BoundAssumption DEF Init, FlightOK, Verdicts, Address
<1>5. PageOK
  BY EmptySeq DEF Init, PageOK
<1>6. content \in [Address -> Frame \cup {None}]
  BY DEF Init
<1>7. StoreOK
  BY <1>6, BoundAssumption DEF Init, StoreOK
<1> QED
  BY <1>2, <1>4, <1>5, <1>7

\* Types hold through every step (TypeOK).
THEOREM TypeCorrect == Spec => []TypeOK
<1>1. Init => TypeOK
  BY TypeInit
<1>2. TypeOK /\ [Next]_vars => TypeOK'
  BY TypeStep
<1> QED
  BY <1>1, <1>2, PTL DEF Spec

-----------------------------------------------------------------------------
(* A fetch and the address it is for.                                         *)

\* No fetch is under way, or it is one of this stay and the element is bound to
\* its address; one that is orphaned has that verdict; a retry waits only after a
\* failure.
Base ==
  /\ TypeOK
  /\ address = bound
  /\ fetch.stage = "none" => fetch = NoFetch
  /\ fetch.stage # "none" /\ ~fetch.gone => bound = fetch.at
  /\ fetch.stage = "orphaned" /\ ~fetch.gone => given_up = "orphaned"
  /\ retries # {} => attempts > 0
  /\ where = "out" /\ ~leaving => ~scheduled

\* A fetch that begins is bound to its address.
LEMMA Begins ==
  ASSUME Base, NEW revalidate \in BOOLEAN, NEW by \in {"server", "plain"},
         minted' \in Address, BeginFetch(revalidate, by)
  PROVE  /\ fetch'.stage \in {"joining", "waiting"} /\ ~fetch'.gone /\ fetch'.by = by /\ fetch'.at = minted'
         /\ bound' = minted' /\ address' = minted' /\ bound' # None
<1>1. bound' = minted' /\ address' = minted'
  BY DEF BeginFetch, Rebinds, Bind, Base
<1>2. minted' # None
  BY DEF Address, None
<1> QED
  BY <1>1, <1>2 DEF BeginFetch, FetchAddress

\* Every step keeps it.
LEMMA BaseStep ==
  ASSUME Base, [Next]_vars
  PROVE  Base'
<1>t. TypeOK' /\ TypeOK
  BY TypeStep DEF Base
<1>a. ElementOK /\ FlightOK /\ PageOK /\ StoreOK
  BY <1>t, TypeParts
<1> DEFINE Rest == /\ address = bound
                   /\ fetch.stage = "none" => fetch = NoFetch
                   /\ fetch.stage # "none" /\ ~fetch.gone => bound = fetch.at
                   /\ fetch.stage = "orphaned" /\ ~fetch.gone => given_up = "orphaned"
                   /\ retries # {} => attempts > 0
                   /\ where = "out" /\ ~leaving => ~scheduled
<1>r. Rest
  BY DEF Base
<1> SUFFICES Rest'
  BY <1>t DEF Base
<1>1. ASSUME NEW f \in Frame, Sheet(f) PROVE Rest'
  BY <1>1, <1>r DEF Sheet, element, fetching
<1>2. ASSUME EndFetch, UNCHANGED <<address, bound, where, leaving>>,
             retries' # {} => attempts' > 0, scheduled' = scheduled \/ ~scheduled'
      PROVE  Rest'
  <2>1. fetch'.stage = "none"
    BY <1>2 DEF EndFetch, NoFetch
  <2> QED
    BY <1>2, <1>r, <2>1 DEF EndFetch
<1>3. CASE Joined
  <2>1. CASE content[fetch.at] # None
    BY <1>3, <2>1, <1>2, <1>r DEF Joined, element
  <2>2. CASE content[fetch.at] = None
    BY <1>3, <2>2, <1>a, <1>r DEF Joined, element, FlightOK, FetchOK, Fetches
  <2> QED
    BY <2>1, <2>2
<1>4. CASE Answered \/ Swallowed
  BY <1>4, <1>2, <1>r DEF Answered, Swallowed, element
<1>5. CASE Failed
  <2>1. attempts' > 0
    BY <1>5, <1>a, BoundAssumption DEF Failed, FlightOK
  <2> QED
    BY <1>5, <2>1, <1>2 DEF Failed, Unscheduled
<1>6. ASSUME NEW a \in Address, OtherFrame(a) \/ Evict(a) PROVE Rest'
  BY <1>6, <1>r DEF OtherFrame, Evict, element, fetching
<1>7. CASE Server
  <2>1. CASE MayFetch(FALSE) /\ ~ReplaysMarker
    <3>1. minted' \in Address
      BY <1>7, <1>a DEF Server, FlightOK
    <3> QED
      BY <1>7, <2>1, <3>1, <1>r, Begins DEF Server
  <2>2. CASE ~(MayFetch(FALSE) /\ ~ReplaysMarker)
    <3>1. /\ address' = bound' /\ (bound # None => bound' = bound)
          /\ given_up' = IF fetch.gone THEN "dropped" ELSE given_up
      BY <1>7, <2>2, <1>r DEF Server, Bind, Refused
    <3>2. fetch.stage # "none" => fetch.at # None
      BY <1>a DEF FlightOK, FetchOK, Address, None
    <3> QED
      BY <1>7, <2>2, <3>1, <3>2, <1>r DEF Server
  <2> QED
    BY <2>1, <2>2
<1>8. ASSUME NEW f \in Frame \cup {None}, ServerEnds(f) PROVE Rest'
  BY <1>8, <1>r DEF ServerEnds, element, fetching
<1>9. ASSUME NEW kind \in {"server", "revalidate"}, Retry(kind) PROVE Rest'
  <2>1. CASE where = "out" \/ done \/ fetch.stage # "none"
    <3>1. /\ UNCHANGED <<scheduled, fetch, address, bound>>
          /\ given_up' = IF fetch.gone THEN "dropped" ELSE given_up
      BY <1>9, <2>1 DEF Retry, Refused
    <3> QED
      BY <1>9, <3>1, <1>r DEF Retry
  <2>2. CASE where = "in" /\ ~done /\ fetch.stage = "none" /\ kind = "revalidate"
    <3>1. BeginFetch(TRUE, "plain") /\ minted' \in Address
      BY <1>9, <2>2, <1>a DEF Retry, FlightOK
    <3> QED
      BY <1>9, <2>2, <3>1, <1>r, Begins DEF Retry
  <2>3. CASE where = "in" /\ ~done /\ fetch.stage = "none" /\ kind # "revalidate"
    <3>1. UNCHANGED <<fetch, given_up, address, bound>>
      BY <1>9, <2>3 DEF Retry
    <3> QED
      BY <1>9, <2>3, <3>1, <1>r DEF Retry
  <2>4. where = "in" \/ where = "out"
    BY <1>a DEF ElementOK
  <2> QED
    BY <2>1, <2>2, <2>3, <2>4
<1>10. CASE Renew
  <2>1. minted' \in Address
    BY <1>t DEF TypeOK
  <2>2. CASE address # None /\ MayFetch(TRUE)
    BY <1>10, <2>1, <2>2, <1>r, Begins DEF Renew, element
  <2>3. CASE ~(address # None /\ MayFetch(TRUE))
    <3>1. UNCHANGED <<fetch, given_up, address, bound>>
      BY <1>10, <2>3 DEF Renew
    <3> QED
      BY <1>10, <3>1, <1>r DEF Renew, element
  <2> QED
    BY <2>2, <2>3
<1>11. CASE Teardown
  <2>1. CASE where = "in"
    BY <1>11, <2>1, <1>r DEF Teardown
  <2>2. CASE where # "in"
    <3>1. PICK killed \in BOOLEAN : fetch' = Abandoned(killed)
      BY <1>11, <2>2 DEF Teardown
    <3>2. fetch'.stage = fetch.stage /\ (fetch.stage = "none" => fetch' = fetch)
          /\ (fetch.stage # "none" => fetch'.gone)
      BY <3>1, <1>a DEF Abandoned, FlightOK, FetchOK, Fetches
    <3> QED
      BY <1>11, <2>2, <3>2, <1>r DEF Teardown, Unbound, Forgotten
  <2> QED
    BY <2>1, <2>2
<1>12. CASE Fires \/ Connect \/ Disconnect
  BY <1>12, <1>r, <1>a DEF Fires, Connect, Arm, Disconnect, fetching, ElementOK
<1>13. CASE Orphaned
  BY <1>13, <1>r, <1>a DEF Orphaned, FlightOK, FetchOK, Fetches, element
<1>14. CASE UNCHANGED vars
  BY <1>14, <1>r DEF vars, element, fetching
<1> QED
  BY <1>1, <1>3, <1>4, <1>5, <1>6, <1>7, <1>8, <1>9, <1>10, <1>11, <1>12, <1>13, <1>14 DEF Next, Step

\* It holds at first.
LEMMA BaseInit == Init => Base
BY TypeInit DEF Init, Base, NoFetch

\* Base holds in every behaviour.
LEMMA BaseHolds == Spec => []Base
BY BaseInit, BaseStep, PTL DEF Spec

\* However often the hole is moved, renewed or taken out, an element with a fetch
\* of its own under way listens where that fetch will be answered.
THEOREM ListensThere == Spec => []ListensWhereItAsks
<1>1. Base => ListensWhereItAsks
  BY DEF Base, ListensWhereItAsks
<1> QED
  BY <1>1, BaseHolds, PTL

-----------------------------------------------------------------------------
(* What #apply does with a frame, and what it does not undo.                  *)

\* Nothing applied is forgotten, and a kept fallback counts as an answer.
Grows == /\ done => done'
         /\ kept => kept'
         /\ (kept => done) => (kept' => done')
         /\ applies # <<>> => applies' # <<>>
         /\ \A f \in Frame : Contains(applies, f) => Contains(applies', f)
         /\ shown' = shown

\* The frame being applied waits for its stylesheet.
ApplyingWaits == applying # None /\ Contains(applies, applying)

\* The frame that goes in last, once all stylesheets are there.
Due == IF applies = <<>> THEN shown ELSE applies[Len(applies)]

\* An element that is there takes a frame as its answer or as the word to keep its
\* fallback.
LEMMA Applies ==
  ASSUME PageOK, NEW f \in Frame \cup {None}, Apply(f)
  PROVE  /\ Grows
         /\ where = "in" /\ f # None => done' \/ ApplyingWaits'
         /\ where = "in" /\ f \notin markers' \cup {None} => Due' = f
<1>1. CASE f = None
  BY <1>1 DEF Apply, page, Grows, None
<1>2. CASE f # None /\ where = "in" /\ f \notin markers'
  <2>1. applies' = Append(applies, f) /\ applying' = f /\ UNCHANGED <<done, kept, shown>>
    BY <1>2 DEF Apply, PageOK
  <2>2. f \in Frame /\ applies \in Seq(Frame) /\ Len(applies) \in Nat
    BY <1>2, LenProperties DEF PageOK
  <2>3. /\ applies' # <<>> /\ Len(applies') = Len(applies) + 1
        /\ applies'[Len(applies) + 1] = f /\ Contains(applies', f)
        /\ \A g \in Frame : Contains(applies, g) => Contains(applies', g)
    BY <2>1, <2>2, Appended
  <2>4. Grows
    BY <2>1, <2>3 DEF Grows
  <2>5. ApplyingWaits'
    BY <1>2, <2>1, <2>3 DEF ApplyingWaits
  <2>6. Due' = f
    BY <2>3 DEF Due
  <2> QED
    BY <2>4, <2>5, <2>6
<1>3. CASE f # None /\ ~(where = "in" /\ f \notin markers')
  <2>1. applies' = applies /\ shown' = shown
    BY <1>3 DEF Apply
  <2>2. /\ done' = (done \/ (where = "in" /\ f \in markers'))
        /\ kept' = (kept \/ (where = "in" /\ f \in markers'))
    BY <1>3 DEF Apply
  <2>3. Grows
    BY <2>1, <2>2 DEF Grows
  <2>4. where = "in" => done'
    BY <1>3, <2>2
  <2> QED
    BY <1>3, <2>3, <2>4
<1> QED
  BY <1>1, <1>2, <1>3

\* A bound element has what is applied at its address: it was answered, or the
\* frame waits for its stylesheet.
Delivered == bound # None /\ content[bound] # None => done \/ ApplyingWaits

\* Nothing but what was applied is left of a page that does not change.
LEMMA SamePage ==
  ASSUME UNCHANGED page
  PROVE  Grows /\ Due' = Due /\ ApplyingWaits' = ApplyingWaits
BY DEF page, Grows, Due, ApplyingWaits

\* A subscription replays the frame that is applied.
LEMMA Binds ==
  ASSUME TypeOK, NEW a \in Address, Bind(a), UNCHANGED content
  PROVE  /\ Grows
         /\ where = "in" => Delivered'
         /\ where = "in" /\ content[a] \notin markers' \cup {None} => Due' = content[a]
<1>1. PageOK /\ content[a] \in Frame \cup {None}
  BY DEF TypeOK, PageOK
<1>2. /\ Grows
      /\ where = "in" /\ content[a] # None => done' \/ ApplyingWaits'
      /\ where = "in" /\ content[a] \notin markers' \cup {None} => Due' = content[a]
  BY <1>1, Applies DEF Bind
<1>3. bound' = a /\ content' = content
  BY DEF Bind
<1> QED
  BY <1>2, <1>3 DEF Delivered

\* A frame that lands reaches the element that is bound there.
LEMMA LandsReaches ==
  ASSUME TypeOK, NEW a \in Address, Lands(a), UNCHANGED bound
  PROVE  /\ Grows
         /\ bound = a \/ UNCHANGED page
         /\ where = "in" /\ bound = a => Delivered'
         /\ where = "in" /\ bound = a /\ content'[a] \notin markers' \cup {None} => Due' = content'[a]
         /\ bound # a => bound' = bound /\ (bound # None => content'[bound] = content[bound])
         /\ content'[a] # None /\ markers \subseteq markers'
<1>1. PageOK /\ landed + 1 \in Frame
  BY DEF TypeOK, PageOK, Lands
<1>2. landed + 1 # None
  BY <1>1 DEF Frame, None
<1>3. content'[a] = landed + 1 /\ \A b \in Address : b # a => content'[b] = content[b]
  BY DEF Lands, TypeOK
<1>4. CASE bound = a
  <2>1. /\ Grows
        /\ where = "in" => done' \/ ApplyingWaits'
        /\ where = "in" /\ landed + 1 \notin markers' \cup {None} => Due' = landed + 1
    BY <1>1, <1>2, <1>4, Applies DEF Lands
  <2> QED
    BY <1>2, <1>3, <1>4, <2>1 DEF Delivered, Lands
<1>5. CASE bound # a
  <2>1. UNCHANGED page
    BY <1>5 DEF Lands
  <2> QED
    BY <1>2, <1>3, <1>5, <2>1, SamePage DEF Lands, TypeOK
<1> QED
  BY <1>4, <1>5

\* A fetch that begins replays what its address holds, if the element was bound
\* elsewhere.
LEMMA BeginsPage ==
  ASSUME Base, NEW revalidate \in BOOLEAN, NEW by \in {"server", "plain"},
         minted' \in Address, BeginFetch(revalidate, by), UNCHANGED content
  PROVE  Grows /\ (where = "in" /\ (Delivered \/ Rebinds) => Delivered')
<1>1. CASE Rebinds
  <2>1. Bind(minted')
    BY <1>1 DEF BeginFetch
  <2> QED
    BY <2>1, Binds DEF Base
<1>2. CASE ~Rebinds
  <2>1. UNCHANGED <<bound, page>>
    BY <1>2 DEF BeginFetch
  <2>2. Grows /\ ApplyingWaits' = ApplyingWaits /\ done' = done
    BY <2>1, SamePage DEF page
  <2> QED
    BY <1>2, <2>1, <2>2 DEF Delivered
<1> QED
  BY <1>1, <1>2

-----------------------------------------------------------------------------
(* A stay: from the element's arrival to the teardown that finds it gone.  A  *)
(* start of an earlier stay that ran in between spoils it.                    *)

Stays == (where = "in" \/ leaving) /\ ~strayed

\* An element that is gone is bound nowhere; one that is there has what is applied
\* at its address.
Place ==
  /\ Base
  /\ where = "out" /\ ~leaving /\ ~strayed => bound = None
  /\ kept => done
  /\ Stays => Delivered

\* Every step keeps it.
LEMMA PlaceStep ==
  ASSUME Place, [Next]_vars
  PROVE  Place'
<1>t. Base /\ Base' /\ TypeOK /\ TypeOK'
  BY BaseStep DEF Place, Base
<1>a. ElementOK /\ FlightOK /\ PageOK /\ StoreOK
  BY <1>t, TypeParts
<1>b. /\ where = "out" /\ ~leaving /\ ~strayed => bound = None
      /\ kept => done
      /\ Stays => Delivered
      /\ where = "in" \/ where = "out"
  BY <1>a DEF Place, Stays, ElementOK
<1> DEFINE Rest == /\ where = "out" /\ ~leaving /\ ~strayed => bound = None
                   /\ kept => done
                   /\ Stays => Delivered
<1> SUFFICES Rest'
  BY <1>t DEF Place, Stays
<1> USE DEF Stays
<1>1. ASSUME NEW f \in Frame, Sheet(f) PROVE Rest'
  BY <1>1, <1>b DEF Sheet, element, store, Delivered
<1>2. ASSUME UNCHANGED <<where, leaving, strayed, bound, page>>,
             bound # None => content'[bound] = content[bound]
      PROVE  Rest'
  BY <1>2, <1>b, SamePage DEF page, Delivered
<1>3. ASSUME NEW a \in Address, Lands(a), ~leaving, UNCHANGED <<element, bound>>
      PROVE  Rest'
  <2>1. Grows /\ (where = "in" /\ bound = a => Delivered')
    BY <1>t, <1>3, LandsReaches
  <2>2. kept' => done'
    BY <2>1, <1>b DEF Grows
  <2>3. CASE bound # a
    <3>1. UNCHANGED page /\ (bound # None => content'[bound] = content[bound])
      BY <1>t, <1>3, <2>3, LandsReaches
    <3> QED
      BY <1>3, <1>2, <3>1 DEF element
  <2>4. CASE bound = a
    <3>1. a # None
      BY DEF Address, None
    <3> QED
      BY <1>3, <1>b, <2>1, <2>2, <2>4, <3>1 DEF element
  <2> QED
    BY <2>3, <2>4
<1>4. CASE Joined
  BY <1>4, <1>2 DEF Joined, element, store
<1>5. CASE Answered
  <2>1. CASE Lands(fetch.at)
    BY <1>5, <1>a, <1>3, <2>1 DEF Answered, FlightOK, FetchOK
  <2>2. CASE UNCHANGED <<page, store>>
    BY <1>5, <1>2, <2>2 DEF Answered, element, store
  <2> QED
    BY <1>5, <2>1, <2>2 DEF Answered
<1>6. CASE Failed \/ Swallowed \/ Orphaned
  BY <1>6, <1>2 DEF Failed, Swallowed, Orphaned, element, store
<1>7. ASSUME NEW a \in Address, OtherFrame(a) PROVE Rest'
  BY <1>7, <1>3 DEF OtherFrame
<1>8. ASSUME NEW a \in Address, Evict(a) PROVE Rest'
  <2>1. bound # None => content'[bound] = content[bound]
    BY <1>8, <1>a DEF Evict, StoreOK, FlightOK
  <2> QED
    BY <1>8, <2>1, <1>2 DEF Evict, element
<1>9. CASE Server
  <2>1. /\ ~leaving /\ UNCHANGED <<where, leaving, content>>
        /\ strayed' = (strayed \/ where = "out")
    BY <1>9 DEF Server
  <2>2. Grows /\ (where = "in" /\ ~strayed => Delivered')
    <3>1. CASE MayFetch(FALSE) /\ ~ReplaysMarker
      <4>1. minted' \in Address /\ BeginFetch(FALSE, "server")
        BY <1>9, <1>a, <3>1 DEF Server, FlightOK
      <4> QED
        BY <4>1, <1>b, <1>t, <2>1, BeginsPage
    <3>2. CASE ~(MayFetch(FALSE) /\ ~ReplaysMarker) /\ bound = None
      <4>1. Bind(minted) /\ minted \in Address
        BY <1>9, <1>a, <3>2 DEF Server, FlightOK
      <4> QED
        BY <4>1, <1>t, <2>1, Binds
    <3>3. CASE ~(MayFetch(FALSE) /\ ~ReplaysMarker) /\ bound # None
      BY <1>9, <1>b, <2>1, <3>3, SamePage DEF Server, Delivered, page
    <3> QED
      BY <3>1, <3>2, <3>3
  <2> QED
    BY <2>1, <2>2, <1>b DEF Grows
<1>10. ASSUME NEW f \in Frame \cup {None}, ServerEnds(f) PROVE Rest'
  BY <1>10, <1>2 DEF ServerEnds, element, store
<1>11. ASSUME BeginFetch(TRUE, "plain"), where = "in", where' = "in",
              UNCHANGED <<strayed, content>>
       PROVE  Rest'
  <2>1. minted' \in Address
    BY <1>t DEF TypeOK
  <2>2. Grows /\ (~strayed => Delivered')
    BY <1>11, <1>b, <1>t, <2>1, BeginsPage
  <2> QED
    BY <1>11, <2>2, <1>b DEF Grows
<1>12. ASSUME NEW kind \in {"server", "revalidate"}, Retry(kind) PROVE Rest'
  <2>1. CASE where = "in" /\ ~done /\ fetch.stage = "none" /\ kind = "revalidate"
    BY <1>12, <2>1, <1>11 DEF Retry
  <2>2. CASE ~(where = "in" /\ ~done /\ fetch.stage = "none" /\ kind = "revalidate")
    <3>1. UNCHANGED <<bound, page>>
      BY <1>12, <2>2 DEF Retry
    <3> QED
      BY <1>12, <3>1, <1>2 DEF Retry
  <2> QED
    BY <2>1, <2>2
<1>13. CASE Renew
  <2>1. CASE address # None /\ MayFetch(TRUE)
    BY <1>13, <2>1, <1>11 DEF Renew, element
  <2>2. CASE ~(address # None /\ MayFetch(TRUE))
    BY <1>13, <2>2, <1>2 DEF Renew, element
  <2> QED
    BY <2>1, <2>2
<1>14. CASE Teardown
  <2>1. CASE where = "in"
    BY <1>14, <2>1, <1>b, SamePage DEF Teardown, store, page, Delivered
  <2>2. CASE where = "out"
    BY <1>14, <2>2, <1>b DEF Teardown, Unbound, page
  <2> QED
    BY <1>b, <2>1, <2>2
<1>15. CASE Connect \/ Disconnect
  <2>1. UNCHANGED <<bound, page, store>>
    BY <1>15 DEF Connect, Disconnect
  <2>2. CASE Stays
    BY <1>15, <1>b, <2>1, <2>2, SamePage DEF Connect, Disconnect, Stays, store, page, Delivered
  <2>3. CASE ~Stays
    BY <1>15, <1>b, <2>1, <2>3 DEF Connect, Disconnect, Stays, page, Delivered
  <2> QED
    BY <2>2, <2>3
<1>16. CASE Fires \/ UNCHANGED vars
  BY <1>16, <1>2 DEF Fires, vars, element, store
<1> QED
  BY <1>1, <1>4, <1>5, <1>6, <1>7, <1>8, <1>9, <1>10, <1>12, <1>13, <1>14, <1>15, <1>16
     DEF Next, Step

-----------------------------------------------------------------------------
(* The fallback is temporary.                                                 *)

\* The answer waits for its stylesheet, is asked for by a fetch of this stay, or
\* there is a verdict.
Filling == applies # <<>> \/ IsFetching \/ given_up # "no"

\* An unanswered element that is there will ask, asks, or has a verdict; what was
\* scheduled is no retry's to start.  One that is bound nowhere has yet to start.
Pending ==
  /\ Stays /\ ~done => armed \/ starting \/ (retries # {} /\ ~scheduled) \/ Filling
  /\ Stays /\ bound = None => armed \/ starting

\* Every step keeps it.
LEMMA PendingStep ==
  ASSUME Place, Pending, [Next]_vars
  PROVE  Pending'
<1>t. Base /\ Base' /\ TypeOK /\ TypeOK' /\ Place'
  BY PlaceStep DEF Place, Base
<1>a. ElementOK /\ FlightOK /\ PageOK /\ PageOK' /\ StoreOK
  BY <1>t, TypeParts DEF TypeOK, PageOK
<1>b. /\ where = "in" \/ where = "out"
      /\ where = "out" /\ ~leaving => ~scheduled
      /\ fetch.stage # "none" => fetch.at # None
      /\ fetch.stage # "none" /\ ~fetch.gone => bound = fetch.at
      /\ fetch.stage # "none" /\ ~fetch.gone => IsFetching \/ given_up # "no"
  BY <1>a, <1>t DEF ElementOK, FlightOK, FetchOK, Fetches, Base, Address, None, IsFetching
<1>c. bound' # None /\ content'[bound'] # None /\ Stays' => done' \/ applies' # <<>>
  <2>1. Stays' => Delivered'
    BY <1>t DEF Place
  <2>2. Len(<<>>) = 0
    BY EmptySeq
  <2>3. ApplyingWaits' => applies' # <<>>
    BY <2>2 DEF ApplyingWaits, Contains
  <2> QED
    BY <2>1, <2>3 DEF Delivered
<1> USE DEF Pending, Stays, Filling
<1>1. ASSUME NEW f \in Frame, Sheet(f) PROVE Pending'
  BY <1>1, <1>b DEF Sheet, element, fetching, IsFetching
<1>2. ASSUME UNCHANGED <<element, bound, retries>>, EndFetch, Grows,
             given_up # "no" => given_up' # "no",
             Stays /\ IsFetching => done' \/ applies' # <<>> \/ given_up' # "no"
      PROVE  Pending'
  BY <1>2 DEF Grows, element
<1>3. CASE Joined
  <2>1. CASE content[fetch.at] # None
    BY <1>3, <1>b, <1>c, <1>2, <2>1, SamePage DEF Joined, element, store, IsFetching
  <2>2. CASE content[fetch.at] = None
    <3>1. fetch'.stage = "waiting" /\ fetch'.gone = fetch.gone
      BY <1>3, <1>a, <2>2 DEF Joined, FlightOK, FetchOK, Fetches
    <3> QED
      BY <1>3, <2>2, <3>1 DEF Joined, element, page, IsFetching
  <2> QED
    BY <2>1, <2>2
<1>4. CASE Answered
  <2>1. fetch.at \in Address
    BY <1>4, <1>a DEF Answered, FlightOK, FetchOK
  <2>2. Grows
    BY <1>4, <1>t, <2>1, LandsReaches, SamePage DEF Answered
  <2>3. content'[fetch.at] # None
    BY <1>4, <1>t, <2>1, LandsReaches DEF Answered, store
  <2> QED
    BY <1>4, <1>b, <1>c, <1>2, <2>2, <2>3 DEF Answered, element, IsFetching
<1>5. ASSUME NEW a \in Address, OtherFrame(a) PROVE Pending'
  <2>1. Grows
    BY <1>5, <1>t, LandsReaches DEF OtherFrame
  <2> QED
    BY <1>5, <2>1 DEF OtherFrame, Grows, element, fetching, IsFetching
<1>6. ASSUME NEW a \in Address, Evict(a) PROVE Pending'
  BY <1>6 DEF Evict, element, fetching, page, IsFetching
<1>7. CASE Failed
  BY <1>7 DEF Failed, Unscheduled, page
<1>8. CASE Swallowed
  <2>1. given_up' # "no" \/ (given_up' = given_up /\ fetch.gone)
    BY <1>8 DEF Swallowed
  <2> QED
    BY <1>8, <1>2, <2>1, SamePage DEF Swallowed, IsFetching
<1>9. CASE Orphaned
  BY <1>9 DEF Orphaned, IsFetching, element, page
<1>10. CASE Server
  <2>1. CASE MayFetch(FALSE) /\ ~ReplaysMarker
    <3>1. minted' \in Address /\ BeginFetch(FALSE, "server")
      BY <1>10, <1>a, <2>1 DEF Server, FlightOK
    <3> QED
      BY <3>1, <1>t, Begins DEF IsFetching
  <2>2. CASE ~(MayFetch(FALSE) /\ ~ReplaysMarker)
    <3>0. IF bound = None THEN Bind(minted) ELSE UNCHANGED <<address, bound, page>>
      BY <1>10, <2>2 DEF Server
    <3>1. bound' # None
      <4>1. minted # None
        BY <1>a DEF FlightOK, Address, None
      <4> QED
        BY <3>0, <4>1 DEF Bind
    <3>2. Grows
      BY <1>10, <1>a, <1>t, <2>2, Binds, SamePage DEF Server, FlightOK
    <3>3. fetch' = fetch /\ given_up' = IF fetch.gone THEN "dropped" ELSE given_up
      BY <1>10, <2>2 DEF Server, Refused
    <3>4. CASE ReplaysMarker
      <4>1. bound' = minted /\ content' = content /\ content[minted] # None
        BY <1>10, <1>a, <2>2, <3>4 DEF ReplaysMarker, Server, Bind, StoreOK, Frame, None
      <4> QED
        BY <1>c, <3>1, <4>1
    <3>5. CASE ~ReplaysMarker
      BY <1>b, <2>2, <3>1, <3>2, <3>3, <3>5 DEF Grows, MayFetch, IsFetching
    <3> QED
      BY <3>4, <3>5
  <2> QED
    BY <2>1, <2>2
<1>11. ASSUME NEW f \in Frame \cup {None}, ServerEnds(f) PROVE Pending'
  BY <1>11 DEF ServerEnds, element, fetching, page, IsFetching
<1>12. ASSUME NEW kind \in {"server", "revalidate"}, Retry(kind) PROVE Pending'
  <2>1. CASE where = "out" \/ done \/ fetch.stage # "none"
    <3>1. /\ given_up' = IF fetch.gone THEN "dropped" ELSE given_up
          /\ UNCHANGED <<scheduled, armed, fetch, address, bound, page>>
      BY <1>12, <2>1 DEF Retry, Refused
    <3>2. UNCHANGED <<where, leaving, starting, strayed>> /\ ~leaving
      BY <1>12 DEF Retry
    <3> QED
      BY <1>b, <2>1, <3>1, <3>2 DEF page, IsFetching
  <2>2. CASE where = "in" /\ ~done /\ fetch.stage = "none" /\ kind = "revalidate"
    <3>1. BeginFetch(TRUE, "plain") /\ minted' \in Address
      BY <1>12, <2>2, <1>a DEF Retry, FlightOK
    <3> QED
      BY <3>1, <1>t, Begins DEF IsFetching
  <2>3. CASE where = "in" /\ ~done /\ fetch.stage = "none" /\ kind # "revalidate"
    <3>1. /\ IF scheduled THEN UNCHANGED <<scheduled, armed>> ELSE Arm
          /\ UNCHANGED <<fetch, given_up, address, bound, page>>
      BY <1>12, <2>3 DEF Retry
    <3> QED
      BY <1>12, <2>3, <3>1 DEF Retry, Arm, page, IsFetching
  <2> QED
    BY <1>b, <2>1, <2>2, <2>3
<1>13. CASE Renew
  <2>1. CASE address # None /\ MayFetch(TRUE)
    <3>1. BeginFetch(TRUE, "plain") /\ minted' \in Address
      BY <1>13, <2>1, <1>t DEF Renew, TypeOK
    <3> QED
      BY <3>1, <1>t, Begins DEF IsFetching
  <2>2. CASE ~(address # None /\ MayFetch(TRUE))
    BY <1>13, <2>2 DEF Renew, element, page, IsFetching
  <2> QED
    BY <2>1, <2>2
<1>14. CASE Teardown
  BY <1>14, <1>b DEF Teardown, page, IsFetching
<1>15. CASE Connect
  BY <1>15, <1>b DEF Connect, Arm, fetching, page, IsFetching
<1>16. CASE Fires \/ Disconnect \/ UNCHANGED vars
  BY <1>16 DEF Fires, Disconnect, vars, element, fetching, page, IsFetching
<1> QED
  BY <1>1, <1>3, <1>4, <1>5, <1>6, <1>7, <1>8, <1>9, <1>10, <1>11, <1>12, <1>13, <1>14, <1>15,
     <1>16 DEF Next, Step

\* Place and Pending hold in every behaviour.
LEMMA PendingHolds == Spec => [](Place /\ Pending)
<1>1. Init => Place /\ Pending
  BY BaseInit DEF Init, Place, Pending, Stays
<1>2. Place /\ Pending /\ [Next]_vars => Place' /\ Pending'
  BY PlaceStep, PendingStep
<1> QED
  BY <1>1, <1>2, PTL DEF Spec

\* A hole shows its fallback only while something will still fill it, or with a
\* verdict (refused, exhausted, dropped, aborted, orphaned); not promised while a
\* start of an earlier stay spoils this one.
THEOREM FallbackNeverForgotten == Spec => []FallbackIsTemporary
<1>1. Pending => FallbackIsTemporary
  BY DEF Pending, Stays, Filling, FallbackIsTemporary, Attached, HasAFetch
<1> QED
  BY <1>1, PendingHolds, PTL

-----------------------------------------------------------------------------
(* The answered island is woken.                                              *)

\* A run of #server will wake it when the frame it awaits is there.
Awaited == \E f \in servers : done \/ Contains(applies, f)

\* While no fetch failed, an interactive element that is bound was woken, or the
\* run of #server that will wake it fetches or awaits its frame.
Waking ==
  Stays /\ bound # None /\ Interactive /\ ~kept /\ attempts = 0 =>
    \/ woken \/ given_up # "no" \/ Awaited
    \/ fetch.by = "server" /\ IsFetching

\* Every step keeps it.
LEMMA WakingStep ==
  ASSUME Place, Waking, [Next]_vars
  PROVE  Waking'
<1>t. Base /\ Base' /\ TypeOK /\ TypeOK' /\ Place'
  BY PlaceStep DEF Place, Base
<1>a. ElementOK /\ FlightOK /\ PageOK /\ PageOK' /\ StoreOK
  BY <1>t, TypeParts DEF TypeOK, PageOK
<1>b. /\ where = "in" \/ where = "out"
      /\ where = "out" /\ ~leaving /\ ~strayed => bound = None
      /\ fetch.stage # "none" => fetch.at # None
      /\ fetch.stage # "none" /\ ~fetch.gone => bound = fetch.at
      /\ fetch.stage # "none" /\ ~fetch.gone => IsFetching \/ given_up # "no"
      /\ fetch.stage = "none" => fetch.by = "none" /\ ~IsFetching
      /\ attempts = 0 => retries = {}
      /\ address = bound
  <2>1. attempts = 0 => ~(attempts > 0)
    OBVIOUS
  <2> QED
    BY <1>a, <1>t, <2>1
       DEF ElementOK, FlightOK, FetchOK, Fetches, Base, Place, Address, None, NoFetch, IsFetching
<1>c. bound' # None /\ content'[bound'] # None /\ Stays' => done' \/ ApplyingWaits'
  BY <1>t DEF Place, Delivered
<1>d. ASSUME Grows, servers \subseteq servers' PROVE Awaited => Awaited'
  <2>1. \A f \in servers : f # None => f \in Frame
    BY <1>a DEF FlightOK
  <2>2. ~Contains(applies, None)
    <3>1. \A k \in 1 .. Len(applies) : applies[k] \in Frame
      BY <1>a, ElementOfSeq DEF PageOK
    <3>2. None \notin Frame
      BY DEF Frame, None
    <3> QED
      BY <3>1, <3>2 DEF Contains
  <2> QED
    BY <1>d, <2>1, <2>2 DEF Awaited, Grows
<1> USE DEF Stays
<1>1. ASSUME NEW f \in Frame, Sheet(f) PROVE Waking'
  <2>1. CASE where = "in"
    BY <1>1, <2>1 DEF Sheet, Waking, Awaited, element, fetching, IsFetching
  <2>2. CASE where = "out"
    BY <1>1, <1>b, <2>2 DEF Sheet, Waking, element
  <2> QED
    BY <1>b, <2>1, <2>2
<1>2. ASSUME UNCHANGED <<where, leaving, strayed, bound, attempts, given_up, woken>>,
             EndFetch, Grows, Stays /\ IsFetching => done' \/ ApplyingWaits'
      PROVE  Waking'
  <2>1. servers \subseteq servers'
    BY <1>2 DEF EndFetch
  <2>2. CASE fetch.by = "server" /\ IsFetching
    <3>1. applying' \in servers'
      BY <1>2, <2>2 DEF EndFetch
    <3>2. Stays' => Awaited'
      BY <1>2, <1>b, <2>2, <3>1 DEF Awaited, ApplyingWaits
    <3> QED
      BY <3>2 DEF Waking
  <2>3. CASE ~(fetch.by = "server" /\ IsFetching)
    BY <1>2, <1>d, <2>1, <2>3 DEF Waking, Grows
  <2> QED
    BY <2>2, <2>3
<1>3. ASSUME UNCHANGED <<where, leaving, strayed, bound, attempts, given_up, woken, servers,
                         fetch>>,
             Grows
      PROVE  Waking'
  BY <1>3, <1>d DEF Waking, Grows, IsFetching
<1>4. CASE Joined
  <2>1. CASE content[fetch.at] # None
    BY <1>4, <1>b, <1>c, <1>2, <2>1, SamePage DEF Joined, element, store, IsFetching
  <2>2. CASE content[fetch.at] = None
    <3>1. fetch'.by = fetch.by /\ fetch'.gone = fetch.gone /\ fetch'.stage = "waiting"
      BY <1>4, <1>a, <2>2 DEF Joined, FlightOK, FetchOK, Fetches
    <3>2. Grows /\ servers' = servers
      BY <1>4, <2>2, SamePage DEF Joined
    <3> QED
      BY <1>4, <1>d, <3>1, <3>2 DEF Joined, Waking, Grows, element, IsFetching
  <2> QED
    BY <2>1, <2>2
<1>5. CASE Answered
  <2>1. fetch.at \in Address
    BY <1>5, <1>a DEF Answered, FlightOK, FetchOK
  <2>2. Grows
    BY <1>5, <1>t, <2>1, LandsReaches, SamePage DEF Answered
  <2>3. content'[fetch.at] # None
    BY <1>5, <1>t, <2>1, LandsReaches DEF Answered, store
  <2> QED
    BY <1>5, <1>b, <1>c, <1>2, <2>2, <2>3 DEF Answered, element, IsFetching
<1>6. ASSUME NEW a \in Address, OtherFrame(a) PROVE Waking'
  <2>1. Grows
    BY <1>6, <1>t, LandsReaches DEF OtherFrame
  <2> QED
    BY <1>6, <1>3, <2>1 DEF OtherFrame, element, fetching
<1>7. ASSUME NEW a \in Address, Evict(a) PROVE Waking'
  BY <1>7, <1>3, SamePage DEF Evict, element, fetching
<1>8. CASE Failed
  <2>1. attempts' # 0
    BY <1>8, <1>a, BoundAssumption DEF Failed, FlightOK
  <2> QED
    BY <2>1 DEF Waking
<1>9. CASE Swallowed
  <2>1. CASE fetch.gone
    BY <1>9, <1>2, <2>1, SamePage DEF Swallowed, element, IsFetching
  <2>2. CASE ~fetch.gone
    BY <1>9, <2>2 DEF Swallowed, Waking
  <2> QED
    BY <2>1, <2>2
<1>10. CASE Orphaned
  <2>1. CASE fetch.gone
    <3>1. Grows /\ fetch'.gone /\ UNCHANGED <<servers, given_up>>
      BY <1>10, <1>a, <2>1, SamePage DEF Orphaned, FlightOK, FetchOK, Fetches
    <3> QED
      BY <1>10, <1>d, <2>1, <3>1 DEF Orphaned, Waking, Grows, element, IsFetching
  <2>2. CASE ~fetch.gone
    BY <1>10, <2>2 DEF Orphaned, Waking
  <2> QED
    BY <2>1, <2>2
<1>11. CASE Server
  <2>1. CASE MayFetch(FALSE) /\ ~ReplaysMarker
    <3>1. minted' \in Address /\ BeginFetch(FALSE, "server")
      BY <1>11, <1>a, <2>1 DEF Server, FlightOK
    <3> QED
      BY <3>1, <1>t, Begins DEF Waking, IsFetching
  <2>2. CASE ReplaysMarker
    <3>1. Bind(minted) /\ content[minted] # None /\ markers' = markers
      BY <1>11, <1>a, <2>2 DEF Server, ReplaysMarker, StoreOK, Frame, None
    <3>2. kept'
      BY <2>2, <3>1 DEF Bind, Apply, ReplaysMarker
    <3> QED
      BY <3>2 DEF Waking
  <2>3. CASE ~MayFetch(FALSE) /\ ~ReplaysMarker
    <3>1. Grows
      BY <1>11, <1>a, <1>t, <2>3, Binds, SamePage DEF Server, FlightOK
    <3>2. /\ fetch' = fetch /\ given_up' = IF fetch.gone THEN "dropped" ELSE given_up
          /\ servers' = servers \cup {applying'}
      BY <1>11, <2>3 DEF Server, Refused
    <3>3. CASE done
      BY <3>1, <3>2, <3>3 DEF Grows, Waking, Awaited
    <3>4. CASE ~done
      <4>1. fetch.stage # "none"
        BY <2>3, <3>4 DEF MayFetch
      <4>2. CASE fetch.gone
        BY <3>2, <4>2 DEF Waking
      <4>3. CASE ~fetch.gone
        <5>1. bound # None /\ bound' = bound
          BY <1>11, <1>b, <2>3, <4>1, <4>3 DEF Server
        <5>2. UNCHANGED <<where, leaving, attempts, woken>> /\ (Stays' => Stays)
          BY <1>11 DEF Server
        <5> QED
          BY <1>d, <3>1, <3>2, <4>3, <5>1, <5>2 DEF Waking, Grows, IsFetching
      <4> QED
        BY <4>2, <4>3
    <3> QED
      BY <3>3, <3>4
  <2> QED
    BY <2>1, <2>3, <2>2
<1>12. ASSUME NEW f \in Frame \cup {None}, ServerEnds(f) PROVE Waking'
  <2>1. CASE where = "out"
    BY <1>12, <1>b, <2>1 DEF ServerEnds, Waking, element
  <2>2. CASE where = "in" /\ done
    BY <1>12, <2>2 DEF ServerEnds, Waking, page
  <2>3. CASE where = "in" /\ ~done
    <3>1. Awaited => Awaited'
      BY <1>12, <2>3 DEF ServerEnds, Applied, Awaited, page
    <3> QED
      BY <1>12, <3>1 DEF ServerEnds, Waking, element, fetching, page, IsFetching
  <2> QED
    BY <1>b, <2>1, <2>2, <2>3
<1>13. ASSUME NEW kind \in {"server", "revalidate"}, Retry(kind) PROVE Waking'
  BY <1>13, <1>b DEF Retry, Waking
<1>14. CASE Renew
  <2>1. CASE address # None /\ MayFetch(TRUE)
    <3>1. BeginFetch(TRUE, "plain") /\ minted' \in Address
      BY <1>14, <2>1, <1>t DEF Renew, TypeOK
    <3>2. Grows
      BY <1>14, <1>t, <3>1, BeginsPage DEF Place, Renew
    <3>3. fetch.stage = "none" /\ bound # None /\ given_up' = given_up
      BY <1>b, <2>1, <3>1 DEF MayFetch, BeginFetch
    <3> QED
      BY <1>14, <1>b, <1>d, <3>2, <3>3 DEF Renew, Waking, Grows, element
  <2>2. CASE ~(address # None /\ MayFetch(TRUE))
    BY <1>14, <1>3, <2>2, SamePage DEF Renew, element
  <2> QED
    BY <2>1, <2>2
<1>15. CASE Teardown
  <2>1. CASE where = "in"
    <3>2. Grows
      BY <1>15, SamePage DEF Teardown
    <3>3. UNCHANGED <<where, strayed, bound, attempts, given_up, woken, servers, fetch>>
      BY <1>15, <2>1 DEF Teardown
    <3>4. Awaited => Awaited'
      BY <1>d, <3>2, <3>3
    <3> QED
      BY <2>1, <3>2, <3>3, <3>4 DEF Waking, Grows, IsFetching
  <2>2. CASE where = "out"
    BY <1>15, <2>2 DEF Teardown, Waking, Unbound
  <2> QED
    BY <1>b, <2>1, <2>2
<1>16. CASE Connect \/ Disconnect
  <2>1. UNCHANGED <<bound, attempts, given_up, woken, servers, fetch, page>>
    BY <1>16 DEF Connect, Disconnect, fetching
  <2>2. Grows
    BY <2>1, SamePage
  <2>3. Awaited => Awaited'
    BY <1>d, <2>1, <2>2
  <2>4. Stays' /\ bound # None => Stays
    BY <1>16, <1>b DEF Connect, Disconnect
  <2> QED
    BY <2>1, <2>2, <2>3, <2>4 DEF Waking, Grows, IsFetching
<1>17. CASE Fires
  BY <1>17, <1>3, SamePage DEF Fires, fetching
<1>18. CASE UNCHANGED vars
  BY <1>18, <1>3, SamePage DEF vars, element, fetching
<1> QED
  BY <1>1, <1>4, <1>5, <1>6, <1>7, <1>8, <1>9, <1>10, <1>11, <1>12, <1>13, <1>14, <1>15, <1>16,
     <1>17, <1>18 DEF Next, Step

\* An interactive hole that was answered is woken, or a run of #server is under
\* way that will; not promised after a failed fetch, a verdict, or while a start of
\* an earlier stay spoils this one.
THEOREM AnsweredNeverStaysDead == Spec => []AnsweredIsWoken
<1>1. Init => Waking
  BY DEF Init, Waking, Stays
<1>2. Place /\ Waking /\ [Next]_vars => Waking'
  BY WakingStep
<1>3. Place /\ Pending /\ Waking => AnsweredIsWoken
  BY DEF Pending, Waking, Awaited, Stays, AnsweredIsWoken, Attached
<1> QED
  BY <1>1, <1>2, <1>3, PendingHolds, PTL DEF Spec

-----------------------------------------------------------------------------
(* The element shows the frame applied at its address.                        *)

\* What goes in last is the frame applied where the element is bound, unless it
\* went in before an older one, or a start of an earlier stay spoils this one.
ShowsLast ==
  ~overtaken /\ ~strayed /\ bound # None /\ content[bound] \notin markers \cup {None} =>
    Due = content[bound]

\* Every step keeps it.
LEMMA ShowsStep ==
  ASSUME Place, ShowsLast, [Next]_vars
  PROVE  ShowsLast'
<1>t. Base /\ Base' /\ TypeOK /\ TypeOK'
  BY BaseStep DEF Place, Base
<1>a. ElementOK /\ FlightOK /\ PageOK /\ StoreOK
  BY <1>t, TypeParts
<1>b. /\ where = "in" \/ where = "out"
      /\ where = "out" /\ ~leaving /\ ~strayed => bound = None
  BY <1>a DEF ElementOK, Place
<1>1. ASSUME NEW f \in Frame, Sheet(f) PROVE ShowsLast'
  <2>1. CASE where = "out"
    BY <1>1, <1>b, <2>1 DEF Sheet, ShowsLast, element
  <2>2. CASE where = "in"
    <3>1. PICK i \in DOMAIN applies :
            /\ applies[i] = f /\ applies' = RemoveAt(applies, i)
            /\ overtaken' = (overtaken \/ (i = Len(applies) /\ i > 1))
      BY <1>1 DEF Sheet
    <3>2. shown' = f /\ UNCHANGED <<bound, strayed, content, markers>>
      BY <1>1, <2>2 DEF Sheet, element, store
    <3>3. Len(applies) \in Nat /\ i \in 1 .. Len(applies) /\ applies # <<>>
      BY <1>a, <3>1, LenProperties, EmptySeq DEF PageOK
    <3>4. /\ applies' \in Seq(Frame) /\ Len(applies') = Len(applies) - 1
          /\ \A k \in i .. Len(applies) - 1 : applies'[k] = applies[k + 1]
      BY <1>a, <3>1, Removed DEF PageOK
    <3>5. CASE i = Len(applies) /\ i > 1
      BY <3>1, <3>5 DEF ShowsLast
    <3>6. CASE i = 1 /\ Len(applies) = 1
      <4>1. applies' = <<>>
        BY <3>4, <3>6, EmptySeq
      <4>2. Due' = Due
        BY <3>1, <3>2, <3>3, <3>6, <4>1 DEF Due
      <4> QED
        BY <3>1, <3>2, <4>2 DEF ShowsLast
    <3>7. CASE i < Len(applies)
      <4>1. /\ applies' # <<>>
            /\ Len(applies) - 1 \in i .. Len(applies) - 1
            /\ (Len(applies) - 1) + 1 = Len(applies)
        BY <3>3, <3>4, <3>7, EmptySeq
      <4>2. applies'[Len(applies) - 1] = applies[Len(applies)]
        BY <3>4, <4>1
      <4>3. Due' = Due
        BY <3>3, <3>4, <4>1, <4>2 DEF Due
      <4> QED
        BY <3>1, <3>2, <4>3 DEF ShowsLast
    <3>8. i < Len(applies) \/ (i = Len(applies) /\ i > 1) \/ (i = 1 /\ Len(applies) = 1)
      BY <3>3
    <3> QED
      BY <3>5, <3>6, <3>7, <3>8
  <2> QED
    BY <1>b, <2>1, <2>2
<1>2. ASSUME UNCHANGED <<bound, page>>, strayed' = strayed, markers \subseteq markers',
             bound # None => content'[bound] = content[bound]
      PROVE  ShowsLast'
  <2>1. Due' = Due /\ overtaken' = overtaken
    BY <1>2, SamePage DEF page
  <2> QED
    BY <1>2, <2>1 DEF ShowsLast
<1>3. ASSUME NEW a \in Address, Lands(a), ~leaving, UNCHANGED <<bound, strayed>>
      PROVE  ShowsLast'
  <2>1. CASE bound = a
    <3>1. where = "in" \/ strayed
      BY <1>3, <1>b, <2>1 DEF Address, None
    <3> QED
      BY <1>3, <1>t, <2>1, <3>1, LandsReaches DEF ShowsLast
  <2>2. CASE bound # a
    BY <1>3, <1>2, <1>t, <2>2, LandsReaches
  <2> QED
    BY <2>1, <2>2
<1>4. CASE Answered
  <2>1. CASE Lands(fetch.at)
    BY <1>4, <1>a, <1>3, <2>1 DEF Answered, FlightOK, FetchOK, element
  <2>2. CASE UNCHANGED <<page, store>>
    BY <1>4, <1>2, <2>2 DEF Answered, store, element
  <2> QED
    BY <1>4, <2>1, <2>2 DEF Answered
<1>5. ASSUME NEW a \in Address, OtherFrame(a) PROVE ShowsLast'
  BY <1>5, <1>3 DEF OtherFrame, element
<1>6. ASSUME NEW a \in Address, Evict(a) PROVE ShowsLast'
  <2>1. bound # None => content'[bound] = content[bound]
    BY <1>6, <1>a DEF Evict, StoreOK, FlightOK
  <2> QED
    BY <1>6, <1>2, <2>1 DEF Evict, element
<1>7. ASSUME NEW a \in Address, where = "in", Bind(a), UNCHANGED store
      PROVE  ShowsLast'
  <2>1. content[a] \notin markers' \cup {None} => Due' = content[a]
    BY <1>7, <1>t, Binds DEF store
  <2> QED
    BY <1>7, <2>1 DEF ShowsLast, Bind, store
<1>8. ASSUME NEW revalidate \in BOOLEAN, NEW by \in {"server", "plain"},
             BeginFetch(revalidate, by), where = "in", UNCHANGED <<strayed, store>>
      PROVE  ShowsLast'
  <2>1. minted' \in Address
    BY <1>t DEF TypeOK
  <2>2. CASE Rebinds
    BY <1>7, <1>8, <2>1, <2>2 DEF BeginFetch
  <2>3. CASE ~Rebinds
    BY <1>2, <1>8, <2>3 DEF BeginFetch, store
  <2> QED
    BY <2>2, <2>3
<1>9. CASE Server
  <2>1. UNCHANGED store /\ strayed' = (strayed \/ where = "out")
    BY <1>9 DEF Server, store
  <2>2. where = "in" => strayed' = strayed
    BY <1>a, <2>1 DEF ElementOK
  <2>3. CASE where = "out"
    BY <2>1, <2>3 DEF ShowsLast
  <2>4. CASE where = "in" /\ MayFetch(FALSE) /\ ~ReplaysMarker
    BY <1>8, <1>9, <2>1, <2>4, <2>2 DEF Server
  <2>5. CASE where = "in" /\ ~(MayFetch(FALSE) /\ ~ReplaysMarker) /\ bound = None
    BY <1>7, <1>9, <1>a, <2>1, <2>5 DEF Server, FlightOK
  <2>6. CASE where = "in" /\ ~(MayFetch(FALSE) /\ ~ReplaysMarker) /\ bound # None
    BY <1>2, <1>9, <2>1, <2>6, <2>2 DEF Server, store
  <2> QED
    BY <1>b, <2>3, <2>4, <2>5, <2>6
<1>10. ASSUME NEW kind \in {"server", "revalidate"}, Retry(kind) PROVE ShowsLast'
  <2>1. UNCHANGED <<strayed, store>>
    BY <1>10 DEF Retry, store
  <2>2. CASE where = "in" /\ ~done /\ fetch.stage = "none" /\ kind = "revalidate"
    BY <1>8, <1>10, <2>1, <2>2 DEF Retry
  <2>3. CASE ~(where = "in" /\ ~done /\ fetch.stage = "none" /\ kind = "revalidate")
    <3>1. UNCHANGED <<bound, page>>
      BY <1>10, <2>3 DEF Retry
    <3> QED
      BY <1>2, <2>1, <3>1 DEF store
  <2> QED
    BY <2>2, <2>3
<1>11. CASE Renew
  <2>1. UNCHANGED <<strayed, store>> /\ where = "in"
    BY <1>11 DEF Renew, store, element
  <2>2. CASE address # None /\ MayFetch(TRUE)
    BY <1>8, <1>11, <2>1, <2>2 DEF Renew
  <2>3. CASE ~(address # None /\ MayFetch(TRUE))
    BY <1>2, <1>11, <2>1, <2>3 DEF Renew, store
  <2> QED
    BY <2>2, <2>3
<1>12. CASE Teardown
  <2>1. CASE where = "in"
    BY <1>2, <1>12, <2>1 DEF Teardown, store
  <2>2. CASE where # "in"
    BY <1>12, <2>2 DEF Teardown, Unbound, ShowsLast
  <2> QED
    BY <2>1, <2>2
<1>13. CASE \/ Joined \/ Failed \/ Swallowed \/ Orphaned \/ Connect \/ Disconnect \/ Fires
            \/ UNCHANGED vars \/ \E f \in Frame \cup {None} : ServerEnds(f)
  <2>1. UNCHANGED <<strayed, bound, page, store>>
    BY <1>13
       DEF Joined, Failed, Swallowed, Orphaned, Connect, Disconnect, Fires, vars, ServerEnds, element
  <2> QED
    BY <1>2, <2>1 DEF store
<1> QED
  BY <1>1, <1>4, <1>5, <1>6, <1>9, <1>10, <1>11, <1>12, <1>13 DEF Next, Step

\* However often it was moved, renewed or taken out, a hole listens where its fetch
\* will be answered and, with no stylesheet awaited, shows the frame applied there,
\* unless that one overtook an older one whose stylesheet took longer, or a start of
\* an earlier stay spoils this one.
THEOREM ShownIsApplied == Spec => []ShowsItsFrame
<1>1. Init => ShowsLast
  BY DEF Init, ShowsLast
<1>2. Place /\ ShowsLast /\ [Next]_vars => ShowsLast'
  BY ShowsStep
<1>3. Place /\ ShowsLast => ShowsItsFrame
  BY DEF Place, Base, ShowsLast, Due, ShowsItsFrame, ListensWhereItAsks, Attached
<1> QED
  BY <1>1, <1>2, <1>3, PendingHolds, PTL DEF Spec
=============================================================================
