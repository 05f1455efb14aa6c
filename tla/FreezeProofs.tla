---------------------------- MODULE FreezeProofs ----------------------------
(* Theorems about Freeze for every set of pages, requests and writers.  The  *)
(* single flight is what everything rests on: whoever captures a page owns   *)
(* its registered flight (OwnsFlight, FlightOwned), so nobody else stores    *)
(* that page in the meantime (NotStoredYet) and what it read is at least as  *)
(* new as what was ever stored (ReadFresh).  Those who join it wait for a    *)
(* request that is still at work, or has failed (JoinersAreOwed).            *)
EXTENDS Freeze, TLAPS

OwnsFlight ==
  \A r \in Request : pc[r] \in Capturing => flight[path[r]] = r

FlightOwned ==
  \A k \in Key : flight[k] # None =>
    path[flight[k]] = k /\ pc[flight[k]] \in Capturing \cup {"failed"}

Placed == \A r \in Request : pc[r] # "idle" => path[r] \in Key

\* What each stage holds in `got`.
GotOK ==
  \A r \in Request :
    /\ pc[r] = "looked" => got[r] \in Canonical \cup {None}
    /\ pc[r] = "loaded" => got[r] \in Render /\ got[r].reader \in {None, r}
    /\ pc[r] \in {"storing", "stored"} => got[r] \in Canonical
    /\ pc[r] = "done" => got[r] \in Render /\ got[r].reader \in {None, r}
    /\ pc[r] = "joined" => joined[r] \in Request

StoreCanonical ==
  /\ \A k \in Key : store[k] \in Canonical \cup {None}
  /\ \A r \in Request : outcome[r] # None => outcome[r].stored \in Canonical \cup {None}

NotStoredYet ==
  \A r \in Request :
    pc[r] \in {"capture", "loaded", "storing"} => store[path[r]] = None

\* A reader that missed and has not resumed still finds the flight to join.
MissFindsFlight ==
  \A r \in Request :
    (pc[r] = "looked" /\ got[r] = None /\ store[path[r]] # None)
      => flight[path[r]] # None

ReadFresh ==
  /\ \A k \in Key : newest[k] <= data[k]
  /\ \A r \in Request :
       pc[r] \in {"loaded", "storing"} =>
         newest[path[r]] <= got[r].ver /\ got[r].ver <= data[path[r]]

IInv ==
  /\ TypeOK
  /\ OwnsFlight
  /\ FlightOwned
  /\ Placed
  /\ GotOK
  /\ StoreCanonical
  /\ NotStoredYet
  /\ MissFindsFlight
  /\ ReadFresh

-----------------------------------------------------------------------------
(* The initial states, and the invariant's steps: type correctness first,    *)
(* then the other conjuncts, action by action.                               *)
\* The initial states satisfy the invariant.
LEMMA InitIInv == Init => IInv
<1> SUFFICES ASSUME Init PROVE IInv
  OBVIOUS
<1>1. TypeOK
  BY NoneAssumption DEF Init, TypeOK, Stage, Outcome, Render
<1>2. OwnsFlight /\ FlightOwned /\ Placed /\ GotOK /\ NotStoredYet /\ MissFindsFlight
  BY DEF Init, OwnsFlight, FlightOwned, Placed, GotOK, NotStoredYet, MissFindsFlight, Capturing
<1>3. StoreCanonical /\ ReadFresh
  BY DEF Init, StoreCanonical, ReadFresh
<1> QED
  BY <1>1, <1>2, <1>3 DEF IInv

\* Every step keeps the types.
LEMMA TypeStep == IInv /\ [Next]_vars => TypeOK'
<1> SUFFICES ASSUME IInv, [Next]_vars PROVE TypeOK'
  OBVIOUS
<1> USE NoneAssumption DEF IInv, TypeOK, Render, Outcome, Stage, Capturing
<1>1. ASSUME NEW r \in Request, NEW k \in Key, freeze_get(r, k) PROVE TypeOK'
  BY <1>1 DEF freeze_get
<1>2. ASSUME NEW r \in Request, hit(r) PROVE TypeOK'
  BY <1>2 DEF hit
<1>3. ASSUME NEW r \in Request, join_flight(r) PROVE TypeOK'
  BY <1>3 DEF join_flight, Placed
<1>4. ASSUME NEW r \in Request, begin_flight(r) PROVE TypeOK'
  BY <1>4 DEF begin_flight, Placed
<1>5. ASSUME NEW r \in Request, render(r) PROVE TypeOK'
  BY <1>5 DEF render, RenderNow, Placed
<1>6. ASSUME NEW r \in Request, resolve_rejects(r) PROVE TypeOK'
  BY <1>6 DEF resolve_rejects
<1>7. ASSUME NEW r \in Request, eligible(r) PROVE TypeOK'
  BY <1>7 DEF eligible, Eligible
<1>8. ASSUME NEW r \in Request, refuse(r) PROVE TypeOK'
  BY <1>8 DEF refuse, Settled
<1>9. ASSUME NEW r \in Request, freeze_put(r) PROVE TypeOK'
  BY <1>9 DEF freeze_put, Placed, GotOK, Canonical
<1>10. ASSUME NEW r \in Request, settle(r) PROVE TypeOK'
  BY <1>10 DEF settle, Settled, RepliesInOrder, GotOK, Canonical
<1>11. ASSUME NEW r \in Request, join_hit(r) PROVE TypeOK'
  BY <1>11 DEF join_hit, GotOK
<1>12. ASSUME NEW r \in Request, join_refused(r) PROVE TypeOK'
  BY <1>12 DEF join_refused
<1>13. ASSUME NEW r \in Request, render_solo(r) PROVE TypeOK'
  BY <1>13 DEF render_solo, RenderNow, Placed
<1>14. ASSUME NEW w \in Writer, NEW k \in Key, change(w, k) PROVE TypeOK'
  BY <1>14 DEF change
<1>15. ASSUME NEW w \in Writer, evict(w) PROVE TypeOK'
  BY <1>15 DEF evict
<1>16. ASSUME NEW k \in Key, expire(k) PROVE TypeOK'
  BY <1>16 DEF expire
<1>17. CASE UNCHANGED vars
  BY <1>17 DEF vars
<1> QED
  BY <1>1, <1>2, <1>3, <1>4, <1>5, <1>6, <1>7, <1>8, <1>9, <1>10, <1>11, <1>12, <1>13, <1>14, <1>15, <1>16, <1>17 DEF Next, RequestStep

\* Every step keeps the invariant, one action at a time.
LEMMA IInvStep == IInv /\ [Next]_vars => IInv'
<1> SUFFICES ASSUME IInv, [Next]_vars PROVE IInv'
  OBVIOUS
<1> USE NoneAssumption DEF Capturing
<1>0. TypeOK /\ TypeOK'
  BY TypeStep DEF IInv
<1>1. ASSUME NEW r \in Request, NEW k \in Key, freeze_get(r, k) PROVE IInv'
  <2> USE <1>0, <1>1 DEF freeze_get, TypeOK
  <2>1. OwnsFlight'
    BY DEF IInv, OwnsFlight, FlightOwned, Placed
  <2>2. FlightOwned'
    BY DEF IInv, FlightOwned, OwnsFlight, Placed
  <2>3. Placed'
    BY DEF IInv, Placed
  <2>4. GotOK'
    BY DEF IInv, GotOK, StoreCanonical, Canonical, Render, Outcome
  <2>5. StoreCanonical'
    BY DEF IInv, StoreCanonical, GotOK, Canonical, Render, Outcome
  <2>6. NotStoredYet'
    BY DEF IInv, NotStoredYet, MissFindsFlight, OwnsFlight, Placed
  <2>7. MissFindsFlight'
    BY DEF IInv, MissFindsFlight, NotStoredYet, OwnsFlight, Placed
  <2>8. ReadFresh'
    BY DEF IInv, ReadFresh, OwnsFlight, GotOK, Canonical, Render, Placed
  <2> QED
    BY <2>1, <2>2, <2>3, <2>4, <2>5, <2>6, <2>7, <2>8 DEF IInv
<1>2. ASSUME NEW r \in Request, hit(r) PROVE IInv'
  <2> USE <1>0, <1>2 DEF hit, TypeOK
  <2>1. OwnsFlight'
    BY DEF IInv, OwnsFlight, FlightOwned, Placed
  <2>2. FlightOwned'
    BY DEF IInv, FlightOwned, OwnsFlight, Placed
  <2>3. Placed'
    BY DEF IInv, Placed
  <2>4. GotOK'
    BY DEF IInv, GotOK, StoreCanonical, Canonical, Render, Outcome
  <2>5. StoreCanonical'
    BY DEF IInv, StoreCanonical, GotOK, Canonical, Render, Outcome
  <2>6. NotStoredYet'
    BY DEF IInv, NotStoredYet, MissFindsFlight, OwnsFlight, Placed
  <2>7. MissFindsFlight'
    BY DEF IInv, MissFindsFlight, NotStoredYet, OwnsFlight, Placed
  <2>8. ReadFresh'
    BY DEF IInv, ReadFresh, OwnsFlight, GotOK, Canonical, Render, Placed
  <2> QED
    BY <2>1, <2>2, <2>3, <2>4, <2>5, <2>6, <2>7, <2>8 DEF IInv
<1>3. ASSUME NEW r \in Request, join_flight(r) PROVE IInv'
  <2> USE <1>0, <1>3 DEF join_flight, TypeOK
  <2>1. OwnsFlight'
    BY DEF IInv, OwnsFlight, FlightOwned, Placed
  <2>2. FlightOwned'
    BY DEF IInv, FlightOwned, OwnsFlight, Placed
  <2>3. Placed'
    BY DEF IInv, Placed
  <2>4. GotOK'
    BY DEF IInv, GotOK, StoreCanonical, Canonical, Render, Outcome
  <2>5. StoreCanonical'
    BY DEF IInv, StoreCanonical, GotOK, Canonical, Render, Outcome
  <2>6. NotStoredYet'
    BY DEF IInv, NotStoredYet, MissFindsFlight, OwnsFlight, Placed
  <2>7. MissFindsFlight'
    BY DEF IInv, MissFindsFlight, NotStoredYet, OwnsFlight, Placed
  <2>8. ReadFresh'
    BY DEF IInv, ReadFresh, OwnsFlight, GotOK, Canonical, Render, Placed
  <2> QED
    BY <2>1, <2>2, <2>3, <2>4, <2>5, <2>6, <2>7, <2>8 DEF IInv
<1>4. ASSUME NEW r \in Request, begin_flight(r) PROVE IInv'
  <2> USE <1>0, <1>4 DEF begin_flight, TypeOK
  <2>1. OwnsFlight'
    BY DEF IInv, OwnsFlight, FlightOwned, Placed
  <2>2. FlightOwned'
    BY DEF IInv, FlightOwned, OwnsFlight, Placed
  <2>3. Placed'
    BY DEF IInv, Placed
  <2>4. GotOK'
    BY DEF IInv, GotOK, StoreCanonical, Canonical, Render, Outcome
  <2>5. StoreCanonical'
    BY DEF IInv, StoreCanonical, GotOK, Canonical, Render, Outcome
  <2>6. NotStoredYet'
    BY DEF IInv, NotStoredYet, MissFindsFlight, OwnsFlight, Placed
  <2>7. MissFindsFlight'
    BY DEF IInv, MissFindsFlight, NotStoredYet, OwnsFlight, Placed
  <2>8. ReadFresh'
    BY DEF IInv, ReadFresh, OwnsFlight, GotOK, Canonical, Render, Placed
  <2> QED
    BY <2>1, <2>2, <2>3, <2>4, <2>5, <2>6, <2>7, <2>8 DEF IInv
<1>5. ASSUME NEW r \in Request, render(r) PROVE IInv'
  <2> USE <1>0, <1>5 DEF render, RenderNow, TypeOK
  <2>1. OwnsFlight'
    BY DEF IInv, OwnsFlight, FlightOwned, Placed
  <2>2. FlightOwned'
    BY DEF IInv, FlightOwned, OwnsFlight, Placed
  <2>3. Placed'
    BY DEF IInv, Placed
  <2>4. GotOK'
    <3>1. RenderNow(r) \in Render /\ RenderNow(r).reader \in {None, r}
      BY DEF IInv, Placed, Render
    <3>2. got' = [got EXCEPT ![r] = RenderNow(r)]
      OBVIOUS
    <3> HIDE DEF RenderNow
    <3> QED
      BY <3>1, <3>2 DEF IInv, GotOK
  <2>5. StoreCanonical'
    BY DEF IInv, StoreCanonical, GotOK, Canonical, Render, Outcome
  <2>6. NotStoredYet'
    BY DEF IInv, NotStoredYet, MissFindsFlight, OwnsFlight, Placed
  <2>7. MissFindsFlight'
    BY DEF IInv, MissFindsFlight, NotStoredYet, OwnsFlight, Placed
  <2>8. ReadFresh'
    BY DEF IInv, ReadFresh, OwnsFlight, GotOK, Canonical, Render, Placed
  <2> QED
    BY <2>1, <2>2, <2>3, <2>4, <2>5, <2>6, <2>7, <2>8 DEF IInv
<1>6. ASSUME NEW r \in Request, resolve_rejects(r) PROVE IInv'
  <2> USE <1>0, <1>6 DEF resolve_rejects, TypeOK
  <2>1. OwnsFlight'
    BY DEF IInv, OwnsFlight, FlightOwned, Placed
  <2>2. FlightOwned'
    BY DEF IInv, FlightOwned, OwnsFlight, Placed
  <2>3. Placed'
    BY DEF IInv, Placed
  <2>4. GotOK'
    BY DEF IInv, GotOK, StoreCanonical, Canonical, Render, Outcome
  <2>5. StoreCanonical'
    BY DEF IInv, StoreCanonical, GotOK, Canonical, Render, Outcome
  <2>6. NotStoredYet'
    BY DEF IInv, NotStoredYet, MissFindsFlight, OwnsFlight, Placed
  <2>7. MissFindsFlight'
    BY DEF IInv, MissFindsFlight, NotStoredYet, OwnsFlight, Placed
  <2>8. ReadFresh'
    BY DEF IInv, ReadFresh, OwnsFlight, GotOK, Canonical, Render, Placed
  <2> QED
    BY <2>1, <2>2, <2>3, <2>4, <2>5, <2>6, <2>7, <2>8 DEF IInv
<1>7. ASSUME NEW r \in Request, eligible(r) PROVE IInv'
  <2> USE <1>0, <1>7 DEF eligible, Eligible, TypeOK
  <2>1. OwnsFlight'
    BY DEF IInv, OwnsFlight, FlightOwned, Placed
  <2>2. FlightOwned'
    BY DEF IInv, FlightOwned, OwnsFlight, Placed
  <2>3. Placed'
    BY DEF IInv, Placed
  <2>4. GotOK'
    BY DEF IInv, GotOK, StoreCanonical, Canonical, Render, Outcome
  <2>5. StoreCanonical'
    BY DEF IInv, StoreCanonical, GotOK, Canonical, Render, Outcome
  <2>6. NotStoredYet'
    BY DEF IInv, NotStoredYet, MissFindsFlight, OwnsFlight, Placed
  <2>7. MissFindsFlight'
    BY DEF IInv, MissFindsFlight, NotStoredYet, OwnsFlight, Placed
  <2>8. ReadFresh'
    BY DEF IInv, ReadFresh, OwnsFlight, GotOK, Canonical, Render, Placed
  <2> QED
    BY <2>1, <2>2, <2>3, <2>4, <2>5, <2>6, <2>7, <2>8 DEF IInv
<1>8. ASSUME NEW r \in Request, refuse(r) PROVE IInv'
  <2> USE <1>0, <1>8 DEF refuse, Settled, TypeOK
  <2>1. OwnsFlight'
    BY DEF IInv, OwnsFlight, FlightOwned, Placed
  <2>2. FlightOwned'
    BY DEF IInv, FlightOwned, OwnsFlight, Placed
  <2>3. Placed'
    BY DEF IInv, Placed
  <2>4. GotOK'
    BY DEF IInv, GotOK, StoreCanonical, Canonical, Render, Outcome
  <2>5. StoreCanonical'
    BY DEF IInv, StoreCanonical, GotOK, Canonical, Render, Outcome
  <2>6. NotStoredYet'
    BY DEF IInv, NotStoredYet, MissFindsFlight, OwnsFlight, Placed
  <2>7. MissFindsFlight'
    BY DEF IInv, MissFindsFlight, NotStoredYet, OwnsFlight, Placed
  <2>8. ReadFresh'
    BY DEF IInv, ReadFresh, OwnsFlight, GotOK, Canonical, Render, Placed
  <2> QED
    BY <2>1, <2>2, <2>3, <2>4, <2>5, <2>6, <2>7, <2>8 DEF IInv
<1>9. ASSUME NEW r \in Request, freeze_put(r) PROVE IInv'
  <2> USE <1>0, <1>9 DEF freeze_put, TypeOK
  <2>1. OwnsFlight'
    BY DEF IInv, OwnsFlight, FlightOwned, Placed
  <2>2. FlightOwned'
    BY DEF IInv, FlightOwned, OwnsFlight, Placed
  <2>3. Placed'
    BY DEF IInv, Placed
  <2>4. GotOK'
    BY DEF IInv, GotOK, StoreCanonical, Canonical, Render, Outcome
  <2>5. StoreCanonical'
    BY DEF IInv, StoreCanonical, GotOK, Canonical, Render, Outcome
  <2>6. NotStoredYet'
    BY DEF IInv, NotStoredYet, MissFindsFlight, OwnsFlight, Placed
  <2>7. MissFindsFlight'
    BY DEF IInv, MissFindsFlight, NotStoredYet, OwnsFlight, Placed
  <2>8. ReadFresh'
    BY DEF IInv, ReadFresh, OwnsFlight, GotOK, Canonical, Render, Placed
  <2> QED
    BY <2>1, <2>2, <2>3, <2>4, <2>5, <2>6, <2>7, <2>8 DEF IInv
<1>10. ASSUME NEW r \in Request, settle(r) PROVE IInv'
  <2> USE <1>0, <1>10 DEF settle, Settled, RepliesInOrder, TypeOK
  <2>1. OwnsFlight'
    BY DEF IInv, OwnsFlight, FlightOwned, Placed
  <2>2. FlightOwned'
    BY DEF IInv, FlightOwned, OwnsFlight, Placed
  <2>3. Placed'
    BY DEF IInv, Placed
  <2>4. GotOK'
    BY DEF IInv, GotOK, StoreCanonical, Canonical, Render, Outcome
  <2>5. StoreCanonical'
    BY DEF IInv, StoreCanonical, GotOK, Canonical, Render, Outcome
  <2>6. NotStoredYet'
    BY DEF IInv, NotStoredYet, MissFindsFlight, OwnsFlight, Placed
  <2>7. MissFindsFlight'
    BY DEF IInv, MissFindsFlight, NotStoredYet, OwnsFlight, Placed
  <2>8. ReadFresh'
    BY DEF IInv, ReadFresh, OwnsFlight, GotOK, Canonical, Render, Placed
  <2> QED
    BY <2>1, <2>2, <2>3, <2>4, <2>5, <2>6, <2>7, <2>8 DEF IInv
<1>11. ASSUME NEW r \in Request, join_hit(r) PROVE IInv'
  <2> USE <1>0, <1>11 DEF join_hit, TypeOK
  <2>1. OwnsFlight'
    BY DEF IInv, OwnsFlight, FlightOwned, Placed
  <2>2. FlightOwned'
    BY DEF IInv, FlightOwned, OwnsFlight, Placed
  <2>3. Placed'
    BY DEF IInv, Placed
  <2>4. GotOK'
    BY DEF IInv, GotOK, StoreCanonical, Canonical, Render, Outcome
  <2>5. StoreCanonical'
    BY DEF IInv, StoreCanonical, GotOK, Canonical, Render, Outcome
  <2>6. NotStoredYet'
    BY DEF IInv, NotStoredYet, MissFindsFlight, OwnsFlight, Placed
  <2>7. MissFindsFlight'
    BY DEF IInv, MissFindsFlight, NotStoredYet, OwnsFlight, Placed
  <2>8. ReadFresh'
    BY DEF IInv, ReadFresh, OwnsFlight, GotOK, Canonical, Render, Placed
  <2> QED
    BY <2>1, <2>2, <2>3, <2>4, <2>5, <2>6, <2>7, <2>8 DEF IInv
<1>12. ASSUME NEW r \in Request, join_refused(r) PROVE IInv'
  <2> USE <1>0, <1>12 DEF join_refused, TypeOK
  <2>1. OwnsFlight'
    BY DEF IInv, OwnsFlight, FlightOwned, Placed
  <2>2. FlightOwned'
    BY DEF IInv, FlightOwned, OwnsFlight, Placed
  <2>3. Placed'
    BY DEF IInv, Placed
  <2>4. GotOK'
    BY DEF IInv, GotOK, StoreCanonical, Canonical, Render, Outcome
  <2>5. StoreCanonical'
    BY DEF IInv, StoreCanonical, GotOK, Canonical, Render, Outcome
  <2>6. NotStoredYet'
    BY DEF IInv, NotStoredYet, MissFindsFlight, OwnsFlight, Placed
  <2>7. MissFindsFlight'
    BY DEF IInv, MissFindsFlight, NotStoredYet, OwnsFlight, Placed
  <2>8. ReadFresh'
    BY DEF IInv, ReadFresh, OwnsFlight, GotOK, Canonical, Render, Placed
  <2> QED
    BY <2>1, <2>2, <2>3, <2>4, <2>5, <2>6, <2>7, <2>8 DEF IInv
<1>13. ASSUME NEW r \in Request, render_solo(r) PROVE IInv'
  <2> USE <1>0, <1>13 DEF render_solo, RenderNow, TypeOK
  <2>1. OwnsFlight'
    BY DEF IInv, OwnsFlight, FlightOwned, Placed
  <2>2. FlightOwned'
    BY DEF IInv, FlightOwned, OwnsFlight, Placed
  <2>3. Placed'
    BY DEF IInv, Placed
  <2>4. GotOK'
    <3>1. RenderNow(r) \in Render /\ RenderNow(r).reader \in {None, r}
      BY DEF IInv, Placed, Render
    <3>2. got' = [got EXCEPT ![r] = RenderNow(r)]
      OBVIOUS
    <3> HIDE DEF RenderNow
    <3> QED
      BY <3>1, <3>2 DEF IInv, GotOK
  <2>5. StoreCanonical'
    BY DEF IInv, StoreCanonical, GotOK, Canonical, Render, Outcome
  <2>6. NotStoredYet'
    BY DEF IInv, NotStoredYet, MissFindsFlight, OwnsFlight, Placed
  <2>7. MissFindsFlight'
    BY DEF IInv, MissFindsFlight, NotStoredYet, OwnsFlight, Placed
  <2>8. ReadFresh'
    BY DEF IInv, ReadFresh, OwnsFlight, GotOK, Canonical, Render, Placed
  <2> QED
    BY <2>1, <2>2, <2>3, <2>4, <2>5, <2>6, <2>7, <2>8 DEF IInv
<1>14. ASSUME NEW w \in Writer, NEW k \in Key, change(w, k) PROVE IInv'
  <2> USE <1>0, <1>14 DEF change, TypeOK
  <2>1. OwnsFlight'
    BY DEF IInv, OwnsFlight, FlightOwned, Placed
  <2>2. FlightOwned'
    BY DEF IInv, FlightOwned, OwnsFlight, Placed
  <2>3. Placed'
    BY DEF IInv, Placed
  <2>4. GotOK'
    BY DEF IInv, GotOK, StoreCanonical, Canonical, Render, Outcome
  <2>5. StoreCanonical'
    BY DEF IInv, StoreCanonical, GotOK, Canonical, Render, Outcome
  <2>6. NotStoredYet'
    BY DEF IInv, NotStoredYet, MissFindsFlight, OwnsFlight, Placed
  <2>7. MissFindsFlight'
    BY DEF IInv, MissFindsFlight, NotStoredYet, OwnsFlight, Placed
  <2>8. ReadFresh'
    BY DEF IInv, ReadFresh, OwnsFlight, GotOK, Canonical, Render, Placed
  <2> QED
    BY <2>1, <2>2, <2>3, <2>4, <2>5, <2>6, <2>7, <2>8 DEF IInv
<1>15. ASSUME NEW w \in Writer, evict(w) PROVE IInv'
  <2> USE <1>0, <1>15 DEF evict, TypeOK
  <2>1. OwnsFlight'
    BY DEF IInv, OwnsFlight, FlightOwned, Placed
  <2>2. FlightOwned'
    BY DEF IInv, FlightOwned, OwnsFlight, Placed
  <2>3. Placed'
    BY DEF IInv, Placed
  <2>4. GotOK'
    BY DEF IInv, GotOK, StoreCanonical, Canonical, Render, Outcome
  <2>5. StoreCanonical'
    BY DEF IInv, StoreCanonical, GotOK, Canonical, Render, Outcome
  <2>6. NotStoredYet'
    BY DEF IInv, NotStoredYet, MissFindsFlight, OwnsFlight, Placed
  <2>7. MissFindsFlight'
    BY DEF IInv, MissFindsFlight, NotStoredYet, OwnsFlight, Placed
  <2>8. ReadFresh'
    BY DEF IInv, ReadFresh, OwnsFlight, GotOK, Canonical, Render, Placed
  <2> QED
    BY <2>1, <2>2, <2>3, <2>4, <2>5, <2>6, <2>7, <2>8 DEF IInv
<1>16. ASSUME NEW k \in Key, expire(k) PROVE IInv'
  <2> USE <1>0, <1>16 DEF expire, TypeOK
  <2>1. OwnsFlight'
    BY DEF IInv, OwnsFlight, FlightOwned, Placed
  <2>2. FlightOwned'
    BY DEF IInv, FlightOwned, OwnsFlight, Placed
  <2>3. Placed'
    BY DEF IInv, Placed
  <2>4. GotOK'
    BY DEF IInv, GotOK, StoreCanonical, Canonical, Render, Outcome
  <2>5. StoreCanonical'
    BY DEF IInv, StoreCanonical, GotOK, Canonical, Render, Outcome
  <2>6. NotStoredYet'
    BY DEF IInv, NotStoredYet, MissFindsFlight, OwnsFlight, Placed
  <2>7. MissFindsFlight'
    BY DEF IInv, MissFindsFlight, NotStoredYet, OwnsFlight, Placed
  <2>8. ReadFresh'
    BY DEF IInv, ReadFresh, OwnsFlight, GotOK, Canonical, Render, Placed
  <2> QED
    BY <2>1, <2>2, <2>3, <2>4, <2>5, <2>6, <2>7, <2>8 DEF IInv
<1>17. CASE UNCHANGED vars
  BY <1>0, <1>17 DEF vars, IInv, TypeOK, OwnsFlight, FlightOwned, Placed, GotOK, StoreCanonical, NotStoredYet, MissFindsFlight, ReadFresh
<1> QED
  BY <1>1, <1>2, <1>3, <1>4, <1>5, <1>6, <1>7, <1>8, <1>9, <1>10, <1>11, <1>12, <1>13, <1>14, <1>15, <1>16, <1>17 DEF Next, RequestStep

\* Every reachable state satisfies the inductive invariant.
THEOREM InvariantHolds == Spec => []IInv
<1>1. Init => IInv
  BY InitIInv
<1>2. IInv /\ [Next]_vars => IInv'
  BY IInvStep
<1> QED
  BY <1>1, <1>2, PTL DEF Spec

\* Every variable keeps its type, whatever the pages, requests and writers.
THEOREM TypeCorrect == Spec => []TypeOK
<1>1. IInv => TypeOK
  BY DEF IInv
<1> QED
  BY <1>1, InvariantHolds, PTL

\* No answer was rendered for another visitor's session: the verdict of
\* capture_freeze keeps personal renders out of the store and out of flights.
THEOREM PersonalStaysPersonal == Spec => []NoPersonalLeak
<1>1. IInv => NoPersonalLeak
  BY DEF IInv, GotOK, NoPersonalLeak
<1> QED
  BY <1>1, InvariantHolds, PTL

\* The only step that stores a render finds its page's entry gone.
LEMMA StoreSteps ==
  ASSUME IInv, [Next]_vars, NEW k \in Key, store'[k] # store[k], store'[k] # None
  PROVE  /\ store[k] = None
         /\ \E r \in Request : path[r] = k /\ freeze_put(r)
<1> USE DEF IInv, TypeOK
<1>1. PICK r \in Request : freeze_put(r)
  BY DEF Next, RequestStep, vars, freeze_get, hit, join_flight, begin_flight, render,
         resolve_rejects, eligible, refuse, Settled, settle, join_hit, join_refused,
         render_solo, change, evict, expire
<1>2. path[r] = k
  BY <1>1 DEF freeze_put
<1>3. store[k] = None
  BY <1>1, <1>2 DEF freeze_put, NotStoredYet
<1> QED
  BY <1>1, <1>2, <1>3

\* The stampede law: no put lands on a live entry, for any number of requests.
THEOREM RenderedOncePerThaw == Spec => NeverOverwrites
<1>1. IInv /\ [Next]_vars =>
        [\A k \in Key : store[k] # None => store'[k] \in {store[k], None}]_vars
  BY StoreSteps
<1> QED
  BY <1>1, InvariantHolds, PTL DEF Spec, NeverOverwrites

\* A render that read older content is never stored after a newer one.
THEOREM StoreMovesForward == Spec => NeverGoesBack
<1>1. ASSUME IInv, [Next]_vars, NEW k \in Key, store'[k] \notin {store[k], None}
      PROVE  store'[k].ver >= newest[k]
  <2>1. PICK r \in Request : path[r] = k /\ freeze_put(r)
    BY <1>1, StoreSteps
  <2>2. store'[k] = got[r] /\ newest[k] <= got[r].ver
    BY <1>1, <2>1 DEF freeze_put, IInv, TypeOK, ReadFresh
  <2>3. got[r].ver \in Nat /\ newest[k] \in Nat
    BY <1>1, <2>1 DEF freeze_put, IInv, TypeOK, GotOK, Canonical, Render
  <2> QED
    BY <2>2, <2>3
<1>2. IInv /\ [Next]_vars =>
        [\A k \in Key : store'[k] \notin {store[k], None} => store'[k].ver >= newest[k]]_vars
  BY <1>1
<1> QED
  BY <1>2, InvariantHolds, PTL DEF Spec, NeverGoesBack

\* Who joined waits for a flight of its own page, whose request is still at work, or
\* has settled it, or failed.
JoinersAreOwed ==
  \A r \in Request : pc[r] = "joined" =>
    /\ path[joined[r]] = path[r]
    /\ pc[joined[r]] \in Capturing \cup {"failed"} \/ outcome[joined[r]] # None

\* Who has settled a flight is done: it never asks for another page.
SettledIsDone == \A r \in Request : outcome[r] # None => pc[r] = "done"

Owed == JoinersAreOwed /\ SettledIsDone

LEMMA OwedStep ==
  ASSUME IInv, Owed, [Next]_vars
  PROVE  Owed'
<1> USE DEF Owed, JoinersAreOwed, SettledIsDone, Capturing
<1>0. TypeOK /\ TypeOK' /\ \A r \in Request : pc[r] = "joined" => joined[r] \in Request
  BY TypeStep DEF IInv, GotOK
<1>1. ASSUME NEW r \in Request, NEW k \in Key, freeze_get(r, k) PROVE Owed'
  BY <1>0, <1>1 DEF freeze_get, TypeOK
<1>2. ASSUME NEW r \in Request, join_flight(r) PROVE Owed'
  <2>1. path[r] \in Key /\ flight[path[r]] # None /\ pc[r] = "looked"
    BY <1>2 DEF join_flight, IInv, Placed
  <2>2. /\ flight[path[r]] \in Request /\ path[flight[path[r]]] = path[r]
        /\ pc[flight[path[r]]] \in Capturing \cup {"failed"}
    BY <1>0, <2>1 DEF TypeOK, IInv, FlightOwned
  <2>3. joined' = [joined EXCEPT ![r] = flight[path[r]]] /\ pc' = [pc EXCEPT ![r] = "joined"]
        /\ UNCHANGED <<path, outcome>>
    BY <1>2 DEF join_flight
  <2> QED
    BY <1>0, <2>1, <2>2, <2>3 DEF TypeOK
<1>3. ASSUME NEW r \in Request, pc[r] \notin {"idle", "done", "failed"},
             UNCHANGED <<path, joined, outcome>>, NEW s \in {"failed"} \cup Capturing,
             pc' = [pc EXCEPT ![r] = s]
      PROVE  Owed'
  BY <1>0, <1>3 DEF TypeOK
<1>4. ASSUME NEW r \in Request, pc[r] \in {"looked", "joined", "solo"},
             UNCHANGED <<path, joined, outcome>>, NEW s \in {"done", "solo"},
             pc' = [pc EXCEPT ![r] = s]
      PROVE  Owed'
  BY <1>0, <1>4 DEF TypeOK
<1>5. ASSUME NEW r \in Request, NEW stored \in Render \cup {None}, Settled(r, stored),
             pc' = [pc EXCEPT ![r] = "done"], UNCHANGED <<path, joined>>
      PROVE  Owed'
  <2>1. outcome' = [outcome EXCEPT ![r] = [stored |-> stored]]
    BY <1>5 DEF Settled
  <2>2. [stored |-> stored] # None
    BY <1>5, NoneAssumption DEF Render
  <2> QED
    BY <1>0, <1>5, <2>1, <2>2 DEF TypeOK
<1>6. ASSUME NEW r \in Request, RequestStep(r) PROVE Owed'
  <2>1. CASE hit(r) \/ join_hit(r) \/ join_refused(r) \/ render_solo(r)
    BY <1>4, <2>1 DEF hit, join_hit, join_refused, render_solo
  <2>2. CASE begin_flight(r) \/ render(r) \/ eligible(r) \/ freeze_put(r)
    <3>1. pc[r] \in {"looked", "capture", "loaded", "storing"}
      BY <2>2 DEF begin_flight, render, eligible, freeze_put
    <3>2. \E s \in Capturing : pc' = [pc EXCEPT ![r] = s] /\ UNCHANGED <<path, joined, outcome>>
      BY <2>2 DEF begin_flight, render, eligible, freeze_put
    <3> QED
      BY <1>3, <3>1, <3>2
  <2>3. CASE refuse(r)
    BY <1>5, <2>3 DEF refuse
  <2>4. CASE settle(r)
    <3>1. got[r] \in Render
      BY <2>4 DEF settle, IInv, GotOK, Canonical
    <3> QED
      BY <1>5, <2>4, <3>1 DEF settle
  <2> QED
    BY <1>2, <1>6, <2>1, <2>2, <2>3, <2>4 DEF RequestStep
<1>7. ASSUME NEW r \in Request, resolve_rejects(r) PROVE Owed'
  BY <1>3, <1>7 DEF resolve_rejects
<1>8. ASSUME UNCHANGED <<pc, path, joined, outcome>> PROVE Owed'
  BY <1>8
<1> QED
  BY <1>1, <1>6, <1>7, <1>8 DEF Next, change, evict, expire, vars

\* Nobody waits on a flight that was forgotten: for any number of requests, a joiner's
\* flight is of its page, and it is being rendered, settled, or its request failed
\* (`join_flight`, `begin_flight`, and every end of a capture but resolve()'s).
THEOREM JoinersWaitForSomebody == Spec => []JoinersAreOwed
<1>1. Init => Owed
  BY DEF Init, Owed, JoinersAreOwed, SettledIsDone
<1>2. IInv /\ Owed /\ [Next]_vars => Owed'
  BY OwedStep
<1>3. Owed => JoinersAreOwed
  BY DEF Owed
<1> QED
  BY <1>1, <1>2, <1>3, InvariantHolds, PTL DEF Spec
=============================================================================
