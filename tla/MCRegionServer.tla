---------------------------- MODULE MCRegionServer ----------------------------
(* RegionServer on a small instance: one memoised call that reads its page,    *)
(* asked by a visitor with a session and one without.                          *)
EXTENDS RegionServer

CONSTANTS r1, c1, a, p1, p2
MCTtl == [c \in Call |-> 2]
MCVisits == {[call |-> c1, visitor |-> Anonymous, page |-> p1],
             [call |-> c1, visitor |-> a, page |-> p1],
             [call |-> c1, visitor |-> a, page |-> p2]}

(* A request that queued gets a slot; the requests are alike, so one stands   *)
(* for all (concurrency.ts: "waiters queue FIFO").                            *)
WaiterEnters == Enters(r1)
=============================================================================
