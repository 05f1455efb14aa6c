------------------------------ MODULE Capability ------------------------------
(* How long a hole's signed address lives (server/endpoint.ts,               *)
(* server/shared-cache.ts), in the units of the code's seconds.  A cache      *)
(* header is its directives: the seconds each names, NotSaid if it is absent. *)
EXTENDS Integers

CONSTANTS
  RegionTtl,     \* regions.ttl
  StoredTtl,     \* PRERENDER_REGION_TTL_SEC
  RenewWindow    \* regions.maxPageAge

ASSUME TtlAssumption ==
  /\ RegionTtl \in Nat \ {0} /\ StoredTtl \in Nat \ {0} /\ RenewWindow \in Nat

NotSaid == -1
Larger(a, b) == IF a >= b THEN a ELSE b
Smaller(a, b) == IF a <= b THEN a ELSE b

(* capability_expiry: the end of the window after the one `now` is in, with   *)
(* windows of half the lifetime.                                              *)
Window(ttl) == Larger(1, ttl \div 2)

\* Mutant of Expiry: the end of the window it is minted in.
ExpiryOfThisWindow(now, ttl) == (now \div Window(ttl) + 1) * Window(ttl)
Expiry(now, ttl) == (now \div Window(ttl) + 2) * Window(ttl)

(* shared_cache_lifetime of a document's cache-control.                       *)
SharedLifetime(header) ==
  IF header.closed THEN 0
  ELSE header.revalidate + IF header.shared # NotSaid THEN header.shared
                           ELSE Larger(header.fresh, 0)

(* mint_ttl_sec.                                                              *)
MintTtl(stored, session, shared) ==
  IF stored THEN StoredTtl
  ELSE IF session \/ shared <= 0 THEN RegionTtl
  ELSE Smaller(StoredTtl, Larger(RegionTtl, 2 * shared))

Expired(exp, now) == exp < now

(* renewable_expiry: it has passed, by the window at most.                    *)
Renewable(exp, now) == RenewWindow > 0 /\ exp < now /\ now - exp <= RenewWindow
=============================================================================
