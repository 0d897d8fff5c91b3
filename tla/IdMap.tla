-------------------------------- MODULE IdMap --------------------------------
(***************************************************************************)
(* The message-id cache (internal/idmap): which relayed message, a bubble, *)
(* a message id belongs to, and under which id each member knows the       *)
(* bubble.  The cache is a value and every operation maps a cache to the   *)
(* next one, for each runs under Cache.mu.                                 *)
(*                                                                         *)
(* A cache has the fields                                                  *)
(*   views[b]    what Bubble b has recorded: member |-> message id; it     *)
(*               outlives the bubble's eviction, for a queued message or a *)
(*               handler may still hold the bubble                         *)
(*   expires[b]  Bubble.expiresAt                                          *)
(*   index       Cache.byMsgID: message id |-> bubble                      *)
(*   lru         Cache.lru, newest first; a bubble is in it iff its lru    *)
(*               element is not nil                                        *)
(***************************************************************************)
EXTENDS Integers, Sequences, FiniteSets, SequencesExt

CONSTANTS
  TTL,      \* service.id_cache_ttl; 0, which turns the cache off, is not modelled
  MaxKeys,  \* service.id_cache_max, 0 for no cap
  Bubbles   \* the bubbles that can be created

ASSUME CacheAssumption == TTL \in Nat \ {0} /\ MaxKeys \in Nat

\* The function with no arguments: an empty map.
Nothing == [x \in {} |-> x]

EmptyCache ==
  [views   |-> [b \in Bubbles |-> Nothing],
   expires |-> [b \in Bubbles |-> 0],
   index   |-> Nothing,
   lru     |-> <<>>]

NewBubble(c, b, now) == [c EXCEPT !.expires[b] = now + TTL]

\* The elements of s that are in keep, in their order.  A recursive function and not
\* SelectSeq, so that what it returns can be proved.
Only(s, keep) ==
  LET F[i \in 0 .. Len(s)] ==
        IF i = 0 THEN <<>>
        ELSE IF s[i] \in keep THEN Append(F[i - 1], s[i]) ELSE F[i - 1]
  IN  F[Len(s)]

HasView(c, b, u) == u \in DOMAIN c.views[b]

\* Mutant of Removed: the keys of the first view only.
RemovedHalf(c, bs) ==
  LET keys == UNION {LET v == c.views[b] IN {v[CHOOSE u \in DOMAIN v : TRUE]} : b \in bs}
  IN  [c EXCEPT !.index = Restrict(@, DOMAIN @ \ keys),
                !.lru = Only(@, Bubbles \ bs)]

\* removeBubbleLocked for each bubble of bs.
Removed(c, bs) ==
  LET keys == UNION {Range(c.views[b]) : b \in bs}
  IN  [c EXCEPT !.index = Restrict(@, DOMAIN @ \ keys),
                !.lru = Only(@, Bubbles \ bs)]

\* The k bubbles used least recently.
Oldest(c, k) == {c.lru[i] : i \in (Len(c.lru) - k + 1) .. Len(c.lru)}

Expired(c, b, now) == now > c.expires[b]

\* Oldest first, up to the first bubble that is not expired.
EvictExpired(c, now) ==
  LET AllExpired(k) == \A b \in Oldest(c, k) : Expired(c, b, now)
      k == CHOOSE n \in 0 .. Len(c.lru) :
             AllExpired(n) /\ (n < Len(c.lru) => ~ AllExpired(n + 1))
  IN  Removed(c, Oldest(c, k))

\* Oldest first, until the keys fit or no bubble is left.
EnforceCap(c) ==
  LET Fits(k) == Cardinality(DOMAIN Removed(c, Oldest(c, k)).index) <= MaxKeys
      k == CHOOSE n \in 0 .. Len(c.lru) :
             /\ Fits(n) \/ n = Len(c.lru)
             /\ \A j \in 0 .. (n - 1) : ~ Fits(j)
  IN  IF MaxKeys = 0 THEN c ELSE Removed(c, Oldest(c, k))

MoveToFront(c, b) == [c EXCEPT !.lru = <<b>> \o Only(@, Bubbles \ {b})]

\* Set f[x] = y in a map.
With(f, x, y) == [z \in DOMAIN f \cup {x} |-> IF z = x THEN y ELSE f[z]]

RegisterView(c, b, u, id, now) ==
  LET e == EvictExpired(c, now)
      v == [e EXCEPT !.views[b] = With(@, u, id), !.index = With(@, id, b)]
  IN  EnforceCap(MoveToFront(v, b))

\* Whether Lookup finds id.
Hit(c, id, now) == id \in DOMAIN c.index /\ ~ Expired(c, c.index[id], now)

\* The cache after Lookup.
LookedUp(c, id, now) ==
  IF id \notin DOMAIN c.index THEN c
  ELSE LET b == c.index[id]
       IN  IF Expired(c, b, now) THEN Removed(c, {b})
           ELSE IF Contains(c.lru, b) THEN MoveToFront(c, b)
           ELSE c
==============================================================================
