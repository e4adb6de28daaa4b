------------------------- MODULE UpstreamCacheProofs -------------------------
(***************************************************************************)
(* Proofs about UpstreamCache, for any number of calls, keys and tokens,   *)
(* any capacity, ceiling and headroom, with and without store faults: what *)
(* the cache hands out is useful and accounted for, and the LRU forgets    *)
(* nothing that was used recently.                                         *)
(*                                                                         *)
(* Why: an entry's expiry was computed from a clock read before its token  *)
(* came, so it is early enough; it is written in the step that makes its   *)
(* event due; and the entries stand in the order of their last uses.       *)
(***************************************************************************)
EXTENDS UpstreamCache, FiniteSetTheorems, SequenceTheorems, TLAPS

CallRecord ==
    [pc: Pc, key: Keys \cup {None}, now: 0..MaxTime, found: SUBSET Credential,
     token: Tokens \cup {None}]

\* The event of token t was sent or given up, or the call that will send it runs.
Due(t) ==
    \/ event[t] # "none"
    \/ \E c \in Calls : call[c].pc = "audit" /\ call[c].token = t

\* What e promises, its token keeps.
Sound(e) ==
    LET m == minted[e.token] IN
    /\ m.key = e.key
    /\ e.until + Headroom <= m.dies /\ e.until + Headroom <= m.born + Ceiling

Good(e) == Sound(e) /\ Due(e.token)

\* The token a call holds was minted for its key, after it read the clock.
Holding(q) ==
    q.pc \in {"validate", "write", "audit"} =>
        /\ q.token \in Tokens /\ minted[q.token].key = q.key
        /\ q.now <= minted[q.token].born

CallInv(q) ==
    /\ q.pc # "idle" => q.key \in Keys
    /\ q.now <= clock
    /\ Holding(q)
    /\ q.pc = "write" => storeHasCache /\ CacheExpiry(q.now, minted[q.token].dies) > q.now
    /\ \A e \in q.found : Good(e) /\ e.key = q.key

CallsInv == \A c \in Calls : CallInv(call[c])

\* The keys of s are different, and every key was used after the ones before it.
Distinct(s) == \A i, j \in 1..Len(s) : s[i].key = s[j].key => i = j
Ordered(s, u) == \A i, j \in 1..Len(s) : i < j => s[j].key \in u[s[i].key]

TypeInv ==
    /\ storeHasCache \in BOOLEAN /\ clock \in 0..MaxTime
    /\ call \in [Calls -> CallRecord]
    /\ minted \in [Tokens -> [key: Keys \cup {None}, born: Nat, dies: Nat]]
    /\ event \in [Tokens -> {"none", "accepted", "unheard"}]
    /\ answer = None \/ answer \in Answer

CacheInv ==
    /\ cache \in Seq(Credential) /\ Distinct(cache)
    /\ \A i \in 1..Len(cache) : Good(cache[i])

\* Sets of keys, per key in use.
Uses(u) ==
    /\ DOMAIN u \subseteq Keys
    /\ \A k \in DOMAIN u : u[k] \subseteq Keys \ {k} /\ IsFiniteSet(u[k])

\* What is in s is in use; what is in use and not in s was passed by Capacity
\* others.
InUse(s, u) == \A i \in 1..Len(s) : s[i].key \in DOMAIN u
Passed(s, u) ==
    \A k \in DOMAIN u : (\A i \in 1..Len(s) : s[i].key # k) => Cardinality(u[k]) >= Capacity

Lru(s, u) == InUse(s, u) /\ Ordered(s, u) /\ Passed(s, u)

LruInv ==
    /\ Uses(since)
    /\ ~storeHasCache => Len(cache) <= Capacity /\ Lru(cache, since)

UpInv ==
    /\ TypeInv /\ CacheInv /\ LruInv /\ CallsInv
    /\ HitUseful /\ ExchangeReported
-----------------------------------------------------------------------------
(* The cache as a sequence                                                 *)

\* T is what is left without the entry of k, in the same order.
InOrder(T) ==
    \A a, b \in 1..Len(T) :
        \E i, j \in 1..Len(cache) : /\ T[a] = cache[i] /\ T[b] = cache[j]
                                    /\ a < b => i < j
                                    /\ a # b => i # j

RestOf(T, k) ==
    /\ T \in Seq(Credential) /\ Len(T) \in Nat
    /\ Len(T) <= Len(cache) /\ (k \in CachedKeys => Len(T) = Len(cache) - 1)
    /\ \A a \in 1..Len(T) : T[a].key # k /\ \E i \in 1..Len(cache) : T[a] = cache[i]
    /\ InOrder(T)
    /\ \A i \in 1..Len(cache) : cache[i].key # k => \E a \in 1..Len(T) : T[a] = cache[i]

LEMMA Rest ==
    ASSUME CacheInv, NEW k
    PROVE  RestOf(Without(k), k)
<1> PICK T : T = Without(k)
  OBVIOUS
<1>1. cache \in Seq(Credential) /\ Len(cache) \in Nat /\ DOMAIN cache = 1..Len(cache)
  BY LenProperties DEF CacheInv
<1>2. CASE k \notin CachedKeys
  <2>1. T = cache
    BY <1>2 DEF Without
  <2>2. \A i \in 1..Len(cache) : cache[i].key # k
    BY <1>1, <1>2 DEF CachedKeys
  <2>3. InOrder(cache)
    BY DEF InOrder
  <2>4. \A a \in 1..Len(cache) : \E i \in 1..Len(cache) : cache[a] = cache[i]
    OBVIOUS
  <2>5. T \in Seq(Credential) /\ Len(T) \in Nat /\ Len(T) <= Len(cache)
    BY <1>1, <2>1
  <2>6. \A a \in 1..Len(T) : T[a].key # k /\ \E i \in 1..Len(cache) : T[a] = cache[i]
    BY <2>1, <2>2, <2>4
  <2>7. \A i \in 1..Len(cache) : cache[i].key # k => \E a \in 1..Len(T) : T[a] = cache[i]
    BY <2>1
  <2> QED  BY <1>2, <2>1, <2>3, <2>5, <2>6, <2>7, Zenon DEF RestOf
<1>3. CASE k \in CachedKeys
  <2> DEFINE p == CHOOSE i \in DOMAIN cache : cache[i].key = k
             n == Len(cache) - 1
             At(a) == IF a < p THEN a ELSE a + 1
  <2>1. p \in 1..Len(cache) /\ cache[p].key = k
    BY <1>1, <1>3 DEF CachedKeys
  <2>2. T = [a \in 1..n |-> cache[At(a)]]
    <3>1. T = Removed(p)
      BY <1>3 DEF Without
    <3>2. \A a \in 1..n : (IF a < p THEN cache[a] ELSE cache[a + 1]) = cache[At(a)]
      OBVIOUS
    <3> HIDE DEF p, At
    <3> QED  BY <3>1, <3>2 DEF Removed
  <2> HIDE DEF p
  <2>3. n \in Nat /\ \A a \in 1..n : At(a) \in 1..Len(cache) /\ At(a) # p
    BY <1>1, <2>1
  <2>4. \A a, b \in 1..n : (a < b => At(a) < At(b)) /\ (a # b => At(a) # At(b))
    BY <1>1, <2>1
  <2>5. \A i \in 1..Len(cache) : i # p => \E a \in 1..n : At(a) = i
    <3>1. ASSUME NEW i \in 1..Len(cache), i # p  PROVE \E a \in 1..n : At(a) = i
      <4>1. CASE i < p
        BY <1>1, <2>1, <4>1
      <4>2. CASE i > p
        <5>1. i - 1 \in 1..n /\ At(i - 1) = i
          BY <1>1, <2>1, <4>2
        <5> QED  BY <5>1
      <4> QED  BY <1>1, <2>1, <3>1, <4>1, <4>2
    <3> QED  BY <3>1
  <2>6. \A i \in 1..Len(cache) : cache[i] \in Credential
    BY <1>1, ElementOfSeq
  <2> HIDE DEF At, n
  <2>7. \A a \in 1..n : T[a] = cache[At(a)]
    BY <2>2
  <2>8. T \in Seq(Credential) /\ Len(T) = n
    <3>1. T \in [1..n -> Credential]
      BY <2>2, <2>3, <2>6
    <3> QED  BY <2>3, <3>1
  <2>9. \A i \in 1..Len(cache) : i # p => cache[i].key # k
    BY <2>1 DEF CacheInv, Distinct
  <2>10. n = Len(cache) - 1
    BY DEF n
  <2>11. \A a \in 1..n : T[a].key # k /\ \E i \in 1..Len(cache) : T[a] = cache[i]
    BY <2>3, <2>7, <2>9
  <2>12. InOrder(T)
    <3>1. ASSUME NEW a \in 1..n, NEW b \in 1..n
          PROVE  \E i, j \in 1..Len(cache) : /\ T[a] = cache[i] /\ T[b] = cache[j]
                                             /\ a < b => i < j
                                             /\ a # b => i # j
      <4>1. At(a) \in 1..Len(cache) /\ At(b) \in 1..Len(cache)
        BY <2>3
      <4> QED  BY <2>4, <2>7, <4>1
    <3> QED  BY <2>8, <3>1 DEF InOrder
  <2>13. \A i \in 1..Len(cache) : cache[i].key # k => \E a \in 1..n : T[a] = cache[i]
    BY <2>1, <2>5, <2>7
  <2> QED  BY <1>1, <2>8, <2>10, <2>11, <2>12, <2>13 DEF RestOf
<1> QED  BY <1>2, <1>3

\* The entry of a key is found where it stands.
LEMMA Finds ==
    ASSUME CacheInv, NEW k, NEW e \in Found(k)
    PROVE  /\ e \in Credential /\ e.key = k /\ Good(e) /\ k \in CachedKeys
           /\ \E i \in 1..Len(cache) : cache[i] = e
<1>1. cache \in Seq(Credential) /\ DOMAIN cache = 1..Len(cache)
  BY LenProperties DEF CacheInv
<1>2. PICK i \in 1..Len(cache) : cache[i] = e /\ cache[i].key = k
  BY <1>1 DEF Found
<1> QED  BY <1>1, <1>2, ElementOfSeq DEF CacheInv, CachedKeys

\* More than n keys of s, the first one's aside, do not fit in fewer places.
LEMMA CountKeys ==
    ASSUME NEW s \in Seq(Credential), Distinct(s), NEW U, IsFiniteSet(U),
           \A j \in 2..Len(s) : s[j].key \in U
    PROVE  Len(s) > 1 => Cardinality(U) >= Len(s) - 1
<1> SUFFICES ASSUME Len(s) > 1, ~(Cardinality(U) >= Len(s) - 1)  PROVE FALSE
  OBVIOUS
<1>1. Len(s) \in Nat /\ Cardinality(U) \in Nat
  BY LenProperties, FS_CardinalityType
<1> DEFINE I == 2..Len(s)
           f == [j \in I |-> s[j].key]
<1>2. IsFiniteSet(I) /\ Cardinality(I) = Len(s) - 1
  BY <1>1, FS_Interval
<1>3. f \in [I -> U]
  OBVIOUS
<1>4. \A x, y \in I : x # y => f[x] # f[y]
  BY <1>1 DEF Distinct
<1>5. Cardinality(U) < Cardinality(I)
  BY <1>1, <1>2
<1> HIDE DEF I, f
<1> QED  BY <1>2, <1>3, <1>4, <1>5, FS_PigeonHole

\* S is the cache with e at its end, as the entry of its key.
Follows(S) ==
    \A a, b \in 1..Len(S) - 1 :
        \E i, j \in 1..Len(cache) : S[a] = cache[i] /\ S[b] = cache[j] /\ (a < b => i < j)

EndsWith(S, e) ==
    /\ S \in Seq(Credential) /\ Len(S) \in Nat \ {0} /\ Distinct(S)
    /\ Len(S) <= Len(cache) + 1 /\ (e.key \in CachedKeys => Len(S) = Len(cache))
    /\ S[Len(S)] = e
    /\ \A a \in 1..Len(S) : S[a] = e \/ \E i \in 1..Len(cache) : S[a] = cache[i]
    /\ \A i \in 1..Len(cache) : \E a \in 1..Len(S) : S[a].key = cache[i].key
    /\ Follows(S)

LEMMA AtEnd ==
    ASSUME CacheInv, NEW e \in Credential
    PROVE  EndsWith(Append(Without(e.key), e), e)
<1> PICK T : T = Without(e.key)
  OBVIOUS
<1> PICK S : S = Append(T, e)
  OBVIOUS
<1>0. RestOf(T, e.key)
  BY Rest
<1>1. /\ T \in Seq(Credential) /\ Len(T) \in Nat
      /\ Len(T) <= Len(cache) /\ (e.key \in CachedKeys => Len(T) = Len(cache) - 1)
      /\ \A a \in 1..Len(T) : T[a].key # e.key /\ \E i \in 1..Len(cache) : T[a] = cache[i]
  BY <1>0 DEF RestOf
<1>2. InOrder(T)
  BY <1>0 DEF RestOf
<1>3. \A i \in 1..Len(cache) : cache[i].key # e.key => \E a \in 1..Len(T) : T[a] = cache[i]
  BY <1>0, Zenon DEF RestOf
<1>4. /\ S \in Seq(Credential) /\ Len(S) = Len(T) + 1 /\ S[Len(S)] = e
      /\ \A a \in 1..Len(T) : S[a] = T[a]
  BY <1>1, AppendProperties
<1>5. 1..Len(S) = 1..Len(T) \cup {Len(S)} /\ Len(S) - 1 = Len(T) /\ Len(S) \notin 1..Len(T)
  BY <1>1, <1>4
<1>6. Len(cache) \in Nat
  BY LenProperties DEF CacheInv
<1>7. Distinct(S)
  <2>1. \A a, b \in 1..Len(T) : S[a].key = S[b].key => a = b
    <3>1. ASSUME NEW a \in 1..Len(T), NEW b \in 1..Len(T), a # b  PROVE S[a].key # S[b].key
      <4>1. PICK i, j \in 1..Len(cache) : T[a] = cache[i] /\ T[b] = cache[j] /\ i # j
        BY <1>2, <3>1 DEF InOrder
      <4> QED  BY <1>4, <4>1 DEF CacheInv, Distinct
    <3> QED  BY <3>1
  <2>2. \A a \in 1..Len(T) : S[a].key # S[Len(S)].key
    BY <1>1, <1>4
  <2> QED  BY <1>5, <2>1, <2>2 DEF Distinct
<1>8. \A a \in 1..Len(S) : S[a] = e \/ \E i \in 1..Len(cache) : S[a] = cache[i]
  BY <1>1, <1>4, <1>5
<1>9. \A i \in 1..Len(cache) : \E a \in 1..Len(S) : S[a].key = cache[i].key
  <2>1. ASSUME NEW i \in 1..Len(cache)  PROVE \E a \in 1..Len(S) : S[a].key = cache[i].key
    <3>1. CASE cache[i].key = e.key
      BY <1>4, <1>5, <3>1
    <3>2. CASE cache[i].key # e.key
      BY <1>3, <1>4, <1>5, <3>2
    <3> QED  BY <3>1, <3>2
  <2> QED  BY <2>1
<1>10. Follows(S)
  <2>1. ASSUME NEW a \in 1..Len(T), NEW b \in 1..Len(T)
        PROVE  \E i, j \in 1..Len(cache) : S[a] = cache[i] /\ S[b] = cache[j] /\ (a < b => i < j)
    <3>1. PICK i, j \in 1..Len(cache) : T[a] = cache[i] /\ T[b] = cache[j] /\ (a < b => i < j)
      BY <1>2 DEF InOrder
    <3>2. S[a] = cache[i] /\ S[b] = cache[j]
      BY <1>4, <3>1
    <3> QED  BY <3>1, <3>2
  <2> QED  BY <1>5, <2>1 DEF Follows
<1>11. Len(S) \in Nat \ {0} /\ Len(S) <= Len(cache) + 1 /\ (e.key \in CachedKeys => Len(S) = Len(cache))
  BY <1>1, <1>4, <1>6
<1> QED  BY <1>4, <1>7, <1>8, <1>9, <1>10, <1>11 DEF EndsWith

\* The first entry goes when it is one too many: the others all passed it.
LEMMA Trimmed ==
    ASSUME NEW s \in Seq(Credential), Distinct(s), Len(s) = Capacity + 1, NEW u, Uses(u), Lru(s, u)
    PROVE  /\ Tail(s) \in Seq(Credential) /\ Len(Tail(s)) = Capacity
           /\ Distinct(Tail(s)) /\ Lru(Tail(s), u)
           /\ \A i \in 1..Capacity : Tail(s)[i] = s[i + 1]
<1> PICK t : t = Tail(s)
  OBVIOUS
<1>1. Capacity \in Nat \ {0} /\ s # <<>>
  BY CapacityAssumption, EmptySeq
<1>2. t \in Seq(Credential) /\ Len(t) = Capacity /\ \A i \in 1..Capacity : t[i] = s[i + 1]
  BY <1>1, HeadTailProperties
<1>3. Distinct(t)
  BY <1>1, <1>2 DEF Distinct
<1>4. InUse(t, u) /\ Ordered(t, u)
  BY <1>1, <1>2 DEF Lru, InUse, Ordered
<1>5. Passed(t, u)
  <2> SUFFICES ASSUME NEW k \in DOMAIN u, \A i \in 1..Capacity : t[i].key # k
               PROVE  Cardinality(u[k]) >= Capacity
    BY <1>2 DEF Passed
  <2>1. CASE s[1].key = k
    <3>1. \A j \in 2..Len(s) : s[j].key \in u[k]
      BY <1>1, <2>1 DEF Lru, Ordered
    <3>2. IsFiniteSet(u[k])
      BY DEF Uses
    <3> QED  BY <1>1, <3>1, <3>2, CountKeys
  <2>2. CASE s[1].key # k
    <3>1. \A j \in 1..Len(s) : j # 1 => j - 1 \in 1..Capacity /\ t[j - 1] = s[j]
      BY <1>1, <1>2
    <3>2. \A j \in 1..Len(s) : s[j].key # k
      BY <2>2, <3>1
    <3> QED  BY <3>2 DEF Lru, Passed
  <2> QED  BY <2>1, <2>2
<1> QED  BY <1>2, <1>3, <1>4, <1>5 DEF Lru

\* What a use of e's key makes of the order.
LEMMA UseOrders ==
    ASSUME CacheInv, Uses(since), Lru(cache, since), NEW e \in Credential,
           NEW S, EndsWith(S, e), Used(e.key)
    PROVE  Uses(since') /\ Lru(S, since')
<1> DEFINE k == e.key
<1>1. k \in Keys
  BY DEF Credential
<1>2. /\ DOMAIN since' = DOMAIN since \cup {k} /\ since'[k] = {}
      /\ \A j \in DOMAIN since : j # k => since'[j] = since[j] \cup {k}
  BY DEF Used
<1>3. Uses(since')
  <2>1. ASSUME NEW j \in DOMAIN since'
        PROVE  since'[j] \subseteq Keys \ {j} /\ IsFiniteSet(since'[j])
    <3>1. CASE j = k
      BY <1>2, <3>1, FS_EmptySet
    <3>2. CASE j # k
      <4>1. j \in DOMAIN since /\ since'[j] = since[j] \cup {k}
        BY <1>2, <3>2
      <4> QED  BY <1>1, <3>2, <4>1, FS_AddElement DEF Uses
    <3> QED  BY <3>1, <3>2
  <2> QED  BY <1>1, <1>2, <2>1 DEF Uses
<1>4. /\ Len(S) \in Nat \ {0} /\ Distinct(S) /\ S[Len(S)] = e
      /\ \A a \in 1..Len(S) : S[a] = e \/ \E i \in 1..Len(cache) : S[a] = cache[i]
      /\ \A i \in 1..Len(cache) : \E a \in 1..Len(S) : S[a].key = cache[i].key
  BY DEF EndsWith
<1>5. Follows(S)
  BY DEF EndsWith
<1>6. InUse(S, since')
  BY <1>2, <1>4 DEF Lru, InUse
<1>7. Ordered(S, since')
  <2> SUFFICES ASSUME NEW a \in 1..Len(S), NEW b \in 1..Len(S), a < b
               PROVE  S[b].key \in since'[S[a].key]
    BY DEF Ordered
  <2>1. a \in 1..Len(S) - 1 /\ S[a].key # k
    BY <1>4 DEF Distinct
  <2>2. PICK i \in 1..Len(cache) : S[a] = cache[i]
    BY <1>5, <2>1 DEF Follows
  <2>3. S[a].key \in DOMAIN since /\ since'[S[a].key] = since[S[a].key] \cup {k}
    BY <1>2, <2>1, <2>2 DEF Lru, InUse
  <2>4. CASE b = Len(S)
    BY <1>4, <2>3, <2>4
  <2>5. CASE b # Len(S)
    <3>1. b \in 1..Len(S) - 1
      BY <1>4, <2>5
    <3>2. PICK x, y \in 1..Len(cache) : S[a] = cache[x] /\ S[b] = cache[y] /\ x < y
      BY <1>5, <2>1, <3>1 DEF Follows
    <3> QED  BY <2>3, <3>2 DEF Lru, Ordered
  <2> QED  BY <2>4, <2>5
<1>8. Passed(S, since')
  <2> SUFFICES ASSUME NEW j \in DOMAIN since', \A a \in 1..Len(S) : S[a].key # j
               PROVE  Cardinality(since'[j]) >= Capacity
    BY DEF Passed
  <2>1. j # k /\ j \in DOMAIN since /\ since'[j] = since[j] \cup {k}
    BY <1>2, <1>4
  <2>2. \A i \in 1..Len(cache) : cache[i].key # j
    BY <1>4
  <2>3. Cardinality(since[j]) >= Capacity /\ IsFiniteSet(since[j])
    BY <2>1, <2>2 DEF Lru, Passed, Uses
  <2>4. Cardinality(since[j]) \in Nat
    BY <2>3, FS_CardinalityType
  <2> PICK U : U = since[j]
    OBVIOUS
  <2>5. /\ Cardinality(U \cup {k}) = Cardinality(U) \/ Cardinality(U \cup {k}) = Cardinality(U) + 1
    BY <2>3, FS_AddElement
  <2> QED  BY <2>1, <2>3, <2>4, <2>5, CapacityAssumption
<1> QED  BY <1>3, <1>6, <1>7, <1>8 DEF Lru

\* A dropped entry leaves the order of the others.
LEMMA DropOrders ==
    ASSUME CacheInv, Uses(since), Lru(cache, since), NEW k, NEW T, RestOf(T, k), Dropped(k)
    PROVE  Uses(since') /\ Lru(T, since')
<1>1. DOMAIN since' = DOMAIN since \ {k} /\ \A j \in DOMAIN since' : since'[j] = since[j]
  BY DEF Dropped
<1>2. Uses(since')
  BY <1>1 DEF Uses
<1>3. \A a \in 1..Len(T) : T[a].key # k /\ \E i \in 1..Len(cache) : T[a] = cache[i]
  BY DEF RestOf
<1>4. InOrder(T)
  BY DEF RestOf
<1>5. InUse(T, since')
  BY <1>1, <1>3 DEF Lru, InUse
<1>6. Ordered(T, since')
  <2> SUFFICES ASSUME NEW a \in 1..Len(T), NEW b \in 1..Len(T), a < b
               PROVE  T[b].key \in since'[T[a].key]
    BY DEF Ordered
  <2>1. PICK i, j \in 1..Len(cache) : T[a] = cache[i] /\ T[b] = cache[j] /\ i < j
    BY <1>4 DEF InOrder
  <2>2. T[a].key \in DOMAIN since'
    BY <1>5 DEF InUse
  <2> QED  BY <1>1, <2>1, <2>2 DEF Lru, Ordered
<1>7. \A i \in 1..Len(cache) : cache[i].key # k => \E a \in 1..Len(T) : T[a] = cache[i]
  BY Zenon DEF RestOf
<1>8. Passed(T, since')
  <2> SUFFICES ASSUME NEW j \in DOMAIN since', \A a \in 1..Len(T) : T[a].key # j
               PROVE  Cardinality(since'[j]) >= Capacity
    BY DEF Passed
  <2>1. \A i \in 1..Len(cache) : cache[i].key # j
    BY <1>1, <1>7
  <2> QED  BY <1>1, <2>1 DEF Lru, Passed
<1> QED  BY <1>2, <1>5, <1>6, <1>8 DEF Lru
-----------------------------------------------------------------------------
(* What a step has to respect                                              *)

\* What was minted stays, and what is due stays due.
MintedStays == \A t \in Tokens : minted[t].key \in Keys => minted'[t] = minted[t]
DueStays == \A t \in Tokens : Due(t) => Due(t)'

LEMMA GoodStays ==
    ASSUME TypeInv, MintedStays, DueStays, NEW e \in Credential, Good(e)
    PROVE  Good(e)'
<1>1. e.token \in Tokens /\ e.key \in Keys
  BY DEF Credential
<1>2. minted'[e.token] = minted[e.token] /\ Due(e.token)'
  BY <1>1 DEF Good, Sound, MintedStays, DueStays
<1> QED  BY <1>2 DEF Good, Sound

\* A call other than the one that moves is as it was.
LEMMA CallStays ==
    ASSUME TypeInv, MintedStays, DueStays, clock' \in Nat, clock' >= clock,
           storeHasCache' = storeHasCache,
           NEW q \in CallRecord, CallInv(q)
    PROVE  CallInv(q)'
<1>1. q.now \in Nat /\ clock \in Nat /\ \A e \in q.found : e \in Credential
  BY TimeAssumption DEF CallRecord, TypeInv
<1>2. q.pc \in {"validate", "write", "audit"} => minted'[q.token] = minted[q.token]
  BY DEF CallInv, Holding, MintedStays
<1>3. Holding(q)'
  BY <1>2 DEF CallInv, Holding
<1>4. (q.pc = "write" => storeHasCache /\ CacheExpiry(q.now, minted[q.token].dies) > q.now)'
  BY <1>2 DEF CallInv
<1>5. (\A e \in q.found : Good(e) /\ e.key = q.key)'
  BY <1>1, GoodStays DEF CallInv
<1>6. (q.now <= clock)'
  BY <1>1 DEF CallInv
<1> QED  BY <1>3, <1>4, <1>5, <1>6 DEF CallInv

LEMMA Moves ==
    ASSUME TypeInv, CallsInv, MintedStays, DueStays, UNCHANGED <<storeHasCache, clock>>,
           NEW c \in Calls, NEW q \in CallRecord, call' = [call EXCEPT ![c] = q], CallInv(q)'
    PROVE  call' \in [Calls -> CallRecord] /\ CallsInv'
<1>1. call' \in [Calls -> CallRecord] /\ clock \in Nat /\ clock' \in Nat /\ clock' >= clock
  BY TimeAssumption DEF TypeInv
<1>2. ASSUME NEW d \in Calls  PROVE CallInv(call[d])'
  <2>1. CASE d = c
    <3>1. call'[d] = q
      BY <2>1 DEF TypeInv
    <3> QED  BY <3>1 DEF CallInv, Holding, Good, Sound, Due
  <2>2. CASE d # c
    <3>1. call'[d] = call[d] /\ call[d] \in CallRecord /\ CallInv(call[d])
      BY <2>2 DEF TypeInv, CallsInv
    <3> PICK r : r = call[d]
      OBVIOUS
    <3>2. CallInv(r)'
      BY <1>1, <3>1, CallStays
    <3> QED  BY <3>1, <3>2 DEF CallInv, Holding, Good, Sound, Due
  <2> QED  BY <2>1, <2>2
<1> QED  BY <1>1, <1>2 DEF CallsInv

\* Nothing is undone as long as no event is taken back and no call leaves its
\* audit without one.
LEMMA DueMoves ==
    ASSUME TypeInv, NEW c \in Calls, NEW q, call' = [call EXCEPT ![c] = q],
           \A t \in Tokens : event[t] # "none" => event'[t] # "none",
           call[c].pc = "audit" => event'[call[c].token] # "none"
    PROVE  DueStays
<1> SUFFICES ASSUME NEW t \in Tokens, Due(t)  PROVE Due(t)'
  BY DEF DueStays
<1>1. CASE event[t] # "none"
  BY <1>1 DEF Due
<1>2. CASE event'[t] # "none"
  BY <1>2 DEF Due
<1>3. CASE event[t] = "none" /\ event'[t] = "none"
  <2>1. PICK d \in Calls : call[d].pc = "audit" /\ call[d].token = t
    BY <1>3 DEF Due
  <2>2. d # c
    BY <1>3, <2>1
  <2>3. call'[d] = call[d]
    BY <2>2 DEF TypeInv
  <2> QED  BY <2>1, <2>3 DEF Due
<1> QED  BY <1>1, <1>2, <1>3

LEMMA CacheStays ==
    ASSUME UpInv, MintedStays, DueStays, UNCHANGED <<storeHasCache, cache, since>>
    PROVE  CacheInv' /\ LruInv'
<1>1. \A i \in 1..Len(cache) : cache[i] \in Credential /\ Good(cache[i])
  BY ElementOfSeq DEF UpInv, CacheInv
<1>2. \A i \in 1..Len(cache) : Good(cache[i])'
  <2>1. ASSUME NEW e \in Credential, Good(e)  PROVE Good(e)'
    BY <2>1, GoodStays DEF UpInv
  <2>2. ASSUME NEW i \in 1..Len(cache)  PROVE Good(cache[i])'
    <3> PICK e : e = cache[i]
      OBVIOUS
    <3>1. Good(e)' /\ e = cache'[i]
      BY <1>1, <2>1
    <3> QED  BY <3>1 DEF Good, Sound, Due
  <2> QED  BY <2>2
<1>3. CacheInv'
  BY <1>2 DEF UpInv, CacheInv, Distinct
<1>4. LruInv'
  BY DEF UpInv, LruInv, Lru, Uses, InUse, Ordered, Passed
<1> QED  BY <1>3, <1>4

\* A step that hands out nothing.
LEMMA Silent == answer' = None => HitUseful' /\ ExchangeReported'
  BY DEF HitUseful, ExchangeReported

LEMMA LruIs ==
    ASSUME NEW s, NEW u, cache' = s, since' = u, Uses(u), Len(s) <= Capacity, Lru(s, u)
    PROVE  LruInv'
<1>1. Uses(since')
  OBVIOUS
<1>2. Lru(cache', since')
  OBVIOUS
<1> QED  BY <1>1, <1>2 DEF LruInv, Uses, Lru, InUse, Ordered, Passed

\* The entry e is written, and in the LRU that is a use of its key.
LEMMA PutKeeps ==
    ASSUME UpInv, MintedStays, DueStays, NEW e \in Credential, Good(e)',
           Put(e), storeHasCache' = storeHasCache,
           \/ ~storeHasCache /\ Used(e.key)
           \/ storeHasCache /\ since' = since
    PROVE  CacheInv' /\ LruInv'
<1> PICK S : S = Append(Without(e.key), e)
  OBVIOUS
<1>1. EndsWith(S, e)
  BY AtEnd DEF UpInv
<1>2. S \in Seq(Credential) /\ Len(S) \in Nat \ {0} /\ Distinct(S) /\ Len(S) <= Len(cache) + 1
  BY <1>1 DEF EndsWith
<1>3. ASSUME NEW a \in 1..Len(S)  PROVE Good(S[a])'
  <2>1. CASE S[a] = e
    BY <2>1 DEF Good, Sound, Due
  <2>2. CASE \E i \in 1..Len(cache) : S[a] = cache[i]
    <3>1. PICK x \in Credential : S[a] = x /\ Good(x)
      BY <2>2, ElementOfSeq DEF UpInv, CacheInv
    <3>2. Good(x)'
      BY <3>1, GoodStays DEF UpInv
    <3> QED  BY <3>1, <3>2 DEF Good, Sound, Due
  <2> QED  BY <1>1, <2>1, <2>2 DEF EndsWith
<1>4. Capacity \in Nat \ {0}
  BY CapacityAssumption
<1>5. CASE storeHasCache \/ Len(S) <= Capacity
  <2>1. cache' = S
    BY <1>2, <1>4, <1>5 DEF Put, Evicted
  <2>2. CacheInv'
    <3>1. \A a \in 1..Len(cache') : Good(cache[a])'
      BY <1>3, <2>1 DEF Good, Sound, Due
    <3> QED  BY <1>2, <2>1, <3>1 DEF CacheInv, Distinct
  <2>3. ASSUME storeHasCache  PROVE LruInv'
    BY <2>3 DEF UpInv, LruInv, Uses
  <2>4. ASSUME ~storeHasCache  PROVE LruInv'
    <3>1. Uses(since') /\ Lru(S, since')
      BY <1>1, <2>4, UseOrders DEF UpInv, LruInv
    <3>2. Len(S) <= Capacity
      BY <1>5, <2>4
    <3> PICK u : u = since'
      OBVIOUS
    <3> QED  BY <2>1, <3>1, <3>2, LruIs
  <2> QED  BY <2>2, <2>3, <2>4
<1>6. CASE ~storeHasCache /\ ~(Len(S) <= Capacity)
  <2>1. cache' = Tail(S) /\ Used(e.key)
    BY <1>2, <1>4, <1>6 DEF Put, Evicted
  <2>2. Uses(since') /\ Lru(S, since')
    BY <1>1, <1>6, <2>1, UseOrders DEF UpInv, LruInv
  <2>3. Len(S) = Capacity + 1
    <3>1. Len(cache) <= Capacity /\ Len(cache) \in Nat
      BY <1>6, LenProperties DEF UpInv, LruInv, CacheInv
    <3> QED  BY <1>2, <1>4, <1>6, <3>1
  <2> PICK u : u = since'
    OBVIOUS
  <2> PICK t : t = Tail(S)
    OBVIOUS
  <2>4. /\ t \in Seq(Credential) /\ Len(t) = Capacity /\ Distinct(t) /\ Lru(t, u)
        /\ \A i \in 1..Capacity : t[i] = S[i + 1]
    BY <1>2, <2>2, <2>3, Trimmed
  <2>5. \A a \in 1..Len(cache') : Good(cache[a])'
    <3>1. ASSUME NEW a \in 1..Capacity  PROVE Good(cache[a])'
      <4>1. a + 1 \in 1..Len(S) /\ cache'[a] = S[a + 1]
        BY <1>4, <2>1, <2>3, <2>4
      <4> QED  BY <1>3, <4>1 DEF Good, Sound, Due
    <3> QED  BY <2>1, <2>4, <3>1
  <2>6. CacheInv'
    BY <2>1, <2>4, <2>5 DEF CacheInv, Distinct
  <2>7. Uses(u) /\ Lru(t, u) /\ Len(t) <= Capacity
    BY <1>4, <2>2, <2>4
  <2>8. cache' = t /\ since' = u
    BY <2>1
  <2>9. LruInv'
    BY <2>7, <2>8, LruIs
  <2> QED  BY <2>6, <2>9
<1> QED  BY <1>5, <1>6

\* A hit makes the entry of its key the last.
LEMMA TouchKeeps ==
    ASSUME UpInv, MintedStays, DueStays, ~storeHasCache, NEW k, NEW e \in Found(k),
           cache' = Touched(e), Used(k), storeHasCache' = storeHasCache
    PROVE  CacheInv' /\ LruInv'
<1>1. e \in Credential /\ e.key = k /\ Good(e) /\ k \in CachedKeys
  BY Finds DEF UpInv
<1>2. Good(e)'
  BY <1>1, GoodStays DEF UpInv
<1>3. EndsWith(Touched(e), e)
  BY <1>1, AtEnd DEF UpInv, Touched
<1>4. Len(Touched(e)) = Len(cache)
  BY <1>1, <1>3 DEF EndsWith
<1>5. Len(cache) \in Nat /\ Len(cache) <= Capacity /\ Capacity \in Nat
  BY LenProperties, CapacityAssumption DEF UpInv, LruInv, CacheInv
<1>6. Put(e)
  BY <1>4, <1>5 DEF Put, Evicted, Touched
<1> QED  BY <1>1, <1>2, <1>6, PutKeeps

\* An expired entry goes.
LEMMA DropKeeps ==
    ASSUME UpInv, MintedStays, DueStays, ~storeHasCache, NEW k,
           cache' = Without(k), Dropped(k), storeHasCache' = storeHasCache
    PROVE  CacheInv' /\ LruInv'
<1> PICK T : T = Without(k)
  OBVIOUS
<1>1. RestOf(T, k)
  BY Rest DEF UpInv
<1>2. T \in Seq(Credential) /\ Len(T) \in Nat /\ Len(T) <= Len(cache)
  BY <1>1 DEF RestOf
<1>3. InOrder(T)
  BY <1>1 DEF RestOf
<1>4. Distinct(T)
  <2> SUFFICES ASSUME NEW a \in 1..Len(T), NEW b \in 1..Len(T), a # b  PROVE T[a].key # T[b].key
    BY DEF Distinct
  <2>1. PICK i, j \in 1..Len(cache) : T[a] = cache[i] /\ T[b] = cache[j] /\ i # j
    BY <1>3 DEF InOrder
  <2> QED  BY <2>1 DEF UpInv, CacheInv, Distinct
<1>5. ASSUME NEW a \in 1..Len(T)  PROVE Good(T[a])'
  <2>1. PICK x \in Credential : T[a] = x /\ Good(x)
    BY <1>1, ElementOfSeq DEF RestOf, UpInv, CacheInv
  <2>2. Good(x)'
    BY <2>1, GoodStays DEF UpInv
  <2> QED  BY <2>1, <2>2 DEF Good, Sound, Due
<1>6. CacheInv'
  <2>1. \A a \in 1..Len(cache') : Good(cache[a])'
    BY <1>5 DEF Good, Sound, Due
  <2> QED  BY <1>2, <1>4, <2>1 DEF CacheInv, Distinct
<1>7. Uses(since') /\ Lru(T, since')
  BY <1>1, DropOrders DEF UpInv, LruInv
<1>8. Len(T) <= Capacity
  <2>1. Len(cache) <= Capacity /\ Len(cache) \in Nat /\ Capacity \in Nat
    BY LenProperties, CapacityAssumption DEF UpInv, LruInv, CacheInv
  <2> QED  BY <1>2, <2>1
<1> PICK u : u = since'
  OBVIOUS
<1>9. LruInv'
  BY <1>7, <1>8, LruIs
<1> QED  BY <1>6, <1>9
-----------------------------------------------------------------------------
(* The call that moves                                                     *)

\* The records Start and Goto make.
Begun(q, k, l) ==
    /\ q \in CallRecord
    /\ q.pc = l /\ q.key = k /\ q.now = clock /\ q.found = {} /\ q.token = None
Gone(w, q, l, t) ==
    /\ w \in CallRecord
    /\ w.pc = l /\ w.key = q.key /\ w.now = q.now /\ w.found = {} /\ w.token = t

LEMMA Begins ==
    ASSUME NEW k \in Keys, NEW l \in Pc, clock \in 0..MaxTime
    PROVE  Begun([Idle EXCEPT !.pc = l, !.key = k, !.now = clock], k, l)
BY DEF Idle, CallRecord, Begun

LEMMA GoesOn ==
    ASSUME NEW q \in CallRecord, NEW l \in Pc, NEW t \in Tokens \cup {None}
    PROVE  Gone([q EXCEPT !.pc = l, !.token = t, !.found = {}], q, l, t)
BY DEF CallRecord, Gone

\* The call takes the record q: what has to hold of q, and what was due.
LEMMA Advances ==
    ASSUME UpInv, MintedStays, UNCHANGED <<storeHasCache, clock>>,
           NEW c \in Calls, NEW q \in CallRecord, call' = [call EXCEPT ![c] = q],
           DueStays, CallInv(q)'
    PROVE  call' \in [Calls -> CallRecord] /\ CallsInv'
BY Moves DEF UpInv

\* A call that throws or returns is idle.
LEMMA Ends ==
    ASSUME UpInv, MintedStays, UNCHANGED <<storeHasCache, clock>>,
           NEW c \in Calls, call' = [call EXCEPT ![c] = Idle], DueStays
    PROVE  call' \in [Calls -> CallRecord] /\ CallsInv'
<1> PICK q : q = Idle
  OBVIOUS
<1>1. q \in CallRecord /\ q.pc = "idle" /\ q.now = 0 /\ q.found = {}
  BY TimeAssumption DEF Idle, CallRecord, Pc
<1>2. clock' \in Nat
  BY TimeAssumption DEF UpInv, TypeInv
<1>3. CallInv(q)'
  BY <1>1, <1>2 DEF CallInv, Holding
<1> QED  BY <1>1, <1>3, Advances

\* A call that starts holds nothing yet.
LEMMA Starts ==
    ASSUME UpInv, MintedStays, UNCHANGED <<storeHasCache, clock>>,
           NEW c \in Calls, NEW k \in Keys, NEW l \in {"select", "exchange"}, Start(c, k, l), DueStays
    PROVE  call' \in [Calls -> CallRecord] /\ CallsInv'
<1> PICK q : q = [Idle EXCEPT !.pc = l, !.key = k, !.now = clock]
  OBVIOUS
<1>1. l \in Pc /\ clock \in 0..MaxTime
  BY DEF UpInv, TypeInv, Pc
<1>2. Begun(q, k, l)
  BY <1>1, Begins
<1>3. /\ q \in CallRecord
      /\ q.pc = l /\ q.key = k /\ q.now = clock /\ q.found = {}
  BY <1>2 DEF Begun
<1>4. clock' \in Nat
  BY TimeAssumption DEF UpInv, TypeInv
<1>5. CallInv(q)'
  BY <1>3, <1>4 DEF CallInv, Holding
<1> QED  BY <1>3, <1>5, Advances DEF Start

\* A call that goes on with t: where it holds a token, t is one.
LEMMA Goes ==
    ASSUME UpInv, MintedStays, UNCHANGED <<storeHasCache, clock>>,
           NEW c \in Calls, call[c].pc # "idle",
           NEW l \in Pc, NEW t \in Tokens \cup {None}, Goto(c, l, t), DueStays,
           l \in {"validate", "write", "audit"} =>
               /\ t \in Tokens /\ minted'[t].key = call[c].key
               /\ call[c].now <= minted'[t].born,
           l = "write" => storeHasCache /\ CacheExpiry(call[c].now, minted'[t].dies) > call[c].now
    PROVE  call' \in [Calls -> CallRecord] /\ CallsInv'
<1> PICK r : r = call[c]
  OBVIOUS
<1> PICK q : q = [r EXCEPT !.pc = l, !.token = t, !.found = {}]
  OBVIOUS
<1>1. r \in CallRecord /\ CallInv(r)
  BY DEF UpInv, TypeInv, CallsInv
<1>2. Gone(q, r, l, t)
  BY <1>1, GoesOn
<1>3. /\ q \in CallRecord
      /\ q.pc = l /\ q.key = r.key /\ q.now = r.now /\ q.found = {} /\ q.token = t
  BY <1>2 DEF Gone
<1>4. q.key \in Keys /\ q.now <= clock'
  BY <1>1, <1>3 DEF CallInv
<1>5. Holding(q)'
  BY <1>3 DEF Holding
<1>6. CallInv(q)'
  BY <1>3, <1>4, <1>5 DEF CallInv
<1>7. call' = [call EXCEPT ![c] = q]
  BY DEF Goto
<1> QED  BY <1>3, <1>6, <1>7, Advances

\* A good entry that outlives the clock is a useful answer.
LEMMA HandsOut ==
    ASSUME UpInv, MintedStays, DueStays, UNCHANGED <<storeHasCache, clock>>,
           NEW c \in Calls, NEW e \in Credential, Good(e), e.until > clock,
           Return(c, e.key, e.token, e.until, TRUE)
    PROVE  answer' \in Answer /\ HitUseful' /\ ExchangeReported'
<1>1. e.key \in Keys /\ e.token \in Tokens /\ e.until \in Nat /\ clock \in Nat
  BY TimeAssumption DEF Credential, UpInv, TypeInv
<1>2. Good(e)'
  BY GoodStays DEF UpInv
<1> PICK a : a = answer'
  OBVIOUS
<1>3. a = [key |-> e.key, token |-> e.token, until |-> e.until, at |-> clock, hit |-> TRUE]
  BY DEF Return
<1>4. a \in Answer /\ a.key = e.key /\ a.token = e.token /\ a.until = e.until /\ a.at = clock
  BY <1>1, <1>3 DEF Answer
<1>5. ExchangeReported'
  <2>1. a.hit = TRUE
    BY <1>3
  <2> QED  BY <1>2, <1>4, <2>1 DEF Good, Due, ExchangeReported
<1> PICK m : m = minted'[e.token]
  OBVIOUS
<1>6. m.key = e.key /\ e.until + Headroom <= m.dies /\ e.until + Headroom <= m.born + Ceiling
  BY <1>2 DEF Good, Sound
<1>7. minted[e.token].key \in Keys /\ m = minted[e.token]
  BY <1>1 DEF Good, Sound, MintedStays
<1>8. m.dies \in Nat /\ m.born \in Nat /\ Headroom \in Nat /\ Ceiling \in Nat
  BY <1>1, <1>7, TimeAssumption DEF UpInv, TypeInv
<1>9. /\ m.dies > a.at + Headroom /\ m.born + Ceiling > a.at + Headroom
      /\ a.until + Headroom <= m.dies
  BY <1>1, <1>4, <1>6, <1>8
<1>10. HitUseful'
  BY <1>4, <1>6, <1>9 DEF HitUseful
<1> QED  BY <1>4, <1>5, <1>10

\* What CacheExpiry gives is early enough for any token that came after now.
LEMMA Expiries ==
    ASSUME NEW now \in Nat, NEW dies \in Nat, NEW born \in Nat, now <= born
    PROVE  /\ CacheExpiry(now, dies) \in Int
           /\ CacheExpiry(now, dies) + Headroom <= dies
           /\ CacheExpiry(now, dies) + Headroom <= born + Ceiling
BY TimeAssumption DEF CacheExpiry
-----------------------------------------------------------------------------
(* Every action keeps the invariant                                        *)

\* A call that is not at its audit moves and no event changes: nothing is undone.
LEMMA Quiet ==
    ASSUME UpInv, NEW c \in Calls, NEW q, call' = [call EXCEPT ![c] = q],
           call[c].pc # "audit", UNCHANGED <<minted, event>>
    PROVE  MintedStays /\ DueStays
<1>1. MintedStays
  BY DEF MintedStays
<1>2. \A t \in Tokens : event[t] # "none" => event'[t] # "none"
  OBVIOUS
<1> QED  BY <1>1, <1>2, DueMoves DEF UpInv

LEMMA UpstreamForKeeps ==
    ASSUME UpInv, NEW c \in Calls, NEW k \in Keys, UpstreamFor(c, k)
    PROVE  UpInv'
<1>1. call[c].pc = "idle" /\ UNCHANGED <<storeHasCache, clock, minted, event>>
  BY DEF UpstreamFor
<1>2. call \in [Calls -> CallRecord] /\ TypeInv
  BY DEF UpInv, TypeInv
<1>3. ASSUME NEW l \in {"select", "exchange"}, Start(c, k, l),
             \/ UNCHANGED <<cache, since>>
             \/ ~storeHasCache /\ cache' = Without(k) /\ Dropped(k)
      PROVE  UpInv'
  <2>1. MintedStays /\ DueStays
    BY <1>1, <1>3, Quiet DEF Start
  <2>2. call' \in [Calls -> CallRecord] /\ CallsInv'
    BY <1>1, <1>3, <2>1, Starts
  <2>3. CacheInv' /\ LruInv'
    BY <1>1, <1>3, <2>1, CacheStays, DropKeeps
  <2>4. answer' = None
    BY <1>3 DEF Start
  <2>5. TypeInv'
    BY <1>1, <1>2, <2>2, <2>4 DEF TypeInv
  <2> QED  BY <2>2, <2>3, <2>4, <2>5, Silent DEF UpInv
<1>4. ASSUME ~storeHasCache, NEW e \in Found(k), e.until > clock,
             cache' = Touched(e), Used(k), Return(c, k, e.token, e.until, TRUE)
      PROVE  UpInv'
  <2>1. MintedStays /\ DueStays
    BY <1>1, <1>4, Quiet DEF Return
  <2>2. call' \in [Calls -> CallRecord] /\ CallsInv'
    BY <1>1, <1>4, <2>1, Ends DEF Return
  <2>3. e \in Credential /\ e.key = k /\ Good(e)
    BY <1>4, Finds DEF UpInv
  <2>4. CacheInv' /\ LruInv'
    BY <1>1, <1>4, <2>1, TouchKeeps
  <2>5. answer' \in Answer /\ HitUseful' /\ ExchangeReported'
    BY <1>1, <1>4, <2>1, <2>3, HandsOut
  <2>6. TypeInv'
    BY <1>1, <1>2, <2>2, <2>5 DEF TypeInv
  <2> QED  BY <2>2, <2>4, <2>5, <2>6 DEF UpInv
<1> QED  BY <1>3, <1>4 DEF UpstreamFor, ReadLru

LEMMA SelectKeeps ==
    ASSUME UpInv, NEW c \in Calls, Select(c)
    PROVE  UpInv'
<1>1. call[c].pc = "select" /\ UNCHANGED <<storeHasCache, clock, cache, minted, event, since>>
  BY DEF Select
<1>2. answer' = None
  BY DEF Select, Throw
<1>3. ASSUME MintedStays, DueStays, call' \in [Calls -> CallRecord], CallsInv'
      PROVE  UpInv'
  <2>1. CacheInv' /\ LruInv'
    BY <1>1, <1>3, CacheStays
  <2>2. TypeInv'
    BY <1>1, <1>2, <1>3 DEF UpInv, TypeInv
  <2> QED  BY <1>2, <1>3, <2>1, <2>2, Silent DEF UpInv
<1>4. CASE Throw(c)
  <2>1. MintedStays /\ DueStays
    BY <1>1, <1>4, Quiet DEF Throw
  <2> QED  BY <1>1, <1>3, <1>4, <2>1, Ends DEF Throw
<1>5. CASE call' = [call EXCEPT ![c].pc = "reply", ![c].found = Found(call[c].key)]
  <2> PICK r : r = call[c]
    OBVIOUS
  <2> PICK f : f = Found(r.key)
    OBVIOUS
  <2> PICK q : q = [r EXCEPT !.pc = "reply", !.found = f]
    OBVIOUS
  <2>1. r \in CallRecord /\ CallInv(r) /\ r.pc = "select"
    BY <1>1 DEF UpInv, TypeInv, CallsInv
  <2>2. \A e \in f : e \in Credential /\ e.key = r.key /\ Good(e)
    BY Finds DEF UpInv
  <2>3. f \in SUBSET Credential
    BY <2>2
  <2>4. q \in CallRecord /\ q.pc = "reply" /\ q.key = r.key /\ q.now = r.now /\ q.found = f
    BY <2>1, <2>3 DEF CallRecord, Pc
  <2>5. call' = [call EXCEPT ![c] = q]
    BY <1>5 DEF UpInv, TypeInv
  <2>6. MintedStays /\ DueStays
    BY <1>1, <2>5, Quiet
  <2>7. \A e \in f : Good(e)'
    BY <2>2, <2>6, GoodStays DEF UpInv
  <2>8. CallInv(q)'
    <3>1. q.key \in Keys /\ q.now <= clock' /\ q.pc = "reply"
      BY <1>1, <2>1, <2>4 DEF CallInv
    <3>2. Holding(q)'
      BY <3>1 DEF Holding
    <3>3. \A e \in q.found : e.key = q.key
      BY <2>2, <2>4
    <3>4. (\A e \in q.found : Good(e) /\ e.key = q.key)'
      BY <2>4, <2>7, <3>3 DEF Good, Sound, Due
    <3> QED  BY <3>1, <3>2, <3>4 DEF CallInv
  <2> QED  BY <1>1, <1>3, <2>4, <2>5, <2>6, <2>8, Advances
<1> QED  BY <1>4, <1>5 DEF Select

LEMMA ReplyKeeps ==
    ASSUME UpInv, NEW c \in Calls, Reply(c)
    PROVE  UpInv'
<1> PICK r : r = call[c]
  OBVIOUS
<1>1. r.pc = "reply" /\ UNCHANGED <<storeHasCache, clock, cache, minted, event, since>>
  BY DEF Reply
<1>2. r \in CallRecord /\ CallInv(r)
  BY DEF UpInv, TypeInv, CallsInv
<1>3. CASE Goto(c, "exchange", None)
  <2>1. MintedStays /\ DueStays
    BY <1>1, <1>3, Quiet DEF Goto
  <2>2. call' \in [Calls -> CallRecord] /\ CallsInv'
    BY <1>1, <1>3, <2>1, Goes DEF Pc
  <2>3. CacheInv' /\ LruInv' /\ answer' = None
    BY <1>1, <1>3, <2>1, CacheStays DEF Goto
  <2>4. TypeInv'
    BY <1>1, <2>2, <2>3 DEF UpInv, TypeInv
  <2> QED  BY <2>2, <2>3, <2>4, Silent DEF UpInv
<1>4. ASSUME NEW e \in r.found, e.until > clock, Return(c, r.key, e.token, e.until, TRUE)
      PROVE  UpInv'
  <2>1. MintedStays /\ DueStays
    BY <1>1, <1>4, Quiet DEF Return
  <2>2. call' \in [Calls -> CallRecord] /\ CallsInv'
    BY <1>1, <1>4, <2>1, Ends DEF Return
  <2>3. e \in Credential /\ Good(e) /\ e.key = r.key
    BY <1>2, <1>4 DEF CallRecord, CallInv
  <2>4. CacheInv' /\ LruInv'
    BY <1>1, <2>1, CacheStays
  <2>5. answer' \in Answer /\ HitUseful' /\ ExchangeReported'
    BY <1>1, <1>4, <2>1, <2>3, HandsOut
  <2>6. TypeInv'
    BY <1>1, <2>2, <2>5 DEF UpInv, TypeInv
  <2> QED  BY <2>2, <2>4, <2>5, <2>6 DEF UpInv
<1> QED  BY <1>3, <1>4 DEF Reply, StillGood

\* A step that leaves the cache and hands out nothing.
LEMMA Mute ==
    ASSUME UpInv, MintedStays, DueStays, answer' = None,
           UNCHANGED <<storeHasCache, clock, cache, since>>,
           minted' \in [Tokens -> [key: Keys \cup {None}, born: Nat, dies: Nat]],
           event' \in [Tokens -> {"none", "accepted", "unheard"}],
           call' \in [Calls -> CallRecord], CallsInv'
    PROVE  UpInv'
<1>1. CacheInv' /\ LruInv'
  BY CacheStays
<1>2. TypeInv'
  BY DEF UpInv, TypeInv
<1> QED  BY <1>1, <1>2, Silent DEF UpInv

LEMMA ExchangeKeeps ==
    ASSUME UpInv, NEW c \in Calls, Exchange(c)
    PROVE  UpInv'
<1>1. call[c].pc = "exchange" /\ UNCHANGED <<storeHasCache, clock, cache, event, since>>
  BY DEF Exchange
<1> PICK r : r = call[c]
  OBVIOUS
<1>2. r \in CallRecord /\ CallInv(r) /\ r.pc = "exchange" /\ TypeInv
  BY <1>1 DEF UpInv, TypeInv, CallsInv
<1>3. r.key \in Keys /\ r.now <= clock /\ clock \in Nat
  BY <1>2, TimeAssumption DEF CallInv, TypeInv
<1>4. CASE Goto(c, "rejected", None) /\ UNCHANGED minted
  <2>1. MintedStays /\ DueStays
    BY <1>1, <1>4, Quiet DEF Goto
  <2>2. call' \in [Calls -> CallRecord] /\ CallsInv'
    BY <1>1, <1>4, <2>1, Goes DEF Pc
  <2> QED  BY <1>1, <1>2, <1>4, <2>1, <2>2, Mute DEF TypeInv, Goto
<1>5. ASSUME NEW t \in Tokens, NEW dies \in {clock + l : l \in Lifetimes} \cup {Never},
             minted[t] = Unminted,
             minted' = [minted EXCEPT ![t] = [key |-> call[c].key, born |-> clock, dies |-> dies]],
             Goto(c, "validate", t)
      PROVE  UpInv'
  <2>1. dies \in Nat
    BY <1>3, <1>5, TimeAssumption DEF Never
  <2> PICK m : m = [key |-> r.key, born |-> clock, dies |-> dies]
    OBVIOUS
  <2>2. m \in [key: Keys \cup {None}, born: Nat, dies: Nat] /\ m.key = r.key /\ m.born = clock
    BY <1>3, <2>1
  <2>3. /\ minted' \in [Tokens -> [key: Keys \cup {None}, born: Nat, dies: Nat]]
        /\ minted'[t] = m
    BY <1>2, <1>5, <2>2 DEF TypeInv
  <2>4. MintedStays
    <3>1. minted[t].key \notin Keys
      BY <1>5, NoneAssumption DEF Unminted
    <3>2. \A u \in Tokens : u # t => minted'[u] = minted[u]
      BY <1>2, <1>5 DEF TypeInv
    <3> QED  BY <3>1, <3>2 DEF MintedStays
  <2>5. DueStays
    <3>1. \A u \in Tokens : event[u] # "none" => event'[u] # "none"
      BY <1>1
    <3> QED  BY <1>1, <1>2, <1>5, <3>1, DueMoves DEF Goto
  <2>6. call' \in [Calls -> CallRecord] /\ CallsInv'
    BY <1>1, <1>3, <1>5, <2>2, <2>3, <2>4, <2>5, Goes DEF Pc
  <2> QED  BY <1>1, <1>2, <1>5, <2>3, <2>4, <2>5, <2>6, Mute DEF TypeInv, Goto
<1> QED  BY <1>4, <1>5 DEF Exchange

\* The entry that Validate or Write makes of what a call holds.
LEMMA Entries ==
    ASSUME UpInv, NEW c \in Calls, call[c].pc \in {"validate", "write"},
           NEW u, u = CacheExpiry(call[c].now, minted[call[c].token].dies), u > call[c].now,
           NEW e, e = [key |-> call[c].key, token |-> call[c].token, until |-> u]
    PROVE  /\ e \in Credential /\ e.key = call[c].key /\ e.token = call[c].token
           /\ Sound(e)
<1> PICK r : r = call[c]
  OBVIOUS
<1> PICK m : m = minted[r.token]
  OBVIOUS
<1>1. r \in CallRecord /\ CallInv(r) /\ TypeInv
  BY DEF UpInv, TypeInv, CallsInv
<1>2. r.key \in Keys /\ r.token \in Tokens /\ m.key = r.key /\ r.now <= m.born
  BY <1>1 DEF CallInv, Holding
<1>3. r.now \in Nat /\ m.born \in Nat /\ m.dies \in Nat
  BY <1>1, <1>2, TimeAssumption DEF CallRecord, TypeInv
<1>4. u \in Int /\ u + Headroom <= m.dies /\ u + Headroom <= m.born + Ceiling
  BY <1>2, <1>3, Expiries
<1>5. u \in Nat
  BY <1>3, <1>4
<1>6. e \in Credential /\ e.key = r.key /\ e.token = r.token /\ e.until = u
  BY <1>2, <1>5 DEF Credential
<1> QED  BY <1>2, <1>4, <1>6 DEF Sound

LEMMA ValidateKeeps ==
    ASSUME UpInv, NEW c \in Calls, Validate(c)
    PROVE  UpInv'
<1> PICK r : r = call[c]
  OBVIOUS
<1> PICK u : u = CacheExpiry(r.now, minted[r.token].dies)
  OBVIOUS
<1>1. r.pc = "validate" /\ UNCHANGED <<storeHasCache, clock, minted, event>>
  BY DEF Validate
<1>2. r \in CallRecord /\ CallInv(r) /\ TypeInv
  BY DEF UpInv, TypeInv, CallsInv
<1>3. r.token \in Tokens /\ minted[r.token].key = r.key /\ r.now <= minted[r.token].born
  BY <1>1, <1>2 DEF CallInv, Holding
<1>4. ASSUME NEW l \in {"audit", "write", "rejected"}, NEW t \in Tokens \cup {None}, Goto(c, l, t),
             l # "rejected" => t = r.token,
             l = "write" => storeHasCache /\ u > r.now
      PROVE  MintedStays /\ DueStays /\ call' \in [Calls -> CallRecord] /\ CallsInv'
  <2>1. MintedStays /\ DueStays
    BY <1>1, <1>4, Quiet DEF Goto
  <2>2. l \in Pc /\ minted' = minted
    BY <1>1 DEF Pc
  <2> QED  BY <1>1, <1>3, <1>4, <2>1, <2>2, Goes
<1>5. ASSUME NEW l \in {"audit", "write", "rejected"}, NEW t \in Tokens \cup {None}, Goto(c, l, t),
             l # "rejected" => t = r.token,
             l = "write" => storeHasCache /\ u > r.now,
             UNCHANGED <<cache, since>>
      PROVE  UpInv'
  <2>1. MintedStays /\ DueStays /\ call' \in [Calls -> CallRecord] /\ CallsInv'
    BY <1>4, <1>5
  <2> QED  BY <1>1, <1>2, <1>5, <2>1, Mute DEF TypeInv, Goto
<1>6. ASSUME u > r.now, ~storeHasCache,
             Put([key |-> r.key, token |-> r.token, until |-> u]), Used(r.key),
             Goto(c, "audit", r.token)
      PROVE  UpInv'
  <2> PICK e : e = [key |-> r.key, token |-> r.token, until |-> u]
    OBVIOUS
  <2>1. e \in Credential /\ e.key = r.key /\ e.token = r.token /\ Sound(e)
    BY <1>1, <1>6, Entries
  <2>2. MintedStays /\ DueStays /\ call' \in [Calls -> CallRecord] /\ CallsInv'
    BY <1>3, <1>4, <1>6
  <2>3. Due(e.token)'
    <3>1. call'[c].pc = "audit" /\ call'[c].token = r.token
      BY <1>2, <1>6 DEF Goto, TypeInv, CallRecord
    <3> QED  BY <2>1, <3>1 DEF Due
  <2>4. Good(e)'
    BY <1>1, <2>1, <2>3 DEF Good, Sound, Due
  <2>5. CacheInv' /\ LruInv'
    BY <1>1, <1>6, <2>1, <2>2, <2>4, PutKeeps
  <2>6. answer' = None
    BY <1>6 DEF Goto
  <2>7. TypeInv'
    BY <1>1, <1>2, <2>2, <2>6 DEF TypeInv
  <2> QED  BY <2>2, <2>5, <2>6, <2>7, Silent DEF UpInv
<1> QED  BY <1>3, <1>5, <1>6 DEF Validate

LEMMA WriteKeeps ==
    ASSUME UpInv, NEW c \in Calls, Write(c)
    PROVE  UpInv'
<1> PICK r : r = call[c]
  OBVIOUS
<1> PICK e : e = [key |-> r.key, token |-> r.token,
                  until |-> CacheExpiry(r.now, minted[r.token].dies)]
  OBVIOUS
<1>1. r.pc = "write" /\ UNCHANGED <<storeHasCache, clock, minted, since>>
  BY DEF Write
<1>2. r \in CallRecord /\ CallInv(r) /\ TypeInv
  BY DEF UpInv, TypeInv, CallsInv
<1>3. /\ r.token \in Tokens /\ minted[r.token].key = r.key /\ r.now <= minted[r.token].born
      /\ storeHasCache /\ CacheExpiry(r.now, minted[r.token].dies) > r.now
  BY <1>1, <1>2 DEF CallInv, Holding
<1>4. e \in Credential /\ e.key = r.key /\ e.token = r.token /\ Sound(e)
  BY <1>1, <1>3, Entries
<1>5. MintedStays
  BY <1>1 DEF MintedStays
<1>6. CASE Throw(c) /\ UNCHANGED <<cache, event>>
  <2>1. MintedStays /\ DueStays
    BY <1>1, <1>6, Quiet DEF Throw
  <2>2. call' \in [Calls -> CallRecord] /\ CallsInv'
    BY <1>1, <1>6, <2>1, Ends DEF Throw
  <2> QED  BY <1>1, <1>2, <1>6, <2>1, <2>2, Mute DEF TypeInv, Throw
<1>7. ASSUME DueStays, Due(e.token)', call' \in [Calls -> CallRecord], CallsInv', answer' = None,
             event' \in [Tokens -> {"none", "accepted", "unheard"}], Put(e)
      PROVE  UpInv'
  <2>1. Good(e)'
    BY <1>1, <1>4, <1>7 DEF Good, Sound, Due
  <2>2. CacheInv' /\ LruInv'
    BY <1>1, <1>3, <1>4, <1>5, <1>7, <2>1, PutKeeps
  <2>3. TypeInv'
    BY <1>1, <1>2, <1>7 DEF TypeInv
  <2> QED  BY <1>7, <2>2, <2>3, Silent DEF UpInv
<1>8. CASE Put(e) /\ Goto(c, "audit", r.token) /\ UNCHANGED event
  <2>1. MintedStays /\ DueStays
    BY <1>1, <1>8, Quiet DEF Goto
  <2>2. call' \in [Calls -> CallRecord] /\ CallsInv'
    BY <1>1, <1>3, <1>8, <2>1, Goes DEF Pc
  <2>3. Due(e.token)'
    <3>1. call'[c].pc = "audit" /\ call'[c].token = r.token
      BY <1>2, <1>8 DEF Goto, TypeInv, CallRecord
    <3> QED  BY <1>4, <3>1 DEF Due
  <2> QED  BY <1>2, <1>7, <1>8, <2>1, <2>2, <2>3 DEF TypeInv, Goto
<1>9. CASE Put(e) /\ Throw(c) /\ event' = [event EXCEPT ![r.token] = "unheard"]
  <2>1. event' \in [Tokens -> {"none", "accepted", "unheard"}] /\ event'[r.token] = "unheard"
    BY <1>2, <1>3, <1>9 DEF TypeInv
  <2>2. \A t \in Tokens : event[t] # "none" => event'[t] # "none"
    BY <1>2, <1>9 DEF TypeInv
  <2>3. DueStays
    BY <1>1, <1>2, <1>9, <2>2, DueMoves DEF Throw
  <2>4. Due(e.token)'
    BY <1>4, <2>1 DEF Due
  <2>5. call' \in [Calls -> CallRecord] /\ CallsInv'
    BY <1>1, <1>5, <1>9, <2>3, Ends DEF Throw
  <2> QED  BY <1>7, <1>9, <2>1, <2>3, <2>4, <2>5 DEF Throw
<1> QED  BY <1>6, <1>8, <1>9 DEF Write

LEMMA AuditKeeps ==
    ASSUME UpInv, NEW c \in Calls, Audit(c)
    PROVE  UpInv'
<1> PICK r : r = call[c]
  OBVIOUS
<1>1. r.pc = "audit" /\ UNCHANGED <<storeHasCache, clock, cache, minted, since>>
  BY DEF Audit
<1>2. r \in CallRecord /\ CallInv(r) /\ TypeInv
  BY DEF UpInv, TypeInv, CallsInv
<1>3. r.token \in Tokens /\ r.key \in Keys
  BY <1>1, <1>2 DEF CallInv, Holding
<1>4. ASSUME NEW h \in {"accepted", "unheard"}, event' = [event EXCEPT ![r.token] = h],
             call' = [call EXCEPT ![c] = Idle]
      PROVE  /\ event' \in [Tokens -> {"none", "accepted", "unheard"}] /\ event'[r.token] = h
             /\ MintedStays /\ DueStays
             /\ call' \in [Calls -> CallRecord] /\ CallsInv'
  <2>1. /\ event' \in [Tokens -> {"none", "accepted", "unheard"}] /\ event'[r.token] = h
        /\ \A t \in Tokens : event[t] # "none" => event'[t] # "none"
    BY <1>2, <1>3, <1>4 DEF TypeInv
  <2>2. MintedStays
    BY <1>1 DEF MintedStays
  <2>3. DueStays
    BY <1>2, <1>4, <2>1, <2>2, DueMoves
  <2> QED  BY <1>1, <1>4, <2>1, <2>2, <2>3, Ends
<1>5. CASE event' = [event EXCEPT ![r.token] = "unheard"] /\ Throw(c)
  <2>1. call' = [call EXCEPT ![c] = Idle]
    BY <1>5 DEF Throw
  <2> QED  BY <1>1, <1>2, <1>4, <1>5, <2>1, Mute DEF TypeInv, Throw
<1>6. ASSUME NEW d \in Nat, event' = [event EXCEPT ![r.token] = "accepted"],
             Return(c, r.key, r.token, d, FALSE)
      PROVE  UpInv'
  <2>0. call' = [call EXCEPT ![c] = Idle]
    BY <1>6 DEF Return
  <2>1. /\ event' \in [Tokens -> {"none", "accepted", "unheard"}] /\ event'[r.token] = "accepted"
        /\ MintedStays /\ DueStays
        /\ call' \in [Calls -> CallRecord] /\ CallsInv'
    BY <1>4, <1>6, <2>0
  <2> PICK a : a = answer'
    OBVIOUS
  <2>2. a = [key |-> r.key, token |-> r.token, until |-> d, at |-> clock, hit |-> FALSE]
    BY <1>6 DEF Return
  <2>3. a \in Answer /\ a.token = r.token /\ a.hit = FALSE
    BY <1>2, <1>3, <2>2, TimeAssumption DEF Answer, TypeInv
  <2>4. HitUseful' /\ ExchangeReported'
    BY <2>1, <2>3 DEF HitUseful, ExchangeReported
  <2>5. CacheInv' /\ LruInv'
    BY <1>1, <2>1, CacheStays
  <2>6. TypeInv'
    BY <1>1, <1>2, <2>1, <2>3 DEF TypeInv
  <2> QED  BY <2>1, <2>4, <2>5, <2>6 DEF UpInv
<1>7. PICK dies : dies = minted[r.token].dies
  OBVIOUS
<1>8. dies \in Nat /\ r.now + Ceiling \in Nat
  BY <1>2, <1>3, <1>7, TimeAssumption DEF TypeInv, CallRecord
<1>9. (IF dies = Never THEN r.now + Ceiling ELSE dies) \in Nat
  BY <1>8
<1>10. \/ event' = [event EXCEPT ![r.token] = "unheard"] /\ Throw(c)
       \/ /\ event' = [event EXCEPT ![r.token] = "accepted"]
          /\ Return(c, r.key, r.token, IF dies = Never THEN r.now + Ceiling ELSE dies, FALSE)
  BY <1>7 DEF Audit, HandOver, Refused
<1> QED  BY <1>5, <1>6, <1>9, <1>10

LEMMA RejectAuditKeeps ==
    ASSUME UpInv, NEW c \in Calls, RejectAudit(c)
    PROVE  UpInv'
<1>1. /\ call[c].pc = "rejected" /\ Throw(c)
      /\ UNCHANGED <<storeHasCache, clock, cache, minted, event, since>>
  BY DEF RejectAudit
<1>2. MintedStays /\ DueStays
  BY <1>1, Quiet DEF Throw
<1>3. call' \in [Calls -> CallRecord] /\ CallsInv'
  BY <1>1, <1>2, Ends DEF Throw
<1> QED  BY <1>1, <1>2, <1>3, Mute DEF UpInv, TypeInv, Throw

LEMMA TickKeeps == UpInv /\ Tick => UpInv'
<1> SUFFICES ASSUME UpInv, Tick  PROVE UpInv'
  OBVIOUS
<1>1. /\ clock \in Nat /\ clock' \in 0..MaxTime /\ clock' \in Nat /\ clock' >= clock
      /\ answer' = None /\ UNCHANGED <<storeHasCache, cache, call, minted, event, since>>
  BY TimeAssumption DEF Tick, UpInv, TypeInv
<1>2. MintedStays /\ DueStays
  BY <1>1 DEF MintedStays, DueStays, Due
<1>3. CallsInv'
  <2>1. ASSUME NEW c \in Calls  PROVE CallInv(call[c])'
    <3> PICK q : q = call[c]
      OBVIOUS
    <3>1. q \in CallRecord /\ CallInv(q) /\ TypeInv
      BY DEF UpInv, TypeInv, CallsInv
    <3>2. CallInv(q)'
      BY <1>1, <1>2, <3>1, CallStays
    <3> QED  BY <1>1, <3>2 DEF CallInv, Holding, Good, Sound, Due
  <2> QED  BY <2>1 DEF CallsInv
<1>4. CacheInv' /\ LruInv'
  BY <1>1, <1>2, CacheStays
<1>5. TypeInv'
  BY <1>1 DEF UpInv, TypeInv
<1> QED  BY <1>1, <1>3, <1>4, <1>5, Silent DEF UpInv

LEMMA RestartKeeps == UpInv /\ Restart => UpInv'
<1> SUFFICES ASSUME UpInv, Restart  PROVE UpInv'
  OBVIOUS
<1>1. /\ call' = [c \in Calls |-> Idle] /\ answer' = None
      /\ cache' = (IF storeHasCache THEN cache ELSE <<>>)
      /\ since' = <<>> /\ UNCHANGED <<storeHasCache, clock, minted>>
  BY DEF Restart
<1>2. \A t \in Tokens :
        event'[t] = IF \E c \in Calls : call[c].pc = "audit" /\ call[c].token = t
                    THEN "unheard" ELSE event[t]
  BY DEF Restart
<1>3. event' \in [Tokens -> {"none", "accepted", "unheard"}]
  BY DEF Restart, UpInv, TypeInv
<1>4. MintedStays /\ DueStays
  BY <1>1, <1>2 DEF MintedStays, DueStays, Due
<1>5. call' \in [Calls -> CallRecord] /\ CallsInv'
  <2> PICK q : q = Idle
    OBVIOUS
  <2>1. q \in CallRecord /\ q.pc = "idle" /\ q.now = 0 /\ q.found = {}
    BY TimeAssumption DEF Idle, CallRecord, Pc
  <2>2. clock' \in Nat
    BY <1>1, TimeAssumption DEF UpInv, TypeInv
  <2>3. CallInv(q)'
    BY <2>1, <2>2 DEF CallInv, Holding
  <2>4. \A c \in Calls : call'[c] = q
    BY <1>1
  <2>5. \A c \in Calls : CallInv(call[c])'
    BY <2>3, <2>4 DEF CallInv, Holding, Good, Sound, Due
  <2> QED  BY <1>1, <2>1, <2>5 DEF CallsInv
<1>6. LruInv'
  <2>1. DOMAIN since' = {}
    BY <1>1
  <2>2. Uses(since')
    BY <2>1 DEF Uses
  <2>3. ASSUME ~storeHasCache  PROVE LruInv'
    <3>1. cache' = <<>> /\ Len(<<>>) = 0 /\ 1..0 = {}
      BY <1>1, <2>3
    <3>2. Len(<<>>) <= Capacity
      BY <3>1, CapacityAssumption
    <3>3. Lru(<<>>, since')
      BY <2>1, <3>1 DEF Lru, InUse, Ordered, Passed
    <3> PICK u : u = since'
      OBVIOUS
    <3> QED  BY <2>2, <3>1, <3>2, <3>3, LruIs
  <2>4. ASSUME storeHasCache  PROVE LruInv'
    BY <1>1, <2>2, <2>4 DEF LruInv, Uses
  <2> QED  BY <2>3, <2>4
<1>7. CacheInv'
  <2>1. CASE storeHasCache
    <3>1. cache' = cache
      BY <1>1, <2>1
    <3>2. \A i \in 1..Len(cache) : Good(cache[i])'
      <4>1. ASSUME NEW i \in 1..Len(cache)  PROVE Good(cache[i])'
        <5> PICK e : e = cache[i]
          OBVIOUS
        <5>1. e \in Credential /\ Good(e)
          BY ElementOfSeq DEF UpInv, CacheInv
        <5>2. Good(e)'
          BY <1>4, <5>1, GoodStays DEF UpInv
        <5> QED  BY <3>1, <5>2 DEF Good, Sound, Due
      <4> QED  BY <4>1
    <3> QED  BY <3>1, <3>2 DEF UpInv, CacheInv, Distinct
  <2>2. CASE ~storeHasCache
    <3>1. cache' = <<>> /\ Len(cache') = 0 /\ 1..0 = {}
      BY <1>1, <2>2
    <3> QED  BY <3>1 DEF CacheInv, Distinct
  <2> QED  BY <2>1, <2>2
<1>8. TypeInv'
  BY <1>1, <1>3, <1>5 DEF UpInv, TypeInv
<1> QED  BY <1>1, <1>5, <1>6, <1>7, <1>8, Silent DEF UpInv

LEMMA UpInvInit == Init => UpInv
<1> SUFFICES ASSUME Init  PROVE UpInv
  OBVIOUS
<1>1. /\ storeHasCache \in BOOLEAN /\ clock = 0 /\ cache = <<>> /\ call = [c \in Calls |-> Idle]
      /\ minted = [t \in Tokens |-> Unminted] /\ event = [t \in Tokens |-> "none"]
      /\ answer = None /\ since = <<>>
  BY DEF Init
<1>2. \A c \in Calls : call[c] \in CallRecord /\ CallInv(call[c])
  <2>1. Idle \in CallRecord /\ Idle.pc = "idle" /\ Idle.now = 0 /\ Idle.found = {}
    BY TimeAssumption DEF Idle, CallRecord, Pc
  <2>2. ASSUME NEW c \in Calls  PROVE call[c] \in CallRecord /\ CallInv(call[c])
    <3>1. call[c] = Idle
      BY <1>1
    <3> QED  BY <1>1, <2>1, <3>1 DEF CallInv, Holding
  <2> QED  BY <2>2
<1>3. TypeInv
  <2>1. call \in [Calls -> CallRecord]
    BY <1>1, <1>2
  <2>2. Unminted \in [key: Keys \cup {None}, born: Nat, dies: Nat]
    BY DEF Unminted
  <2>3. minted \in [Tokens -> [key: Keys \cup {None}, born: Nat, dies: Nat]]
    BY <1>1, <2>2
  <2>4. clock \in 0..MaxTime /\ event \in [Tokens -> {"none", "accepted", "unheard"}]
    BY <1>1, TimeAssumption
  <2> QED  BY <1>1, <2>1, <2>3, <2>4 DEF TypeInv
<1>4. Len(cache) = 0 /\ 1..0 = {} /\ DOMAIN since = {}
  BY <1>1
<1>5. CacheInv
  BY <1>1, <1>4 DEF CacheInv, Distinct
<1>6. LruInv
  <2>1. Len(cache) <= Capacity
    BY <1>4, CapacityAssumption
  <2> QED  BY <1>4, <2>1 DEF LruInv, Uses, Lru, InUse, Ordered, Passed
<1>7. CallsInv
  BY <1>2 DEF CallsInv
<1> QED  BY <1>1, <1>3, <1>5, <1>6, <1>7 DEF UpInv, HitUseful, ExchangeReported

LEMMA UpInvStutter == UpInv /\ UNCHANGED vars => UpInv'
BY DEF UpInv, vars, TypeInv, CacheInv, LruInv, Lru, Uses, InUse, Ordered, Passed, CallsInv, CallInv,
       Holding, Distinct, Good, Sound, Due, HitUseful, ExchangeReported

LEMMA UpInvNext == UpInv /\ [Next]_vars => UpInv'
<1>1. ASSUME UpInv, NEW c \in Calls, Step(c)  PROVE UpInv'
  BY <1>1, SelectKeeps, ReplyKeeps, ExchangeKeeps, ValidateKeeps, WriteKeeps, AuditKeeps,
     RejectAuditKeeps DEF Step
<1>2. UpInv /\ Next => UpInv'
  BY <1>1, UpstreamForKeeps, TickKeeps, RestartKeeps DEF Next
<1> QED  BY <1>2, UpInvStutter

\* Type, cache, order of use and the tokens calls hold: inductive together.
THEOREM UpstreamInvariance == Spec => []UpInv
<1> QED  BY UpInvInit, UpInvNext, PTL DEF Spec

\* Every variable keeps its type, and the LRU its capacity and one entry per key
\* (LruCache).
THEOREM UpstreamTypeCorrect == Spec => []TypeOK
<1>1. UpInv => TypeOK
  <2> SUFFICES ASSUME UpInv  PROVE TypeOK
    OBVIOUS
  <2>1. TypeInv /\ cache \in Seq(Credential) /\ Distinct(cache) /\ DOMAIN cache = 1..Len(cache)
    BY LenProperties DEF UpInv, CacheInv
  <2>2. \A i, j \in DOMAIN cache : cache[i].key = cache[j].key => i = j
    BY <2>1 DEF Distinct
  <2>3. ~storeHasCache => Len(cache) <= Capacity
    BY DEF UpInv, LruInv
  <2>4. ASSUME NEW c \in Calls
        PROVE  /\ call[c].pc \in Pc /\ call[c].now \in 0..clock
               /\ call[c].key \in Keys \cup {None} /\ call[c].token \in Tokens \cup {None}
               /\ call[c].found \subseteq Credential
    <3>1. call[c] \in CallRecord /\ call[c].now <= clock /\ clock \in 0..MaxTime
      BY DEF UpInv, TypeInv, CallsInv, CallInv
    <3> QED  BY <3>1, TimeAssumption DEF CallRecord
  <2>5. DOMAIN since \subseteq Keys /\ \A k \in DOMAIN since : since[k] \subseteq Keys \ {k}
    BY DEF UpInv, LruInv, Uses
  <2> QED  BY <2>1, <2>2, <2>3, <2>4, <2>5 DEF TypeOK, TypeInv
<1> QED  BY <1>1, UpstreamInvariance, PTL

\* A credential out of the cache is the caller's, has the headroom left and is
\* within the ceiling, however slow the store was: its expiry was computed from
\* a clock read before its token came.
THEOREM HitsAreUseful == Spec => []HitUseful
<1>1. UpInv => HitUseful
  BY DEF UpInv
<1> QED  BY <1>1, UpstreamInvariance, PTL

\* What a call hands out after its own exchange, the hook accepted; what it hands
\* out of the cache was reported or will be, short of a crash or a lost reply: an
\* entry never stands in the cache without its event sent, given up, or due by
\* the call that wrote it.
THEOREM ExchangesAreReported == Spec => []ExchangeReported
<1>1. UpInv => ExchangeReported
  BY DEF UpInv
<1> QED  BY <1>1, UpstreamInvariance, PTL

\* A key in use that the LRU no longer has was passed by Capacity others: the
\* entries stand in the order of their last use, so the one evicted is the one
\* all the others passed.
THEOREM RecentlyUsedIsKept == Spec => []RecentlyUsedKept
<1>1. UpInv => RecentlyUsedKept
  <2> SUFFICES ASSUME UpInv, ~storeHasCache, NEW k \in DOMAIN since,
                      Cardinality(since[k]) < Capacity, k \notin CachedKeys
               PROVE  FALSE
    BY DEF RecentlyUsedKept
  <2>1. \A i \in 1..Len(cache) : cache[i].key # k
    BY LenProperties DEF UpInv, CacheInv, CachedKeys
  <2>2. Cardinality(since[k]) >= Capacity /\ IsFiniteSet(since[k])
    BY <2>1 DEF UpInv, LruInv, Lru, Passed, Uses
  <2>3. Cardinality(since[k]) \in Nat
    BY <2>2, FS_CardinalityType
  <2> QED  BY <2>2, <2>3, CapacityAssumption
<1> QED  BY <1>1, UpstreamInvariance, PTL
=============================================================================
