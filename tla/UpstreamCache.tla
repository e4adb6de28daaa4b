---------------------------- MODULE UpstreamCache ----------------------------
(***************************************************************************)
(* createUpstreamFor: cached token exchange for tool handlers, over the    *)
(* credential cache of a token store or the fallback LRU of the process.   *)
(*                                                                         *)
(* A call stands at one of its awaits (pc); whatever else runs meanwhile   *)
(* may come first.  The clock a call compares with is the one it read at   *)
(* its start, and the store's own expiry test reads the clock again.  A    *)
(* call without an OAuth subject token or issuer throws before any of      *)
(* this.  A key is the tuple computeCacheKey hashes.                       *)
(***************************************************************************)
EXTENDS Integers, Sequences, FiniteSets

CONSTANTS
    Keys,         \* cache keys
    Tokens,       \* tokens the authorization server may mint (bounds the model)
    Calls,        \* concurrent calls
    Capacity,     \* UPSTREAM_LRU_CAPACITY
    Ceiling,      \* UPSTREAM_CACHE_TTL_CEILING_SECONDS
    Headroom,     \* UPSTREAM_CACHE_TTL_HEADROOM_SECONDS
    Lifetimes,    \* values of expires_in
    MaxTime,      \* the clock stops here (bounds the model)
    StoreFaults,  \* TRUE when store calls may fail or lose their reply
    None          \* no key, no token, no answer

ASSUME CapacityAssumption == Capacity \in Nat \ {0}
ASSUME TimeAssumption ==
    /\ Ceiling \in Nat /\ Headroom \in 0..Ceiling /\ MaxTime \in Nat
    /\ Lifetimes \subseteq 0..Ceiling  \* longer ones are as good as Never
ASSUME FaultAssumption == StoreFaults \in BOOLEAN
ASSUME NoneAssumption == None \notin Keys /\ None \notin Tokens

VARIABLES
    storeHasCache,  \* does the store have the optional cache methods
    clock,
    cache,   \* the cached credentials, the one to evict first at the head
    call,    \* per call: the await it stands at and its locals
    minted,  \* per token: the key it was minted for, when it came and when it dies
    event,   \* per token: its upstream.exchange event: none yet, accepted by the
             \* hook, or unheard (the hook refused it, or it was never sent)
    answer,  \* the credential the last step handed to its caller
    since    \* per key used and not dropped: the other keys used in the LRU since

vars == <<storeHasCache, clock, cache, call, minted, event, answer, since>>

\* The expiry of a token without expires_in: later than any of the model.
Never == MaxTime + Ceiling + 1

Credential == [key: Keys, token: Tokens, until: Nat]

Idle == [pc |-> "idle", key |-> None, now |-> 0, found |-> {}, token |-> None]

Unminted == [key |-> None, born |-> 0, dies |-> 0]

Pc == {"idle", "select", "reply", "exchange", "validate", "write", "audit", "rejected"}

Answer == [key: Keys, token: Tokens, until: Nat, at: Nat, hit: BOOLEAN]

CachedKeys == {cache[i].key : i \in DOMAIN cache}

TypeOK ==
    /\ storeHasCache \in BOOLEAN /\ clock \in 0..MaxTime
    /\ cache \in Seq(Credential)
    /\ \A i, j \in DOMAIN cache : cache[i].key = cache[j].key => i = j
    /\ ~storeHasCache => Len(cache) <= Capacity
    /\ \A c \in Calls :
         /\ call[c].pc \in Pc /\ call[c].now \in 0..clock
         /\ call[c].key \in Keys \cup {None} /\ call[c].token \in Tokens \cup {None}
         /\ call[c].found \subseteq Credential
    /\ minted \in [Tokens -> [key: Keys \cup {None}, born: Nat, dies: Nat]]
    /\ event \in [Tokens -> {"none", "accepted", "unheard"}]
    /\ answer = None \/ answer \in Answer
    /\ DOMAIN since \subseteq Keys /\ \A k \in DOMAIN since : since[k] \subseteq Keys \ {k}

Init ==
    /\ storeHasCache \in BOOLEAN
    /\ clock = 0 /\ cache = <<>>
    /\ call = [c \in Calls |-> Idle]
    /\ minted = [t \in Tokens |-> Unminted] /\ event = [t \in Tokens |-> "none"]
    /\ answer = None
    /\ since = <<>>
-----------------------------------------------------------------------------
(* The cache: a Map in insertion order (LruCache), or a table              *)

\* The entry of k: no other has its key.
Found(k) == {cache[i] : i \in {j \in DOMAIN cache : cache[j].key = k}}

Removed(i) == [j \in 1..Len(cache) - 1 |-> IF j < i THEN cache[j] ELSE cache[j + 1]]

Without(k) == IF k \in CachedKeys THEN Removed(CHOOSE i \in DOMAIN cache : cache[i].key = k)
              ELSE cache

\* Mutant: a hit does not become the most recently used entry.
Touched_Not(e) == cache

\* LruCache.get re-inserts what it finds.
Touched(e) == Append(Without(e.key), e)

Evicted(s) == IF ~storeHasCache /\ Len(s) > Capacity THEN Tail(s) ELSE s

\* LruCache.set, or the upsert of a store.
Put(e) == cache' = Evicted(Append(Without(e.key), e))

\* History of uses, for the LRU property.
Used(k) == since' = [j \in DOMAIN since \cup {k} |-> IF j = k THEN {} ELSE since[j] \cup {k}]
Dropped(k) == since' = [j \in DOMAIN since \ {k} |-> since[j]]
-----------------------------------------------------------------------------
(* One call of upstreamFor(audience)                                       *)

\* The call goes on to its next await.
Goto(c, l, t) ==
    /\ call' = [call EXCEPT ![c] = [@ EXCEPT !.pc = l, !.token = t, !.found = {}]]
    /\ answer' = None

Start(c, k, l) ==
    /\ call' = [call EXCEPT ![c] = [Idle EXCEPT !.pc = l, !.key = k, !.now = clock]]
    /\ answer' = None

\* The call throws.
Throw(c) == call' = [call EXCEPT ![c] = Idle] /\ answer' = None

\* The call returns a credential.
Return(c, k, t, until, hit) ==
    /\ call' = [call EXCEPT ![c] = Idle]
    /\ answer' = [key |-> k, token |-> t, until |-> until, at |-> clock, hit |-> hit]

\* readCache on the LRU, in the turn the call started: get, and delete what
\* expired.
ReadLru(c, k) ==
    \/ /\ Found(k) = {}
       /\ Start(c, k, "exchange") /\ UNCHANGED <<cache, since>>
    \/ \E e \in Found(k) :
          /\ e.until <= clock
          /\ cache' = Without(k) /\ Dropped(k)
          /\ Start(c, k, "exchange")
    \/ \E e \in Found(k) :
          /\ e.until > clock
          /\ cache' = Touched(e) /\ Used(k)
          /\ Return(c, k, e.token, e.until, TRUE)

UpstreamFor(c, k) ==
    /\ call[c].pc = "idle"
    /\ UNCHANGED <<storeHasCache, clock, minted, event>>
    /\ \/ ~storeHasCache /\ ReadLru(c, k)
       \/ storeHasCache /\ Start(c, k, "select") /\ UNCHANGED <<cache, since>>

\* findUpstreamCredential reads the row.
Select(c) ==
    /\ call[c].pc = "select"
    /\ \/ /\ call' = [call EXCEPT ![c].pc = "reply", ![c].found = Found(call[c].key)]
          /\ answer' = None
       \/ StoreFaults /\ Throw(c)
    /\ UNCHANGED <<storeHasCache, clock, cache, minted, event, since>>

\* Mutant: only the clock the call read at its start counts.
StillGood_Early(e, now) == e.until > now

\* The store looks at the clock when the row arrives, readCache at the one of
\* the call's start.
StillGood(e, now) == e.until > clock /\ e.until > now

Reply(c) ==
    LET r == call[c]
        good == {e \in r.found : StillGood(e, r.now)}
    IN
    /\ r.pc = "reply"
    /\ UNCHANGED <<storeHasCache, clock, cache, minted, event, since>>
    /\ \/ \E e \in good : Return(c, r.key, e.token, e.until, TRUE)
       \/ good = {} /\ Goto(c, "exchange", None)

\* exchangeToken up to the server's answer: expires_in counts from its arrival.
Exchange(c) ==
    /\ call[c].pc = "exchange"
    /\ \/ \E t \in Tokens, dies \in {clock + l : l \in Lifetimes} \cup {Never} :
            /\ minted[t] = Unminted
            /\ minted' = [minted EXCEPT ![t] = [key |-> call[c].key, born |-> clock, dies |-> dies]]
            /\ Goto(c, "validate", t)
       \/ Goto(c, "rejected", None) /\ UNCHANGED minted
    /\ UNCHANGED <<storeHasCache, clock, cache, event, since>>

\* computeCacheExpiry.
CacheExpiry(now, dies) == (IF dies < now + Ceiling THEN dies ELSE now + Ceiling) - Headroom

\* validateAudience answered: the LRU is written at once, a store with an await.
Validate(c) ==
    LET r == call[c]
        until == CacheExpiry(r.now, minted[r.token].dies)
    IN
    /\ r.pc = "validate"
    /\ UNCHANGED <<storeHasCache, clock, minted, event>>
    /\ \/ until > r.now /\ ~storeHasCache
          /\ Put([key |-> r.key, token |-> r.token, until |-> until]) /\ Used(r.key)
          /\ Goto(c, "audit", r.token)
       \/ until > r.now /\ storeHasCache /\ Goto(c, "write", r.token) /\ UNCHANGED <<cache, since>>
       \/ until <= r.now /\ Goto(c, "audit", r.token) /\ UNCHANGED <<cache, since>>
       \/ Goto(c, "rejected", None) /\ UNCHANGED <<cache, since>>

\* cacheUpstreamCredential: may fail, or take effect and lose its reply.
Write(c) ==
    LET r == call[c]
        entry == [key |-> r.key, token |-> r.token,
                  until |-> CacheExpiry(r.now, minted[r.token].dies)]
    IN
    /\ r.pc = "write"
    /\ \/ Put(entry) /\ Goto(c, "audit", r.token) /\ UNCHANGED event
       \/ StoreFaults /\ Throw(c) /\ UNCHANGED <<cache, event>>
       \/ /\ StoreFaults /\ Put(entry) /\ Throw(c)
          /\ event' = [event EXCEPT ![r.token] = "unheard"]
    /\ UNCHANGED <<storeHasCache, clock, minted, since>>

\* The call returns the token it had minted.
HandOver(c) ==
    LET r == call[c]
        dies == minted[r.token].dies
    IN Return(c, r.key, r.token, IF dies = Never THEN r.now + Ceiling ELSE dies, FALSE)

\* Mutant: what the hook throws is swallowed.
Refused_Swallowed(c) == HandOver(c)

\* When the hook throws, so does the call.
Refused(c) == Throw(c)

\* dispatchAudit(upstream.exchange), and what the call cached stays either way.
Audit(c) ==
    LET t == call[c].token IN
    /\ call[c].pc = "audit"
    /\ \/ event' = [event EXCEPT ![t] = "accepted"] /\ HandOver(c)
       \/ event' = [event EXCEPT ![t] = "unheard"] /\ Refused(c)
    /\ UNCHANGED <<storeHasCache, clock, cache, minted, since>>

\* dispatchAudit(upstream.exchange_reject), then the error of the exchange.
RejectAudit(c) ==
    /\ call[c].pc = "rejected"
    /\ Throw(c)
    /\ UNCHANGED <<storeHasCache, clock, cache, minted, event, since>>
-----------------------------------------------------------------------------
Tick ==
    /\ clock < MaxTime
    /\ clock' = clock + 1 /\ answer' = None
    /\ UNCHANGED <<storeHasCache, cache, call, minted, event, since>>

\* The process restarts: calls and the LRU are gone, a store stays; events that
\* were due are never sent.
Restart ==
    /\ call' = [c \in Calls |-> Idle] /\ answer' = None
    /\ cache' = IF storeHasCache THEN cache ELSE <<>>
    /\ since' = <<>>
    /\ event' = [t \in Tokens |->
         IF \E c \in Calls : call[c].pc = "audit" /\ call[c].token = t THEN "unheard" ELSE event[t]]
    /\ UNCHANGED <<storeHasCache, clock, minted>>

Step(c) == Select(c) \/ Reply(c) \/ Exchange(c) \/ Validate(c) \/ Write(c) \/ Audit(c) \/ RejectAudit(c)

Next ==
    \/ \E c \in Calls, k \in Keys : UpstreamFor(c, k)
    \/ \E c \in Calls : Step(c)
    \/ Tick
    \/ Restart

Spec == Init /\ [][Next]_vars
-----------------------------------------------------------------------------
(* Properties                                                              *)

\* A credential handed out of the cache was minted for the caller's key, has
\* more than the headroom left to live at that moment, is not older than the
\* ceiling allows, and dies no sooner than the caller is told (v0.2 8.1, the
\* promise at the head of upstream/index.ts), however slow the store was.
HitUseful ==
    answer # None /\ answer.hit =>
        LET m == minted[answer.token]
        IN /\ m.key = answer.key
           /\ m.dies > answer.at + Headroom
           /\ m.born + Ceiling > answer.at + Headroom
           /\ answer.until + Headroom <= m.dies

\* A credential the caller's own exchange minted was accepted by the audit hook
\* (v0.1 12: an exception of the hook aborts the operation).  One out of the cache
\* had its event sent, or will have once the call that cached it goes on, unless
\* the process died before, or the reply of the cache write was lost (v0.2 8.2:
\* one event per successful exchange).  The hook may have refused that event: the
\* call that exchanged has thrown, and the credential it cached stays.
ExchangeReported ==
    answer # None =>
        LET t == answer.token
        IN \/ event[t] = "accepted"
           \/ /\ answer.hit
              /\ \/ event[t] # "none"
                 \/ \E c \in Calls : call[c].pc = "audit" /\ call[c].token = t

\* The LRU forgets a key only when Capacity other keys were used after it,
\* when its entry expired, or at a restart (LruCache).
RecentlyUsedKept ==
    ~storeHasCache => \A k \in DOMAIN since : Cardinality(since[k]) < Capacity => k \in CachedKeys
=============================================================================
