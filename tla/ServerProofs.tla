---------------------------- MODULE ServerProofs ----------------------------
(***************************************************************************)
(* Proofs about Scopes and Server, for any tenants, paths, scopes and      *)
(* number of requests.                                                     *)
(*                                                                         *)
(* The matcher first: its recursive functions say what its documentation   *)
(* says, for scopes of any length, because the first position at which a   *)
(* walk stops exists and decides it.  Then the requests: the invariant     *)
(* says, for each place in a handler, which checks its request has passed, *)
(* what the answer to be audited says, and which connections and resolvers *)
(* were already used.                                                      *)
(***************************************************************************)
EXTENDS Server, FiniteSetTheorems, SequenceTheorems, TLAPS

\* A set of numbers that is not empty has a least member: if none were least,
\* the numbers up to some member and no less than another could all be moved
\* down by one, into one place less.
LEMMA LeastMember ==
  ASSUME NEW T \in SUBSET Nat, T # {}
  PROVE  \E m \in T : \A k \in T : m <= k
<1> SUFFICES ASSUME \A m \in T : \E k \in T : k < m  PROVE FALSE
  OBVIOUS
<1> PICK n \in T : TRUE
  OBVIOUS
<1> DEFINE S == {x \in 0..n : \E t \in T : t <= x}
<1>1. n \in S /\ IsFiniteSet(S) /\ IsFiniteSet(S \ {n})
  <2>1. n \in S /\ S \in SUBSET (0..n)
    OBVIOUS
  <2>2. IsFiniteSet(0..n)
    BY FS_Interval
  <2> HIDE DEF S
  <2>3. IsFiniteSet(S)
    BY <2>1, <2>2, FS_Subset
  <2> QED  BY <2>1, <2>3, FS_RemoveElement
<1>2. ASSUME NEW x \in S  PROVE x - 1 \in S \ {n}
  <2>1. PICK t \in T : t < x
    OBVIOUS
  <2> QED  BY <2>1
<1>3. [x \in S |-> x - 1] \in [S -> S \ {n}]
  BY <1>2
<1>4. Cardinality(S \ {n}) < Cardinality(S)
  <2>1. Cardinality(S) \in Nat
    BY <1>1, FS_CardinalityType
  <2> HIDE DEF S
  <2>2. Cardinality(S \ {n}) = Cardinality(S) - 1
    BY <1>1, FS_RemoveElement
  <2> QED  BY <2>1, <2>2
<1>5. PICK x, y \in S : x # y /\ [z \in S |-> z - 1][x] = [z \in S |-> z - 1][y]
  <2> DEFINE D == S \ {n}
             f == [z \in S |-> z - 1]
  <2>1. f \in [S -> D] /\ IsFiniteSet(D) /\ Cardinality(D) < Cardinality(S) /\ IsFiniteSet(S)
    BY <1>1, <1>3, <1>4
  <2>2. \E x, y \in S : x # y /\ f[x] = f[y]
    <3> HIDE DEF S, D, f
    <3> QED  BY <2>1, FS_PigeonHole
  <2> QED  BY <2>2
<1> QED
  <2>1. x \in Nat /\ y \in Nat
    OBVIOUS
  <2> QED  BY <1>5, <2>1

\* Downward over the positions 1..n + 1 of a walk.
LEMMA DownwardFrom ==
  ASSUME NEW n \in Nat, NEW F \in SUBSET (1..n + 1), n + 1 \in F,
         \A i \in 1..n : i + 1 \in F => i \in F
  PROVE  \A i \in 1..n + 1 : i \in F
<1> DEFINE T == {j \in 0..n : n + 1 - j \notin F}
<1> SUFFICES ASSUME T # {}  PROVE FALSE
  <2>1. ASSUME NEW i \in 1..n + 1, i \notin F  PROVE FALSE
    <3>1. n + 1 - i \in T
      BY <2>1
    <3> QED  BY <3>1
  <2> QED  BY <2>1
<1>1. PICK m \in T : \A k \in T : m <= k
  <2>1. T \in SUBSET Nat
    OBVIOUS
  <2> HIDE DEF T
  <2> QED  BY <2>1, LeastMember
<1>2. m # 0 /\ m - 1 \notin T
  BY <1>1
<1>3. n + 1 - (m - 1) \in F
  BY <1>2
<1> QED  BY <1>3

\* What position i of the walk comes to when the rest of it comes to rest.
WalkStep(required, held, i, rest) ==
    IF i > Len(held) THEN Len(required) = Len(held)
    ELSE IF WildcardAt(i) /\ held[i] = Many /\ i = Len(held)
         THEN Len(required) >= i
    ELSE /\ i <= Len(required)
         /\ held[i] # required[i] => WildcardAt(i) /\ held[i] = One
         /\ rest

\* One unfolding of the walk's recursive function.
WalkBody(required, held, f) ==
    [i \in 1..Len(held) + 1 |-> WalkStep(required, held, i, f[i + 1])]

LEMMA WalkIs ==
  ASSUME NEW required, NEW held
  PROVE  WalkMatch(required, held) = (CHOOSE f : f = WalkBody(required, held, f))[1]
  BY Zenon DEF WalkMatch, WalkBody, WalkStep

\* What the walk finds from position i on: what Grants says from there.
Open(held) == Len(held) >= FirstWildcardPosition /\ held[Len(held)] = Many
Fixed(held) == IF Open(held) THEN Len(held) - 1 ELSE Len(held)
GrantsFrom(required, held, i) ==
    IF i > Len(held) THEN Len(required) = Len(held)
    ELSE /\ IF Open(held) THEN Len(required) > Fixed(held) ELSE Len(required) = Fixed(held)
         /\ \A k \in i..Fixed(held) : \/ held[k] = required[k]
                                      \/ held[k] = One /\ k > 2

\* Both are truth values.
LEMMA TruthValues ==
  ASSUME NEW required, NEW held, NEW i, NEW rest
  PROVE  /\ GrantsFrom(required, held, i) \in BOOLEAN
         /\ WalkStep(required, held, i, rest) \in BOOLEAN
<1>1. GrantsFrom(required, held, i) \in BOOLEAN
  BY Zenon DEF GrantsFrom
<1>2. WalkStep(required, held, i, rest) \in BOOLEAN
  <2>1. CASE i > Len(held)
    BY <2>1, Zenon DEF WalkStep
  <2>2. CASE ~(i > Len(held)) /\ WildcardAt(i) /\ held[i] = Many /\ i = Len(held)
    <3>1. (Len(required) >= i) \in BOOLEAN
      BY SMT
    <3> QED  BY <2>2, <3>1, Zenon DEF WalkStep
  <2>3. CASE ~(i > Len(held)) /\ ~(WildcardAt(i) /\ held[i] = Many /\ i = Len(held))
    BY <2>3, Zenon DEF WalkStep
  <2> QED  BY <2>1, <2>2, <2>3
<1> QED  BY <1>1, <1>2

LEMMA GrantsFromEnd ==
  ASSUME NEW required, NEW held, NEW rest, Len(held) \in Nat
  PROVE  GrantsFrom(required, held, Len(held) + 1) <=>
         WalkStep(required, held, Len(held) + 1, rest)
  BY DEF GrantsFrom, WalkStep

LEMMA GrantsFromStep ==
  ASSUME NEW required, NEW held, Len(required) \in Nat, Len(held) \in Nat,
         NEW i \in 1..Len(held)
  PROVE  GrantsFrom(required, held, i) <=>
         WalkStep(required, held, i, GrantsFrom(required, held, i + 1))
<1> USE DEF Open, Fixed, WildcardAt, FirstWildcardPosition
<1>1. CASE Open(held) /\ i = Len(held)
  BY <1>1 DEF GrantsFrom, WalkStep
<1>2. CASE ~Open(held) /\ i = Len(held)
  BY <1>2 DEF GrantsFrom, WalkStep
<1>3. CASE i < Len(held)
  <2>1. \A k : k \in i..Fixed(held) <=> k = i \/ k \in i + 1..Fixed(held)
    BY <1>3
  <2>2. GrantsFrom(required, held, i) <=>
          /\ GrantsFrom(required, held, i + 1)
          /\ held[i] = required[i] \/ (held[i] = One /\ i > 2)
    BY <1>3, <2>1 DEF GrantsFrom
  <2>3. GrantsFrom(required, held, i + 1) => i <= Len(required)
    BY <1>3 DEF GrantsFrom
  <2> QED  BY <1>3, <2>2, <2>3 DEF WalkStep
<1> QED  BY <1>1, <1>2, <1>3

LEMMA WalkExists ==
  ASSUME NEW required, NEW held, Len(required) \in Nat, Len(held) \in Nat
  PROVE  \E g : g = WalkBody(required, held, g)
<1> DEFINE n == Len(held)
           g == [i \in 1..n + 1 |-> GrantsFrom(required, held, i)]
<1>1. ASSUME NEW i \in 1..n + 1
      PROVE  GrantsFrom(required, held, i) = WalkStep(required, held, i, g[i + 1])
  <2>1. CASE i = n + 1
    BY <2>1, GrantsFromEnd, TruthValues
  <2>2. CASE i \in 1..n
    <3>1. i + 1 \in 1..n + 1
      BY <2>2
    <3>2. g[i + 1] = GrantsFrom(required, held, i + 1)
      BY <3>1, Zenon
    <3> HIDE DEF g
    <3>3. GrantsFrom(required, held, i) <=> WalkStep(required, held, i, g[i + 1])
      BY <2>2, <3>2, GrantsFromStep, Zenon
    <3> QED  BY <3>3, TruthValues
  <2> QED  BY <2>1, <2>2
<1>2. g = WalkBody(required, held, g)
  BY <1>1 DEF WalkBody
<1> QED  BY <1>2

\* The walk of walkMatch from any position.
LEMMA WalkFinds ==
  ASSUME NEW required, NEW held, Len(required) \in Nat, Len(held) \in Nat,
         NEW f, f = WalkBody(required, held, f)
  PROVE  \A i \in 1..Len(held) + 1 : f[i] = GrantsFrom(required, held, i)
<1> DEFINE n == Len(held)
           F == {i \in 1..n + 1 : f[i] = GrantsFrom(required, held, i)}
<1>1. ASSUME NEW i \in 1..n + 1  PROVE f[i] = WalkStep(required, held, i, f[i + 1])
  BY Zenon DEF WalkBody
<1>2. n + 1 \in F
  <2>1. n + 1 \in 1..n + 1
    OBVIOUS
  <2>2. f[n + 1] = GrantsFrom(required, held, n + 1)
    BY <1>1, <2>1, GrantsFromEnd, TruthValues
  <2> QED  BY <2>1, <2>2
<1>3. ASSUME NEW i \in 1..n, i + 1 \in F  PROVE i \in F
  <2>1. i \in 1..n + 1
    OBVIOUS
  <2>2. f[i + 1] = GrantsFrom(required, held, i + 1)
    BY <1>3
  <2>3. GrantsFrom(required, held, i) <=> WalkStep(required, held, i, f[i + 1])
    BY <2>2, GrantsFromStep, Zenon
  <2>4. f[i] = GrantsFrom(required, held, i)
    BY <1>1, <2>1, <2>3, TruthValues
  <2> QED  BY <2>1, <2>4
<1>4. \A i \in 1..n + 1 : i \in F
  <2>1. F \in SUBSET (1..n + 1)
    BY Zenon
  <2> HIDE DEF F
  <2> QED  BY <1>2, <1>3, <2>1, DownwardFrom
<1> QED  BY <1>4, Zenon

\* walkMatch finds what the documentation of the scope language says a held
\* scope grants, for scopes of any length.
THEOREM MatcherIsDocumented ==
  ASSUME NEW required, NEW held, Len(required) \in Nat, HeldScope(held), Len(held) \in Nat
  PROVE  WalkMatch(required, held) <=> Grants(held, required)
<1>1. PICK f : f = WalkBody(required, held, f) /\ WalkMatch(required, held) = f[1]
  <2> DEFINE f == CHOOSE f : f = WalkBody(required, held, f)
  <2>1. f = WalkBody(required, held, f)
    BY WalkExists, Zenon
  <2>2. WalkMatch(required, held) = f[1]
    BY WalkIs
  <2> QED  BY <2>1, <2>2
<1>2. 1 \in 1..Len(held) + 1
  OBVIOUS
<1>3. f[1] = GrantsFrom(required, held, 1)
  BY <1>1, <1>2, WalkFinds, Zenon
<1>4. GrantsFrom(required, held, 1) <=> Grants(held, required)
  BY DEF GrantsFrom, Grants, HeldScope, Open, Fixed
<1> QED  BY <1>1, <1>3, <1>4, TruthValues

\* What matchesAny finds held is granted by a scope that is held.
LEMMA MatchedIsGranted ==
  ASSUME NEW required, Len(required) \in Nat, RequiredScope(required),
         NEW held, \A s \in held : HeldScope(s) /\ Len(s) \in Nat,
         MatchesAny(required, held)
  PROVE  \E h \in held : Grants(h, required)
<1>1. PICK h \in held : ScopeMatches(required, h)
  BY DEF MatchesAny
<1>2. CASE WalkMatch(required, h)
  BY <1>2, MatcherIsDocumented
<1>3. CASE required = h
  <2>1. h[Len(h)] # Many
    BY <1>3 DEF RequiredScope, Segments
  <2> QED  BY <1>3, <2>1 DEF Grants, FirstWildcardPosition
<1> QED  BY <1>1, <1>2, <1>3 DEF ScopeMatches
-----------------------------------------------------------------------------
(* The inductive invariant.  c is the configuration of the kit, reg the    *)
(* registry of keys.                                                       *)

\* The values a request's fields take.
Statuses == {200, 400, 401, 403, 405, 500, 503}
Handlers == {"mcp", "pats", "direct"}
Gates == [held: SUBSET UNION HeldSets, required: RequiredSeqs \cup {<<>>}, custom: SUBSET {1, 2}]
Req == [pc: Pc, route: Handlers \cup {None, "metadata"}, tenant: Issuers \cup {None},
        token: Token, asked: 0..1, as: As \cup {NoAs}, path: Paths \cup Past \cup {None},
        event: Event, heard: SUBSET Event, gate: Gates, called: BOOLEAN,
        status: Statuses \cup {0}, ended: BOOLEAN]

\* The server a request is held against is its own tenant's, and was asked for
\* at most once.
Tenanted(q, c) ==
    /\ q.as # NoAs => IF c.form = "function" THEN q.route # "direct" /\ q.as.issuer = q.tenant
                      ELSE q.as = c.home
    /\ q.pc = "resolving" => c.form = "function" /\ q.route # "direct"
    /\ q.asked = 0 \/ q.pc = "resolving" \/ q.as # NoAs

\* A validator accepted q's token: a JWT under the keys that are registered
\* for its issuer, or a token that its issuer vouches for.
Validated(q, reg) ==
    /\ q.as # NoAs
    /\ \/ /\ q.path = "jwt" /\ q.token.kind = "jwt" /\ q.token.iss = q.as.issuer
          /\ q.token.key = IF q.route = "direct" THEN q.as.uri ELSE reg[q.as.issuer]
       \/ q.path = "introspection" /\ q.as.issuer \in Introspecting

\* A PAT is looked up only by a kit that has a store.
UsesPat(q, c) == c.pat /\ q.token.kind = "pat"

\* What the pipeline knows of q at each of its awaits, and when it lets q in.
Checked(q, c, reg) ==
    /\ q.pc = "pat" => UsesPat(q, c)
    /\ q.pc = "jwt" => q.as # NoAs /\ q.token.kind = "jwt"
    /\ q.pc = "introspection" => q.as # NoAs /\ q.as.issuer \in Introspecting
    /\ q.pc = "audit" /\ q.event.type = "use" => UsesPat(q, c)
    /\ q.pc = "audit" /\ q.event.type = "validate" => Validated(q, reg)
    /\ q.pc = "audit" /\ q.event.type = "jwtReject" => q.as # NoAs
    /\ q.pc = "audit" => \/ q.event.type \notin {"none", "allow"} /\ q.event = Ev(q.event.type)
                         \/ q.event.type = "allow"
    /\ q.pc = "granted" =>
         \/ q.path = "bypass" /\ c.bypass
         \/ q.path = "static" /\ c.static /\ q.token.kind = "static"
         \/ q.path = "pat" /\ UsesPat(q, c) /\ Ev("use") \in q.heard
         \/ Validated(q, reg) /\ Ev("validate") \in q.heard

\* At a tool's gate, or past it.
AtGate(q) == (q.pc = "audit" /\ q.event.type \in {"allow", "deny"}) \/ q.pc = "running"

\* A tool past its gate: every scope it requires is satisfied, and the hook
\* took the allow events up to the one that is dispatched.
Gated(q) ==
    /\ q.pc = "running" => Stops(q.gate) = {}
    /\ q.pc = "audit" /\ q.event.type = "allow" => Stops(q.gate) = {}
    /\ q.pc = "running" => \A n \in 1..Len(q.gate.required) : Allow(n) \in q.heard
    /\ q.pc = "audit" /\ q.event.type = "allow" =>
         /\ q.event.n \in 1..Len(q.gate.required)
         /\ \A n \in 1..q.event.n - 1 : Allow(n) \in q.heard

\* The answer of q, as far as it was written.
Written(q) ==
    /\ q.pc \notin {"idle", "done"} => q.route \in Handlers
    /\ q.pc = "rejected" => q.route = "pats"
    /\ q.status # 0 => q.pc \in {"transport", "done"}
    /\ q.pc \in {"connecting", "transport", "managing"} => q.path \in Past
    /\ AtGate(q) => q.path \in Past
    /\ q.pc = "transport" => q.status \in {0, 200}
    /\ q.status = 200 => q.path # None
    /\ q.ended => q.pc = "done" /\ q.status # 0

Sound(q, c, reg) == Tenanted(q, c) /\ Checked(q, c, reg) /\ Gated(q) /\ Written(q)

\* A JWT is validated under registered keys.
Registered(q, reg) == q.pc = "jwt" /\ q.route # "direct" => reg[q.as.issuer] # None

KitInv ==
    /\ kit \in [status: {"none", "refused", "up"}, config: Offered \cup {None}]
    /\ kit.status = "up" => C \in Offered /\ ~UnsafeBypass(C) /\ ~UnsafeStdio(C)
    /\ kit.status # "up" => rq = [r \in Requests |-> Idle]

\* A connect is in flight exactly while the promise is pending.
TransportInv ==
    \/ transport = [promise |-> "pending", inFlight |-> 1]
    \/ \E p \in {"none", "fulfilled"} : transport = [promise |-> p, inFlight |-> 0]

RequestsInv ==
    /\ rq \in [Requests -> Req]
    /\ registry \in [Issuers -> Uris \cup {None}]
    /\ \A r \in Requests : Sound(rq[r], C, registry) /\ Registered(rq[r], registry)

ServerInv == KitInv /\ RequestsInv /\ TransportInv

\* A request that may be in the map of requests.
Good(q) == q \in Req /\ Sound(q, C, registry)

\* A field of a request may be set to what the field may hold.
LEMMA Updates ==
  ASSUME NEW q \in Req
  PROVE  /\ \A x \in Pc : [q EXCEPT !.pc = x] \in Req
         /\ \A x \in Handlers \cup {None, "metadata"} : [q EXCEPT !.route = x] \in Req
         /\ \A x \in As \cup {NoAs} : [q EXCEPT !.as = x] \in Req
         /\ \A x \in 0..1 : [q EXCEPT !.asked = x] \in Req
         /\ \A x \in Paths \cup Past \cup {None} : [q EXCEPT !.path = x] \in Req
         /\ \A x \in Event : [q EXCEPT !.event = x] \in Req
         /\ \A x \in SUBSET Event : [q EXCEPT !.heard = x] \in Req
         /\ \A x \in Gates : [q EXCEPT !.gate = x] \in Req
         /\ \A x \in BOOLEAN : [q EXCEPT !.called = x] \in Req
         /\ \A x \in Statuses \cup {0} : [q EXCEPT !.status = x] \in Req
         /\ \A x \in BOOLEAN : [q EXCEPT !.ended = x] \in Req
         /\ \A x \in Issuers \cup {None} : [q EXCEPT !.tenant = x] \in Req
         /\ \A x \in Token : [q EXCEPT !.token = x] \in Req
  BY DEF Req

LEMMA SmallSets ==
  /\ NoAs.issuer = None /\ NoAs \notin As /\ As \subseteq [issuer: Issuers, uri: Uris]
  /\ NoToken \in Token /\ NoGate \in Gates
  /\ \A t \in {"none", "use", "unknown", "validate", "jwtReject", "introspectionReject", "deny"} :
       Ev(t) \in Event /\ Ev(t).type = t
  /\ \A n \in 0..2 : Allow(n) \in Event /\ Allow(n).type = "allow" /\ Allow(n).n = n
<1>1. NoAs.issuer = None /\ NoAs \notin As /\ As \subseteq [issuer: Issuers, uri: Uris]
  BY IssuerAssumption, AsAssumption DEF NoAs
<1>2. NoToken \in Token
  BY DEF NoToken, Token
<1>3. NoGate \in Gates
  BY DEF NoGate, Gates
<1>4. \A t \in {"none", "use", "unknown", "validate", "jwtReject", "introspectionReject", "deny"} :
       Ev(t) \in Event /\ Ev(t).type = t
  BY DEF Ev, Event
<1>5. \A n \in 0..2 : Allow(n) \in Event /\ Allow(n).type = "allow" /\ Allow(n).n = n
  BY DEF Allow, Event
<1> QED  BY <1>1, <1>2, <1>3, <1>4, <1>5

LEMMA IdleGood == ASSUME NEW c, NEW reg  PROVE Idle \in Req /\ Sound(Idle, c, reg)
<1>1. Idle \in Req
  BY SmallSets DEF Idle, Req, Pc, Statuses
<1>2. Sound(Idle, c, reg)
  BY <1>1, PathAssumption DEF Idle, Sound, Tenanted, Checked, Gated, Written, AtGate
<1> QED  BY <1>1, <1>2

LEMMA RepliedGood ==
  ASSUME NEW q \in Req, NEW s \in Statuses, s = 200 => q.path # None
  PROVE  Good(Replied(q, s))
<1> PICK w : w = Replied(q, s)
  OBVIOUS
<1>1. w \in Req
  BY IdleGood, Updates DEF Replied, Pc, Past
<1>2. /\ w.pc = "done" /\ w.status = s /\ w.ended /\ w.as = NoAs /\ w.asked = 0
      /\ w.path = None => q.path = None
  BY PathAssumption, IdleGood DEF Replied, Idle, Past, Req
<1>3. Sound(w, C, registry)
  BY <1>2 DEF Sound, Tenanted, Checked, Gated, Written, AtGate, Statuses
<1> QED  BY <1>1, <1>3 DEF Good

\* A request that stays what it was, with no answer and no gate to wait at.
LEMMA RejectedGood ==
  ASSUME NEW q, Good(q), q.pc \in {"pat", "audit", "connecting"}, q.route = "pats"
  PROVE  Good(Rejected(q))
<1> q \in Req
  BY DEF Good
<1> PICK w : w = Rejected(q)
  OBVIOUS
<1>1. w \in Req
  BY SmallSets, Updates DEF Rejected, Pc
<1>2. /\ w.pc = "rejected" /\ w.status = q.status /\ w.ended = q.ended /\ w.as = q.as
      /\ w.asked = q.asked /\ w.route = q.route /\ w.tenant = q.tenant
  BY DEF Rejected, Req
<1>3. Sound(w, C, registry)
  BY <1>2 DEF Good, Sound, Tenanted, Checked, Gated, Written, AtGate
<1> QED  BY <1>1, <1>3 DEF Good

LEMMA FailGood ==
  ASSUME NEW q, Good(q), q.pc \in {"pat", "audit", "connecting"}
  PROVE  Good(Fail(q))
<1>1. q \in Req /\ q.route \in Handlers /\ 500 \in Statuses
  BY DEF Good, Sound, Written, Statuses
<1>2. [q EXCEPT !.path = None] \in Req
  BY <1>1, Updates
<1>3. CASE q.route = "mcp"
  BY <1>1, <1>2, <1>3, RepliedGood DEF Fail
<1>4. CASE q.route = "pats"
  BY <1>4, RejectedGood DEF Fail
<1>5. CASE q.route = "direct"
  BY <1>5, IdleGood DEF Fail, Good
<1> QED  BY <1>1, <1>3, <1>4, <1>5 DEF Handlers

LEMMA RefuseGood == ASSUME NEW q \in Req  PROVE Good(Refuse(q))
<1>1. CASE q.route = "direct"
  BY <1>1, IdleGood DEF Refuse, Good
<1>2. CASE q.route # "direct"
  <2>1. [q EXCEPT !.path = None] \in Req
    BY Updates
  <2>2. 401 \in Statuses
    BY DEF Statuses
  <2> QED  BY <1>2, <2>1, <2>2, RepliedGood DEF Refuse
<1> QED  BY <1>1, <1>2
-----------------------------------------------------------------------------
(* runPipeline                                                             *)

\* A request as it goes into the pipeline, or on through it.
Entering(q) ==
    /\ q \in Req /\ q.status = 0 /\ ~q.ended /\ q.route \in Handlers
    /\ q.as # NoAs => IF C.form = "function" THEN q.route # "direct" /\ q.as.issuer = q.tenant
                      ELSE q.as = C.home
    /\ q.asked = 0 \/ q.as # NoAs

LEMMA GrantGood ==
  ASSUME NEW q, Entering(q), NEW p \in Paths,
         \/ p = "bypass" /\ C.bypass
         \/ p = "static" /\ C.static /\ q.token.kind = "static"
         \/ p = "pat" /\ UsesPat(q, C) /\ Ev("use") \in q.heard
         \/ p = q.path /\ Validated(q, registry) /\ Ev("validate") \in q.heard
  PROVE  Good(Grant(q, p))
<1> PICK w : w = Grant(q, p)
  OBVIOUS
<1> q \in Req
  BY DEF Entering
<1>1. w \in Req
  BY SmallSets, Updates DEF Grant, Pc
<1>2. /\ w.pc = "granted" /\ w.path = p /\ w.status = 0 /\ ~w.ended /\ w.as = q.as
      /\ w.asked = q.asked /\ w.route = q.route /\ w.tenant = q.tenant /\ w.token = q.token
      /\ w.heard = q.heard
  BY DEF Grant, Req, Entering
<1>3. Checked(w, C, registry)
  BY <1>2 DEF Checked, UsesPat, Validated
<1>4. Tenanted(w, C) /\ Gated(w) /\ Written(w)
  BY <1>2 DEF Entering, Tenanted, Gated, Written, AtGate
<1> QED  BY <1>1, <1>3, <1>4 DEF Good, Sound

LEMMA IntrospectGood == ASSUME NEW q, Entering(q)  PROVE Good(Introspect(q))
<1> q \in Req
  BY DEF Entering
<1>1. CASE q.as.issuer \in Introspecting
  <2> PICK w : w = [q EXCEPT !.pc = "introspection"]
    OBVIOUS
  <2>1. w \in Req
    BY Updates DEF Pc
  <2>2. /\ w.pc = "introspection" /\ w.status = 0 /\ ~w.ended /\ w.as = q.as
        /\ w.asked = q.asked /\ w.route = q.route /\ w.tenant = q.tenant
    BY DEF Req, Entering
  <2>3. q.as # NoAs
    BY <1>1, IssuerAssumption DEF NoAs
  <2>4. Sound(w, C, registry)
    BY <1>1, <2>2, <2>3 DEF Entering, Sound, Tenanted, Checked, Gated, Written, AtGate
  <2> QED  BY <1>1, <2>1, <2>4 DEF Introspect, Good
<1>2. CASE q.as.issuer \notin Introspecting
  BY <1>2, RefuseGood DEF Introspect
<1> QED  BY <1>1, <1>2

LEMMA AtIssuerGood == ASSUME NEW q, Entering(q)  PROVE Good(AtIssuer(q))
<1> q \in Req
  BY DEF Entering
<1>1. CASE q.as = NoAs
  BY <1>1, RefuseGood DEF AtIssuer
<1>2. CASE q.as # NoAs /\ q.token.kind = "jwt"
  <2> PICK w : w = [q EXCEPT !.pc = "jwt"]
    OBVIOUS
  <2>1. w \in Req
    BY Updates DEF Pc
  <2>2. /\ w.pc = "jwt" /\ w.status = 0 /\ ~w.ended /\ w.as = q.as /\ w.token = q.token
        /\ w.asked = q.asked /\ w.route = q.route /\ w.tenant = q.tenant
    BY DEF Req, Entering
  <2>3. Sound(w, C, registry)
    BY <1>2, <2>2 DEF Entering, Sound, Tenanted, Checked, Gated, Written, AtGate
  <2> QED  BY <1>2, <2>1, <2>3 DEF AtIssuer, Good
<1>3. CASE q.as # NoAs /\ q.token.kind # "jwt"
  BY <1>3, IntrospectGood DEF AtIssuer
<1> QED  BY <1>1, <1>2, <1>3

LEMMA RunPipelineGood == ASSUME NEW q, Entering(q)  PROVE Good(RunPipeline(q))
<1> q \in Req
  BY DEF Entering
<1> USE DEF Paths
<1>1. CASE C.bypass
  BY <1>1, GrantGood DEF RunPipeline
<1>2. CASE ~C.bypass /\ q.token.kind = "static" /\ C.static
  BY <1>2, GrantGood DEF RunPipeline, AtToken
<1>3. CASE ~C.bypass /\ q.token.kind = "none"
  BY <1>3, RefuseGood DEF RunPipeline, AtToken
<1>4. CASE ~C.bypass /\ q.token.kind = "pat" /\ C.pat
  <2> PICK w : w = [q EXCEPT !.pc = "pat"]
    OBVIOUS
  <2>1. w \in Req
    BY Updates DEF Pc
  <2>2. /\ w.pc = "pat" /\ w.status = 0 /\ ~w.ended /\ w.as = q.as /\ w.token = q.token
        /\ w.asked = q.asked /\ w.route = q.route /\ w.tenant = q.tenant
    BY DEF Req, Entering
  <2>3. Sound(w, C, registry)
    BY <1>4, <2>2 DEF Entering, Sound, Tenanted, Checked, Gated, Written, AtGate, UsesPat
  <2> QED  BY <1>4, <2>1, <2>3 DEF RunPipeline, AtToken, Good
<1>5. CASE /\ ~C.bypass /\ ~(q.token.kind = "static" /\ C.static) /\ q.token.kind # "none"
           /\ ~(q.token.kind = "pat" /\ C.pat)
  BY <1>5, AtIssuerGood DEF RunPipeline, AtToken
<1> QED  BY <1>1, <1>2, <1>3, <1>4, <1>5

LEMMA RunForRequestGood ==
  ASSUME NEW q, Entering(q), q.route \in {"mcp", "pats"}, C \in Config
  PROVE  Good(RunForRequest(q))
<1> q \in Req
  BY DEF Entering
<1>1. CASE C.form = "none"
  BY <1>1, RunPipelineGood DEF RunForRequest
<1>2. CASE C.form = "static"
  <2> PICK w : w = [q EXCEPT !.as = C.home]
    OBVIOUS
  <2>1. C.home \in As
    BY DEF Config
  <2>2. w \in Req
    BY <2>1, Updates
  <2>3. w.status = 0 /\ ~w.ended /\ w.as = C.home /\ w.route = q.route
    BY DEF Req, Entering
  <2>4. Entering(w)
    BY <1>2, <2>1, <2>2, <2>3, SmallSets DEF Entering
  <2> QED  BY <1>2, <2>4, RunPipelineGood DEF RunForRequest
<1>3. CASE C.form = "function" /\ q.as # NoAs
  <2>1. [q EXCEPT !.as = q.as] = q
    BY DEF Req
  <2> QED  BY <1>3, <2>1, RunPipelineGood DEF RunForRequest, Memo
<1>4. CASE C.form = "function" /\ q.as = NoAs
  <2> PICK w : w = [q EXCEPT !.pc = "resolving", !.asked = 1]
    OBVIOUS
  <2>1. q.asked + 1 = 1
    BY <1>4 DEF Entering
  <2>2. w \in Req
    <3>1. 1 \in 0..1 /\ "resolving" \in Pc
      BY DEF Pc
    <3>2. [q EXCEPT !.pc = "resolving"] \in Req
      BY <3>1, Updates
    <3>3. [[q EXCEPT !.pc = "resolving"] EXCEPT !.asked = 1] \in Req
      BY <3>1, <3>2, Updates
    <3> QED  BY <3>3
  <2>3. /\ w.pc = "resolving" /\ w.status = 0 /\ ~w.ended /\ w.as = NoAs /\ w.route = q.route
    BY <1>4 DEF Req, Entering
  <2>4. Sound(w, C, registry)
    BY <1>4, <2>3 DEF Entering, Sound, Tenanted, Checked, Gated, Written, AtGate
  <2>5. RunForRequest(q) = w
    BY <1>4, <2>1 DEF RunForRequest, Memo
  <2> QED  BY <2>2, <2>4, <2>5 DEF Good
<1> QED  BY <1>1, <1>2, <1>3, <1>4 DEF Config

LEMMA Enters ==
  ASSUME NEW q, Good(q), q.pc \notin {"idle", "done", "resolving"}, q.status = 0
  PROVE  Entering(q)
  BY DEF Good, Sound, Tenanted, Written, Entering

LEMMA DispatchGood ==
  ASSUME NEW q, Entering(q),
         NEW t \in {"use", "unknown", "validate", "jwtReject", "introspectionReject", "deny"},
         t = "use" => UsesPat(q, C),
         t = "validate" => Validated(q, registry),
         t = "jwtReject" => q.as # NoAs,
         t = "deny" => q.path \in Past
  PROVE  Good(Dispatch(q, Ev(t)))
<1> q \in Req
  BY DEF Entering
<1> PICK w : w = Dispatch(q, Ev(t))
  OBVIOUS
<1>1. w \in Req
  BY SmallSets, Updates DEF Dispatch, Pc
<1>2. /\ w.pc = "audit" /\ w.event = Ev(t) /\ w.status = q.status /\ w.ended = q.ended
      /\ w.as = q.as /\ w.asked = q.asked /\ w.route = q.route /\ w.tenant = q.tenant
      /\ w.token = q.token /\ w.path = q.path
  BY DEF Dispatch, Req
<1>3. Ev(t).type = t
  BY SmallSets
<1>4. Checked(w, C, registry)
  BY <1>2, <1>3 DEF Checked, UsesPat, Validated
<1>5. Tenanted(w, C) /\ Gated(w) /\ Written(w)
  BY <1>2, <1>3 DEF Entering, Tenanted, Gated, Written, AtGate
<1> QED  BY <1>1, <1>4, <1>5 DEF Good, Sound
-----------------------------------------------------------------------------
(* A tool and its gate                                                     *)

LEMMA ToolDoneGood ==
  ASSUME NEW q, Entering(q), q.path \in Past
  PROVE  Good(ToolDone(q))
<1> q \in Req
  BY DEF Entering
<1>1. CASE q.route = "direct"
  BY <1>1, IdleGood DEF ToolDone, Good
<1>2. CASE q.route # "direct"
  <2> PICK w : w = ToolDone(q)
    OBVIOUS
  <2>1. w \in Req
    BY <1>2, SmallSets, Updates DEF ToolDone, Pc
  <2>2. /\ w.pc = "transport" /\ w.status = 0 /\ ~w.ended /\ w.as = q.as
        /\ w.asked = q.asked /\ w.route = q.route /\ w.tenant = q.tenant /\ w.path = q.path
    BY <1>2 DEF ToolDone, Req, Entering
  <2>3. Sound(w, C, registry)
    BY <2>2 DEF Entering, Sound, Tenanted, Checked, Gated, Written, AtGate
  <2> QED  BY <2>1, <2>3 DEF Good
<1> QED  BY <1>1, <1>2

LEMMA RequiredLength == ASSUME NEW g \in Gates  PROVE Len(g.required) \in Nat /\ Len(g.required) <= 2
<1>1. Len(<<>>) = 0
  BY EmptySeq
<1> QED  BY <1>1, ScopeAssumption DEF Gates

LEMMA AllowFromGood ==
  ASSUME NEW q, Entering(q), q.path \in Past, Stops(q.gate) = {},
         NEW n \in 1..3, n <= Len(q.gate.required) + 1,
         \A k \in 1..n - 1 : Allow(k) \in q.heard
  PROVE  Good(AllowFrom(q, n))
<1> q \in Req /\ q.gate \in Gates
  BY DEF Entering, Req
<1> Len(q.gate.required) \in Nat /\ Len(q.gate.required) <= 2
  BY RequiredLength
<1>1. CASE n <= Len(q.gate.required)
  <2> n \in 0..2
    BY <1>1
  <2> PICK w : w = [q EXCEPT !.pc = "audit", !.event = Allow(n)]
    OBVIOUS
  <2>1. Allow(n) \in Event /\ Allow(n).type = "allow" /\ Allow(n).n = n
    BY SmallSets
  <2>2. w \in Req
    BY <2>1, Updates DEF Pc
  <2>3. /\ w.pc = "audit" /\ w.status = 0 /\ ~w.ended /\ w.as = q.as /\ w.event = Allow(n)
        /\ w.asked = q.asked /\ w.route = q.route /\ w.tenant = q.tenant /\ w.path = q.path
        /\ w.gate = q.gate /\ w.heard = q.heard
    BY DEF Req, Entering
  <2>4. Tenanted(w, C) /\ Checked(w, C, registry) /\ Written(w)
    BY <2>1, <2>3 DEF Entering, Tenanted, Checked, Written, AtGate
  <2>5. Gated(w)
    <3>1. w.event.n = n /\ n \in 1..Len(w.gate.required)
      BY <1>1, <2>1, <2>3
    <3> QED  BY <2>3, <3>1 DEF Gated
  <2> QED  BY <1>1, <2>2, <2>4, <2>5 DEF AllowFrom, Dispatch, Good, Sound
<1>2. CASE n = Len(q.gate.required) + 1
  <2> PICK w : w = [q EXCEPT !.pc = "running", !.event = Ev("none")]
    OBVIOUS
  <2>2. w \in Req
    BY SmallSets, Updates DEF Pc
  <2>3. /\ w.pc = "running" /\ w.status = 0 /\ ~w.ended /\ w.as = q.as
        /\ w.asked = q.asked /\ w.route = q.route /\ w.tenant = q.tenant /\ w.path = q.path
        /\ w.gate = q.gate /\ w.heard = q.heard
    BY DEF Req, Entering
  <2>4. Tenanted(w, C) /\ Checked(w, C, registry) /\ Written(w)
    BY <2>3 DEF Entering, Tenanted, Checked, Written, AtGate
  <2>5. Gated(w)
    BY <1>2, <2>3 DEF Gated
  <2> QED  BY <1>2, <2>2, <2>4, <2>5 DEF AllowFrom, Good, Sound
<1> QED  BY <1>1, <1>2
-----------------------------------------------------------------------------
(* The audit hook                                                          *)

\* The hook took q's event.
Took(q) == [q EXCEPT !.heard = @ \cup {q.event}]

LEMMA AuditedEntering ==
  ASSUME NEW q, Good(q), q.pc = "audit"
  PROVE  /\ Entering(q) /\ Entering(Took(q))
         /\ Took(q).event = q.event /\ Took(q).heard = q.heard \cup {q.event}
         /\ Took(q).path = q.path /\ Took(q).token = q.token /\ Took(q).as = q.as
         /\ Took(q).route = q.route /\ Took(q).gate = q.gate
<1> q \in Req
  BY DEF Good
<1>1. Entering(q)
  BY DEF Good, Sound, Tenanted, Written, Entering
<1>2. q.heard \cup {q.event} \in SUBSET Event
  BY DEF Req
<1> PICK w : w = Took(q)
  OBVIOUS
<1>3. w \in Req
  BY <1>2, Updates DEF Took
<1>4. /\ w.event = q.event /\ w.heard = q.heard \cup {q.event} /\ w.path = q.path
      /\ w.token = q.token /\ w.as = q.as /\ w.route = q.route /\ w.gate = q.gate
      /\ w.status = q.status /\ w.ended = q.ended /\ w.asked = q.asked /\ w.tenant = q.tenant
  BY DEF Took, Req
<1>5. Entering(w)
  BY <1>1, <1>3, <1>4 DEF Entering
<1> QED  BY <1>1, <1>4, <1>5

LEMMA AfterEventGood ==
  ASSUME NEW q, Good(q), q.pc = "audit"
  PROVE  Good(AfterEvent(Took(q)))
<1> PICK w : w = Took(q)
  OBVIOUS
<1>1. /\ Entering(w) /\ w.event = q.event /\ w.heard = q.heard \cup {q.event}
      /\ w.path = q.path /\ w.token = q.token /\ w.as = q.as /\ w.route = q.route
      /\ w.gate = q.gate
  BY AuditedEntering
<1>2. w \in Req /\ q \in Req
  BY <1>1 DEF Entering, Good
<1>3. Checked(q, C, registry) /\ Gated(q) /\ Written(q)
  BY DEF Good, Sound
<1>4. CASE q.event.type = "use"
  <2>1. UsesPat(w, C) /\ Ev("use") \in w.heard
    BY <1>1, <1>3, <1>4 DEF Checked, UsesPat
  <2> QED  BY <1>1, <1>4, <2>1, GrantGood DEF AfterEvent, Paths
<1>5. CASE q.event.type = "validate"
  <2>1. Validated(w, registry) /\ Ev("validate") \in w.heard
    BY <1>1, <1>3, <1>5 DEF Checked, Validated
  <2>2. w.path \in Paths
    BY <2>1 DEF Validated, Paths
  <2> QED  BY <1>1, <1>5, <2>1, <2>2, GrantGood DEF AfterEvent
<1>6. CASE q.event.type \in {"unknown", "introspectionReject"}
  BY <1>1, <1>2, <1>6, RefuseGood DEF AfterEvent
<1>7. CASE q.event.type = "jwtReject"
  <2> PICK v : v = [w EXCEPT !.event = Ev("none")]
    OBVIOUS
  <2>1. v \in Req
    BY <1>2, SmallSets, Updates
  <2>2. /\ v.status = w.status /\ v.ended = w.ended /\ v.as = w.as /\ v.asked = w.asked
        /\ v.route = w.route /\ v.tenant = w.tenant
    BY <1>2 DEF Req
  <2>3. Entering(v)
    BY <1>1, <2>1, <2>2 DEF Entering
  <2> QED  BY <1>1, <1>7, <2>3, IntrospectGood DEF AfterEvent
<1>8. CASE q.event.type = "deny"
  <2>1. w.path \in Past
    BY <1>1, <1>3, <1>8 DEF Written, AtGate
  <2> QED  BY <1>1, <1>8, <2>1, ToolDoneGood DEF AfterEvent
<1>9. CASE q.event.type = "allow"
  <2>1. w.path \in Past /\ Stops(w.gate) = {}
    BY <1>1, <1>3, <1>9 DEF Written, AtGate, Gated
  <2>2. q.event = Allow(q.event.n)
    BY <1>2, <1>9 DEF Req, Event, Allow
  <2> PICK n \in 1..Len(w.gate.required) : n = q.event.n
    BY <1>1, <1>3, <1>9 DEF Gated
  <2>3. Len(w.gate.required) \in Nat /\ Len(w.gate.required) <= 2
    BY <1>2, RequiredLength DEF Req
  <2>4. \A k \in 1..n : Allow(k) \in w.heard
    BY <1>1, <1>3, <1>9, <2>2 DEF Gated
  <2>5. Good(AllowFrom(w, n + 1))
    <3>1. n + 1 \in 1..3 /\ n + 1 <= Len(w.gate.required) + 1
      BY <2>3
    <3>2. \A k \in 1..n + 1 - 1 : Allow(k) \in w.heard
      BY <2>3, <2>4
    <3> QED  BY <1>1, <2>1, <3>1, <3>2, AllowFromGood
  <2> QED  BY <1>1, <1>9, <2>5 DEF AfterEvent
<1> QED  BY <1>2, <1>3, <1>4, <1>5, <1>6, <1>7, <1>8, <1>9 DEF Req, Event, Checked

LEMMA HookThrowsGood ==
  ASSUME NEW q, Good(q), q.pc = "audit"
  PROVE  Good(HookThrows(q))
<1>1. CASE q.event.type \in {"allow", "deny"}
  <2>1. Entering(q) /\ q.path \in Past
    BY <1>1, AuditedEntering DEF Good, Sound, Written, AtGate
  <2> QED  BY <1>1, <2>1, ToolDoneGood DEF HookThrows
<1>2. CASE q.event.type \notin {"allow", "deny"}
  BY <1>2, FailGood DEF HookThrows
<1> QED  BY <1>1, <1>2
-----------------------------------------------------------------------------
(* The steps of a request                                                  *)

\* Keys that are registered stay, and so does what was validated under them.
LEMMA SoundStays ==
  ASSUME NEW c, NEW reg, NEW new, \A i \in Issuers : reg[i] # None => new[i] = reg[i],
         NEW w \in Req, Sound(w, c, reg)
  PROVE  Sound(w, c, new) /\ (Registered(w, reg) => Registered(w, new))
<1>1. w.as # NoAs => w.as.issuer \in Issuers
  BY SmallSets DEF Req
<1>2. Validated(w, reg) => Validated(w, new)
  <2>1. w.token \in Token
    BY DEF Req
  <2>2. w.token.kind = "jwt" => w.token.key \in Uris
    BY <2>1 DEF Token
  <2> QED  BY <1>1, <2>2, IssuerAssumption DEF Validated
<1>3. Sound(w, c, new)
  BY <1>2 DEF Sound, Checked
<1>4. Registered(w, reg) => Registered(w, new)
  BY <1>1 DEF Registered, Sound, Checked
<1> QED  BY <1>3, <1>4

\* A step to q keeps the invariant when q may be in the map.
LEMMA BecomesKeeps ==
  ASSUME ServerInv, kit.status = "up", NEW r \in Requests, NEW q, Good(q), Becomes(r, q)
  PROVE  (KitInv /\ RequestsInv)'
<1> USE DEF ServerInv, RequestsInv
<1>1. q.pc = "jwt" => q.as \in As /\ q.as.issuer \in Issuers /\ q.as.uri \in Uris
  BY SmallSets DEF Good, Sound, Checked, Req
<1>2. registry' \in [Issuers -> Uris \cup {None}]
  BY <1>1 DEF Becomes, KeysOf
<1>3. \A i \in Issuers : registry[i] # None => registry'[i] = registry[i]
  BY <1>1 DEF Becomes, KeysOf
<1>4. Registered(q, registry')
  BY <1>1, IssuerAssumption DEF Becomes, KeysOf, Registered
<1>5. rq' \in [Requests -> Req] /\ rq' = [rq EXCEPT ![r] = q] /\ kit' = kit
  BY DEF Becomes, Good
<1>6. ASSUME NEW x \in Requests
      PROVE  Sound(rq'[x], C, registry') /\ Registered(rq'[x], registry')
  <2>1. CASE x = r
    <3>1. Sound(q, C, registry')
      BY <1>3, SoundStays DEF Good
    <3> QED  BY <1>4, <1>5, <2>1, <3>1
  <2>2. CASE x # r
    <3>1. rq'[x] = rq[x]
      BY <1>5, <2>2
    <3> QED  BY <1>3, <3>1, SoundStays
  <2> QED  BY <2>1, <2>2
<1>7. C' = C
  BY <1>5 DEF C
<1>8. RequestsInv'
  BY <1>2, <1>5, <1>6, <1>7
<1>9. KitInv'
  BY <1>5 DEF KitInv, C, UnsafeBypass, UnsafeStdio
<1> QED  BY <1>8, <1>9

\* Most steps leave the shared transport alone.
LEMMA StepKeeps ==
  ASSUME ServerInv, kit.status = "up", NEW r \in Requests, NEW q, Good(q), Becomes(r, q),
         UNCHANGED transport
  PROVE  ServerInv'
  BY BecomesKeeps DEF ServerInv, TransportInv

\* While the kit is not up no request is anywhere.
LEMMA Serves ==
  ASSUME ServerInv, NEW r \in Requests, rq[r].pc # "idle"
  PROVE  kit.status = "up"
  BY DEF ServerInv, KitInv, Idle

LEMMA UpConfig ==
  ASSUME ServerInv, kit.status = "up"
  PROVE  C \in Config /\ ~UnsafeBypass(C) /\ ~UnsafeStdio(C)
  BY OfferedAssumption DEF ServerInv, KitInv

\* The requests are good.
LEMMA AllGood ==
  ASSUME ServerInv, NEW r \in Requests
  PROVE  Good(rq[r]) /\ rq[r] \in Req
  BY DEF ServerInv, RequestsInv, Good

LEMMA FindPatKeeps == ASSUME ServerInv, NEW r \in Requests, FindPat(r)  PROVE ServerInv'
<1> DEFINE q == rq[r]
<1>1. q.pc = "pat" /\ UNCHANGED transport /\ Good(q) /\ kit.status = "up"
  BY AllGood, Serves DEF FindPat
<1>2. Entering(q) /\ UsesPat(q, C)
  BY <1>1, Enters DEF Good, Sound, Checked, Written
<1>3. Good(Dispatch(q, Ev("use"))) /\ Good(Dispatch(q, Ev("unknown"))) /\ Good(Fail(q))
  BY <1>1, <1>2, DispatchGood, FailGood
<1> QED  BY <1>1, <1>3, StepKeeps DEF FindPat

LEMMA AuditKeeps == ASSUME ServerInv, NEW r \in Requests, Audit(r)  PROVE ServerInv'
<1> DEFINE q == rq[r]
<1>1. q.pc = "audit" /\ UNCHANGED transport /\ Good(q) /\ kit.status = "up"
  BY AllGood, Serves DEF Audit
<1>2. Good(AfterEvent(Took(q))) /\ Good(HookThrows(q))
  BY <1>1, AfterEventGood, HookThrowsGood
<1> QED  BY <1>1, <1>2, StepKeeps DEF Audit, Took

LEMMA ResolveKeeps == ASSUME ServerInv, NEW r \in Requests, Resolve(r)  PROVE ServerInv'
<1> DEFINE q == rq[r]
<1>1. /\ q.pc = "resolving" /\ UNCHANGED transport /\ Good(q) /\ kit.status = "up"
      /\ q \in Req
  BY AllGood, Serves DEF Resolve
<1>2. Good(Replied(q, 503))
  BY <1>1, RepliedGood DEF Statuses
<1>3. ASSUME NEW as \in As, as.issuer = q.tenant
      PROVE  Good(RunPipeline([q EXCEPT !.as = as]))
  <2> PICK w : w = [q EXCEPT !.as = as]
    OBVIOUS
  <2>1. w \in Req
    BY <1>1, Updates
  <2>2. /\ w.status = 0 /\ ~w.ended /\ w.as = as /\ w.as # NoAs /\ w.route = q.route
        /\ w.route \in Handlers /\ w.route # "direct" /\ C.form = "function"
        /\ w.tenant = q.tenant
    BY <1>1, SmallSets DEF Req, Good, Sound, Tenanted, Written
  <2>3. Entering(w)
    BY <1>3, <2>1, <2>2 DEF Entering
  <2> QED  BY <2>3, RunPipelineGood
<1> QED  BY <1>1, <1>2, <1>3, StepKeeps DEF Resolve

LEMMA ValidateJwtKeeps == ASSUME ServerInv, NEW r \in Requests, ValidateJwt(r)  PROVE ServerInv'
<1> DEFINE q == rq[r]
<1>1. q.pc = "jwt" /\ UNCHANGED transport /\ Good(q) /\ kit.status = "up" /\ q \in Req
  BY AllGood, Serves DEF ValidateJwt
<1>2. Entering(q) /\ q.as # NoAs /\ q.token.kind = "jwt"
  BY <1>1, Enters DEF Good, Sound, Checked, Written
<1>3. ASSUME JwtGood(q, HeldKeys(q))
      PROVE  Good(Dispatch([q EXCEPT !.path = "jwt"], Ev("validate")))
  <2> PICK w : w = [q EXCEPT !.path = "jwt"]
    OBVIOUS
  <2>1. w \in Req
    BY <1>1, Updates DEF Paths
  <2>2. /\ w.status = q.status /\ w.ended = q.ended /\ w.as = q.as /\ w.asked = q.asked
        /\ w.route = q.route /\ w.tenant = q.tenant /\ w.token = q.token /\ w.path = "jwt"
    BY <1>1 DEF Req
  <2>3. q.route # "direct" => registry[q.as.issuer] # None
    BY <1>1 DEF ServerInv, RequestsInv, Registered
  <2>4. Validated(w, registry)
    BY <1>2, <1>3, <2>2, <2>3 DEF Validated, JwtGood, HeldKeys, KeysOf
  <2>5. Entering(w)
    BY <1>2, <2>1, <2>2 DEF Entering
  <2> QED  BY <2>4, <2>5, DispatchGood
<1>4. Good(Dispatch(q, Ev("jwtReject")))
  BY <1>2, DispatchGood
<1> QED  BY <1>1, <1>3, <1>4, StepKeeps DEF ValidateJwt

LEMMA IntrospectTokenKeeps ==
  ASSUME ServerInv, NEW r \in Requests, IntrospectToken(r)  PROVE ServerInv'
<1> DEFINE q == rq[r]
<1>1. /\ q.pc = "introspection" /\ UNCHANGED transport /\ Good(q) /\ kit.status = "up"
      /\ q \in Req
  BY AllGood, Serves DEF IntrospectToken
<1>2. Entering(q) /\ q.as # NoAs /\ q.as.issuer \in Introspecting
  BY <1>1, Enters DEF Good, Sound, Checked, Written
<1>3. Good(Dispatch([q EXCEPT !.path = "introspection"], Ev("validate")))
  <2> PICK w : w = [q EXCEPT !.path = "introspection"]
    OBVIOUS
  <2>1. w \in Req
    BY <1>1, Updates DEF Paths
  <2>2. /\ w.status = q.status /\ w.ended = q.ended /\ w.as = q.as /\ w.asked = q.asked
        /\ w.route = q.route /\ w.tenant = q.tenant /\ w.path = "introspection"
    BY <1>1 DEF Req
  <2>3. Entering(w) /\ Validated(w, registry)
    BY <1>2, <2>1, <2>2 DEF Entering, Validated
  <2> QED  BY <2>3, DispatchGood
<1>4. Good(Dispatch(q, Ev("introspectionReject")))
  BY <1>2, DispatchGood
<1> QED  BY <1>1, <1>3, <1>4, StepKeeps DEF IntrospectToken

\* A request that was let in starts over with nothing but its path.
LEMMA AdmittedEnters ==
  ASSUME NEW q, Good(q), q.pc \notin {"idle", "done"}
  PROVE  /\ Entering(Admitted(q)) /\ Admitted(q).path \in Past
         /\ Admitted(q).route = q.route /\ Admitted(q).as = NoAs /\ Admitted(q).asked = 0
<1> q \in Req
  BY DEF Good
<1> PICK w : w = Admitted(q)
  OBVIOUS
<1>1. w \in Req
  <2>1. q.route \in Handlers \cup {None, "metadata"}
    BY DEF Req
  <2> PICK p \in Past : p = IF q.path = "pat" THEN "pat" ELSE "other"
    BY DEF Past
  <2>2. w = [Idle EXCEPT !.route = q.route, !.path = p]
    BY DEF Admitted
  <2>3. [Idle EXCEPT !.route = q.route] \in Req
    BY <2>1, IdleGood, Updates
  <2>4. [[Idle EXCEPT !.route = q.route] EXCEPT !.path = p] \in Req
    BY <2>3, Updates
  <2> QED  BY <2>2, <2>4
<1>2. /\ w.path \in Past /\ w.route = q.route /\ w.as = NoAs /\ w.asked = 0 /\ w.status = 0
      /\ ~w.ended
  BY DEF Admitted, Idle, Past, Req
<1>3. w.route \in Handlers
  BY <1>2 DEF Good, Sound, Written
<1>4. Entering(w)
  BY <1>1, <1>2, <1>3 DEF Entering
<1> QED  BY <1>2, <1>4

\* It then waits at one of the places past the pipeline.
LEMMA WaitsGood ==
  ASSUME NEW q, Entering(q), q.path \in Past, NEW pc \in {"connecting", "transport", "managing"}
  PROVE  Good([q EXCEPT !.pc = pc])
<1> q \in Req
  BY DEF Entering
<1> PICK w : w = [q EXCEPT !.pc = pc]
  OBVIOUS
<1>1. w \in Req
  BY Updates DEF Pc
<1>2. /\ w.pc = pc /\ w.status = 0 /\ ~w.ended /\ w.as = q.as /\ w.asked = q.asked
      /\ w.route = q.route /\ w.tenant = q.tenant /\ w.path = q.path
  BY DEF Req, Entering
<1>3. Sound(w, C, registry)
  BY <1>2 DEF Entering, Sound, Tenanted, Checked, Gated, Written, AtGate
<1> QED  BY <1>1, <1>3 DEF Good

LEMMA EnsureConnectedKeeps ==
  ASSUME ServerInv, NEW r \in Requests, EnsureConnected(r)
  PROVE  ServerInv' /\ rq'[r].pc \in {"connecting", "transport"} /\ \E q : Becomes(r, q)
<1> DEFINE q == Admitted(rq[r])
<1>1. rq[r].pc = "granted" /\ Good(rq[r]) /\ kit.status = "up" /\ rq \in [Requests -> Req]
  BY AllGood, Serves DEF EnsureConnected, ServerInv, RequestsInv
<1>2. Entering(q) /\ q.path \in Past
  BY <1>1, AdmittedEnters
<1>3. Good([q EXCEPT !.pc = "connecting"]) /\ Good([q EXCEPT !.pc = "transport"])
  BY <1>2, WaitsGood
<1>4. TransportInv' /\ transport'.promise \in {"pending", "fulfilled"}
  BY DEF ServerInv, TransportInv, EnsureConnected, MustConnect
<1>5. \E pc \in {"connecting", "transport"} : Becomes(r, [q EXCEPT !.pc = pc])
  BY <1>4 DEF EnsureConnected
<1> PICK pc \in {"connecting", "transport"} : Becomes(r, [q EXCEPT !.pc = pc])
  BY <1>5
<1>6. (KitInv /\ RequestsInv)'
  BY <1>1, <1>3, BecomesKeeps
<1>7. rq'[r].pc = pc
  BY <1>1, <1>2 DEF Becomes, Entering, Req
<1> QED  BY <1>4, <1>6, <1>7 DEF ServerInv

LEMMA HandleRequestKeeps ==
  ASSUME ServerInv, NEW r \in Requests, HandleRequest(r)  PROVE ServerInv'
<1> DEFINE q == rq[r]
<1>1. /\ q.pc = "transport" /\ UNCHANGED transport /\ Good(q) /\ kit.status = "up"
      /\ q \in Req
  BY AllGood, Serves DEF HandleRequest
<1>2. q.path \in Past /\ q.path # None /\ q.status \in {0, 200}
  BY <1>1, PathAssumption DEF Good, Sound, Written
<1>3. CASE q.status = 0
  <2>1. Entering(q)
    BY <1>1, <1>3, Enters
  <2>2. Good([q EXCEPT !.status = 200])
    <3> PICK w : w = [q EXCEPT !.status = 200]
      OBVIOUS
    <3>1. w \in Req
      <4>1. 200 \in Statuses \cup {0}
        BY DEF Statuses
      <4>2. \A x \in Statuses \cup {0} : [q EXCEPT !.status = x] \in Req
        BY <1>1, Updates
      <4>3. [q EXCEPT !.status = 200] \in Req
        BY <4>1, <4>2, Zenon
      <4> QED  BY <4>3
    <3>2. /\ w.pc = "transport" /\ w.status = 200 /\ ~w.ended /\ w.as = q.as
          /\ w.asked = q.asked /\ w.route = q.route /\ w.tenant = q.tenant /\ w.path = q.path
      BY <1>1, <2>1 DEF Req, Entering
    <3>3. Sound(w, C, registry)
      BY <1>2, <2>1, <3>2 DEF Entering, Sound, Tenanted, Checked, Gated, Written, AtGate
    <3> QED  BY <3>1, <3>3 DEF Good
  <2>3. Good(Silent(q))
    <3>1. Good(Replied(q, 200))
      BY <1>1, <1>2, RepliedGood DEF Statuses
    <3>2. Good([Idle EXCEPT !.pc = "done"])
      <4> PICK w : w = [Idle EXCEPT !.pc = "done"]
        OBVIOUS
      <4>1. w \in Req
        BY IdleGood, Updates DEF Pc
      <4>2. w.pc = "done" /\ w.status = 0 /\ ~w.ended /\ w.as = NoAs /\ w.asked = 0
        BY DEF Idle
      <4>3. Sound(w, C, registry)
        BY <4>2 DEF Sound, Tenanted, Checked, Gated, Written, AtGate
      <4> QED  BY <4>1, <4>3 DEF Good
    <3> QED  BY <3>1, <3>2 DEF Silent
  <2>4. Good(Broken(q))
    <3>1. [q EXCEPT !.path = None] \in Req
      BY <1>1, Updates
    <3>2. 500 \in Statuses
      BY DEF Statuses
    <3> QED  BY <1>3, <3>1, <3>2, RepliedGood DEF Broken
  <2> QED  BY <1>1, <1>3, <2>2, <2>3, <2>4, StepKeeps DEF HandleRequest
<1>4. CASE q.status = 200
  <2>1. Good(Replied(q, q.status))
    BY <1>1, <1>2, <1>4, RepliedGood DEF Statuses
  <2> QED  BY <1>1, <1>4, <2>1, StepKeeps DEF HandleRequest, Broken
<1> QED  BY <1>2, <1>3, <1>4

LEMMA ManageKeeps == ASSUME ServerInv, NEW r \in Requests, Manage(r)  PROVE ServerInv'
<1> DEFINE q == rq[r]
<1>1. /\ q.pc \in {"granted", "managing"} /\ UNCHANGED transport /\ Good(q)
      /\ kit.status = "up" /\ q \in Req
  BY AllGood, Serves DEF Manage
<1>2. Good(Replied(q, 403)) /\ Good([Admitted(q) EXCEPT !.pc = "managing"])
  <2>1. 403 \in Statuses
    BY DEF Statuses
  <2>2. Good([Admitted(q) EXCEPT !.pc = "managing"])
    BY <1>1, AdmittedEnters, WaitsGood
  <2> QED  BY <1>1, <2>1, <2>2, RepliedGood
<1>3. CASE q.pc = "granted"
  BY <1>1, <1>2, <1>3, StepKeeps DEF Manage
<1>4. CASE q.pc = "managing"
  <2>1. q.path # None
    BY <1>1, <1>4, PathAssumption DEF Good, Sound, Written
  <2>2. \A s \in {200, 400} : Good(Replied(q, s))
    BY <1>1, <2>1, RepliedGood DEF Statuses
  <2> QED  BY <1>1, <1>4, <2>2, StepKeeps DEF Manage
<1> QED  BY <1>1, <1>3, <1>4

LEMMA RunToolKeeps == ASSUME ServerInv, NEW r \in Requests, RunTool(r)  PROVE ServerInv'
<1>1. /\ rq[r].pc = "running" /\ UNCHANGED transport /\ Good(rq[r]) /\ kit.status = "up"
  BY AllGood, Serves DEF RunTool
<1>2. Entering(rq[r]) /\ rq[r].path \in Past
  BY <1>1, Enters DEF Good, Sound, Written, AtGate
<1> QED  BY <1>1, <1>2, ToolDoneGood, StepKeeps DEF RunTool

LEMMA AnswerErrorKeeps ==
  ASSUME ServerInv, NEW r \in Requests, AnswerError(r)  PROVE ServerInv'
<1>1. /\ rq[r].pc = "rejected" /\ UNCHANGED transport /\ rq[r] \in Req /\ kit.status = "up"
  BY AllGood, Serves DEF AnswerError
<1>2. Good(Replied(rq[r], 500)) /\ Good(Replied(rq[r], 401))
  BY <1>1, RepliedGood DEF Statuses
<1> QED  BY <1>1, <1>2, StepKeeps DEF AnswerError

LEMMA ToolStepKeeps == ASSUME ServerInv, NEW r \in Requests, ToolStep(r)  PROVE ServerInv'
<1>1. /\ rq[r].pc \in {"granted", "transport"} /\ Good(rq[r]) /\ kit.status = "up"
  BY AllGood, Serves DEF ToolStep, MayCall
<1> PICK held \in Held("pat"), required \in RequiredSeqs, custom \in SUBSET {1, 2} :
           CallTool(r, held, required, custom)
  BY DEF ToolStep
<1> PICK g : g = [held |-> held, required |-> required, custom |-> custom]
  OBVIOUS
<1> PICK q : q = [Admitted(rq[r]) EXCEPT !.path = "other", !.called = TRUE, !.gate = g]
  OBVIOUS
<1>2. g \in Gates
  <2>1. held \in SUBSET UNION HeldSets
    BY DEF Held, Intersect
  <2> QED  BY <2>1 DEF Gates
<1>3. q \in Req
  BY <1>1, <1>2, AdmittedEnters, Updates DEF Entering, Past
<1>4. Entering(q) /\ q.path \in Past /\ q.gate = g
  <2>1. Entering(Admitted(rq[r])) /\ Admitted(rq[r]).as = NoAs /\ Admitted(rq[r]).asked = 0
    BY <1>1, AdmittedEnters
  <2>2. /\ q.status = 0 /\ ~q.ended /\ q.route \in Handlers /\ q.as = NoAs /\ q.asked = 0
        /\ q.path = "other" /\ q.gate = g
    BY <2>1 DEF Entering, Req
  <2> QED  BY <1>3, <2>2 DEF Entering, Past
<1>5. Good(Gate(q))
  <2>1. CASE Stops(q.gate) = {}
    <3>1. Len(q.gate.required) \in Nat
      BY <1>2, <1>4, RequiredLength
    <3>2. 1 \in 1..3 /\ 1 <= Len(q.gate.required) + 1 /\ \A k \in 1..1 - 1 : Allow(k) \in q.heard
      BY <3>1
    <3>3. Good(AllowFrom(q, 1))
      BY <1>4, <2>1, <3>2, AllowFromGood
    <3> QED  BY <2>1, <3>3 DEF Gate
  <2>2. Good(ToolDone(q))
    BY <1>4, ToolDoneGood
  <2>3. Good(Dispatch([q EXCEPT !.gate = NoGate], Ev("deny")))
    <3> PICK w : w = [q EXCEPT !.gate = NoGate]
      OBVIOUS
    <3>1. w \in Req
      BY <1>3, SmallSets, Updates
    <3>2. /\ w.status = q.status /\ w.ended = q.ended /\ w.route = q.route /\ w.as = q.as
          /\ w.asked = q.asked /\ w.path = q.path /\ w.tenant = q.tenant
      BY <1>3 DEF Req
    <3>3. Entering(w) /\ w.path \in Past
      BY <1>4, <3>1, <3>2 DEF Entering
    <3> QED  BY <3>3, DispatchGood
  <2> QED  BY <2>1, <2>2, <2>3 DEF Gate
<1>6. Becomes(r, Gate(q)) /\ UNCHANGED transport
  BY DEF CallTool
<1> QED  BY <1>1, <1>5, <1>6, StepKeeps

LEMMA HandOnKeeps == ASSUME ServerInv, NEW r \in Requests, HandOn(r)  PROVE ServerInv'
<1>1. /\ rq[r].pc = "rejected" /\ UNCHANGED transport /\ Good(rq[r]) /\ kit.status = "up"
      /\ rq[r] \in Req
  BY AllGood, Serves DEF HandOn
<1>2. Good(RunForRequest([rq[r] EXCEPT !.route = "mcp"]))
  <2> PICK w : w = [rq[r] EXCEPT !.route = "mcp"]
    OBVIOUS
  <2>1. w \in Req
    BY <1>1, Updates DEF Handlers
  <2>2. Entering(rq[r])
    BY <1>1, Enters DEF Good, Sound, Written
  <2>3. /\ w.route = "mcp" /\ w.status = 0 /\ ~w.ended /\ w.as = rq[r].as
        /\ w.asked = rq[r].asked /\ w.tenant = rq[r].tenant /\ rq[r].route = "pats"
    BY <1>1, <2>2 DEF Req, Entering, Good, Sound, Written
  <2>4. Entering(w)
    BY <2>1, <2>2, <2>3 DEF Entering, Handlers
  <2> QED  BY <1>1, <2>3, <2>4, RunForRequestGood, UpConfig
<1> QED  BY <1>1, <1>2, StepKeeps DEF HandOn

LEMMA LeaveKeeps == ASSUME ServerInv, NEW r \in Requests, Leave(r)  PROVE ServerInv'
<1>1. kit.status = "up" /\ UNCHANGED transport /\ Becomes(r, Idle) /\ Good(Idle)
  BY Serves, IdleGood DEF Leave, Good
<1> QED  BY <1>1, StepKeeps

\* A request or a tool call as it comes in.
LEMMA RequestEnters ==
  ASSUME NEW route \in Handlers, NEW h \in Hosts \cup {None}, NEW t \in Token
  PROVE  /\ Entering(Request(route, h, t)) /\ Request(route, h, t) \in Req
         /\ Request(route, h, t).route = route /\ Request(route, h, t).asked = 0
<1> PICK w : w = Request(route, h, t)
  OBVIOUS
<1>1. TenantId(h) \in Issuers \cup {None}
  BY HostAssumption DEF TenantId
<1>2. w \in Req
  <2>1. [Idle EXCEPT !.route = route] \in Req
    BY IdleGood, Updates
  <2>2. [[Idle EXCEPT !.route = route] EXCEPT !.tenant = TenantId(h)] \in Req
    BY <1>1, <2>1, Updates
  <2>3. [[[Idle EXCEPT !.route = route] EXCEPT !.tenant = TenantId(h)] EXCEPT !.token = t] \in Req
    BY <2>2, Updates
  <2> QED  BY <2>3 DEF Request
<1>3. w.status = 0 /\ ~w.ended /\ w.route = route /\ w.as = NoAs /\ w.asked = 0
  BY DEF Request, Idle
<1> QED  BY <1>2, <1>3 DEF Entering

LEMMA ArriveKeeps ==
  ASSUME ServerInv, NEW r \in Requests, NEW route \in {"mcp", "pats"}, NEW h \in Hosts,
         NEW t \in Token, Arrive(r, route, h, t)
  PROVE  ServerInv'
<1> PICK q : q = Request(route, h, t)
  OBVIOUS
<1>1. kit.status = "up" /\ UNCHANGED transport
  BY DEF Arrive
<1>2. Entering(q) /\ q \in Req /\ q.route = route
  BY RequestEnters DEF Handlers
<1>3. Good(RunForRequest(q))
  BY <1>1, <1>2, RunForRequestGood, UpConfig
<1>4. Good(Replied(q, 403))
  BY <1>2, RepliedGood DEF Statuses
<1>5. Becomes(r, IF HostAllowed(h) THEN RunForRequest(q) ELSE Replied(q, 403))
  BY DEF Arrive
<1> QED  BY <1>1, <1>3, <1>4, <1>5, StepKeeps

\* A request for metadata, which needs no credential.
Unasked == [Idle EXCEPT !.path = "other"]

LEMMA UnaskedGood == ASSUME NEW s \in Statuses  PROVE Good(Replied(Unasked, s))
<1>1. Unasked \in Req
  BY IdleGood, Updates DEF Past, Unasked
<1>2. Unasked.path # None
  BY PathAssumption DEF Past, Idle, Unasked
<1> QED  BY <1>1, <1>2, RepliedGood

LEMMA ServeMetadataKeeps ==
  ASSUME ServerInv, NEW r \in Requests, NEW h, NEW s \in {200, 403, 405}, ServeMetadata(r, h, s)
  PROVE  ServerInv'
<1>1. Good(Replied(Unasked, s))
  BY UnaskedGood DEF Statuses
<1>2. Becomes(r, Replied(Unasked, s)) /\ kit.status = "up" /\ UNCHANGED transport
  BY DEF ServeMetadata, Unasked
<1> QED  BY <1>1, <1>2, StepKeeps

LEMMA CallDirectlyKeeps ==
  ASSUME ServerInv, NEW r \in Requests, NEW t \in Token, CallDirectly(r, t)
  PROVE  ServerInv'
<1> PICK q : q = Request("direct", None, t)
  OBVIOUS
<1>1. kit.status = "up" /\ UNCHANGED transport
  BY DEF CallDirectly
<1>2. Entering(q) /\ q \in Req /\ q.route = "direct"
  BY RequestEnters DEF Handlers
<1> PICK w : w = [q EXCEPT !.as = C.home]
  OBVIOUS
<1>3. ASSUME C.form = "static"  PROVE Entering(w)
  <2>1. C.home \in As
    BY <1>1, UpConfig DEF Config
  <2>2. w \in Req
    BY <1>2, <2>1, Updates
  <2>3. w.status = 0 /\ ~w.ended /\ w.as = C.home /\ w.route = q.route
    BY <1>2 DEF Req, Entering
  <2> QED  BY <1>2, <1>3, <2>1, <2>2, <2>3, SmallSets DEF Entering
<1>4. Becomes(r, RunPipeline(IF C.form = "static" THEN w ELSE q))
  BY DEF CallDirectly
<1>5. Good(RunPipeline(IF C.form = "static" THEN w ELSE q))
  BY <1>2, <1>3, RunPipelineGood
<1> QED  BY <1>1, <1>4, <1>5, StepKeeps
-----------------------------------------------------------------------------
(* The kit and the shared transport                                        *)

LEMMA CreateAuthKitKeeps ==
  ASSUME ServerInv, NEW c \in Offered, CreateAuthKit(c)  PROVE ServerInv'
<1>1. /\ kit.status = "none" /\ rq = [r \in Requests |-> Idle] /\ UNCHANGED <<rq, registry>>
  BY DEF ServerInv, KitInv, CreateAuthKit
<1>2. RequestsInv'
  <2>1. \A r \in Requests : Sound(rq'[r], C', registry') /\ Registered(rq'[r], registry')
    BY <1>1, IdleGood DEF Registered, Idle
  <2>2. rq' \in [Requests -> Req] /\ registry' \in [Issuers -> Uris \cup {None}]
    BY <1>1 DEF ServerInv, RequestsInv
  <2> QED  BY <2>1, <2>2 DEF RequestsInv
<1>3. KitInv'
  <2>1. \/ kit' = [status |-> "refused", config |-> kit.config]
        \/ kit' = [status |-> "up", config |-> c] /\ ~UnsafeBypass(c) /\ ~UnsafeStdio(c)
    BY DEF ServerInv, KitInv, CreateAuthKit
  <2> QED  BY <1>1, <2>1 DEF ServerInv, KitInv, C, UnsafeBypass, UnsafeStdio
<1>4. TransportInv'
  BY DEF ServerInv, TransportInv, CreateAuthKit
<1> QED  BY <1>2, <1>3, <1>4 DEF ServerInv

LEMMA StartAgainKeeps == ASSUME ServerInv, StartAgain  PROVE ServerInv'
<1>1. /\ rq = [r \in Requests |-> Idle] /\ UNCHANGED <<rq, registry>>
  BY DEF ServerInv, KitInv, StartAgain
<1>2. RequestsInv'
  <2>1. \A r \in Requests : Sound(rq'[r], C', registry') /\ Registered(rq'[r], registry')
    BY <1>1, IdleGood DEF Registered, Idle
  <2>2. rq' \in [Requests -> Req] /\ registry' \in [Issuers -> Uris \cup {None}]
    BY <1>1 DEF ServerInv, RequestsInv
  <2> QED  BY <2>1, <2>2 DEF RequestsInv
<1>3. KitInv'
  BY <1>1 DEF ServerInv, KitInv, StartAgain, C
<1>4. TransportInv'
  BY DEF ServerInv, TransportInv, StartAgain
<1> QED  BY <1>2, <1>3, <1>4 DEF ServerInv

LEMMA SettleConnectKeeps ==
  ASSUME ServerInv, NEW ok \in BOOLEAN, SettleConnect(ok)  PROVE ServerInv'
<1>1. UNCHANGED <<kit, registry>>
  BY DEF SettleConnect
<1>2. TransportInv'
  BY DEF ServerInv, TransportInv, SettleConnect, FailedPromise
<1>3. ASSUME NEW r \in Requests
      PROVE  rq'[r] \in Req /\ Sound(rq'[r], C, registry) /\ Registered(rq'[r], registry)
  <2>1. Good(rq[r]) /\ Registered(rq[r], registry)
    BY AllGood DEF ServerInv, RequestsInv
  <2>2. CASE rq[r].pc # "connecting"
    BY <2>1, <2>2 DEF SettleConnect, Good
  <2>3. CASE rq[r].pc = "connecting" /\ ok
    <3> PICK w : w = [rq[r] EXCEPT !.pc = "transport"]
      OBVIOUS
    <3>1. Entering(rq[r]) /\ rq[r].path \in Past
      BY <2>1, <2>3, Enters DEF Good, Sound, Written
    <3>2. Good(w) /\ w.pc = "transport"
      BY <3>1, WaitsGood DEF Entering, Req
    <3> QED  BY <2>3, <3>2 DEF SettleConnect, Good, Registered
  <2>4. CASE rq[r].pc = "connecting" /\ ~ok
    <3>1. Good(Fail(rq[r]))
      BY <2>1, <2>4, FailGood
    <3>2. Fail(rq[r]).pc # "jwt"
      <4>1. rq[r] \in Req /\ rq[r].route \in Handlers
        BY <2>1, <2>4 DEF Good, Sound, Written
      <4>2. \A q, s : Replied(q, s).pc = "done"
        BY DEF Replied, Idle
      <4>3. Rejected(rq[r]).pc = "rejected" /\ Idle.pc = "idle"
        BY <4>1 DEF Rejected, Req, Idle
      <4> QED  BY <4>1, <4>2, <4>3 DEF Fail, Handlers
    <3> QED  BY <2>4, <3>1, <3>2 DEF SettleConnect, Good, Registered
  <2> QED  BY <2>2, <2>3, <2>4
<1>4. RequestsInv'
  <2>1. rq' \in [Requests -> Req]
    BY <1>3 DEF SettleConnect
  <2> QED  BY <1>1, <1>3, <2>1 DEF ServerInv, RequestsInv, C
<1>5. KitInv'
  <2>1. kit.status # "up" => rq' = rq
    BY DEF ServerInv, KitInv, SettleConnect, Idle
  <2> QED  BY <1>1, <2>1 DEF ServerInv, KitInv, C, UnsafeBypass, UnsafeStdio
<1> QED  BY <1>2, <1>4, <1>5 DEF ServerInv
-----------------------------------------------------------------------------
LEMMA ServerInvInit == Init => ServerInv
<1> SUFFICES ASSUME Init  PROVE ServerInv
  OBVIOUS
<1> USE DEF Init
<1>1. KitInv /\ TransportInv
  BY DEF KitInv, TransportInv
<1>2. RequestsInv
  BY IdleGood DEF RequestsInv, Registered, Idle
<1> QED  BY <1>1, <1>2 DEF ServerInv

LEMMA RequestStepKeeps ==
  ASSUME ServerInv, NEW r \in Requests, RequestStep(r)  PROVE ServerInv'
<1>1. CASE Resolve(r)  BY <1>1, ResolveKeeps
<1>2. CASE FindPat(r)  BY <1>2, FindPatKeeps
<1>3. CASE ValidateJwt(r)  BY <1>3, ValidateJwtKeeps
<1>4. CASE IntrospectToken(r)  BY <1>4, IntrospectTokenKeeps
<1>5. CASE Audit(r)  BY <1>5, AuditKeeps
<1>6. CASE EnsureConnected(r)  BY <1>6, EnsureConnectedKeeps
<1>7. CASE HandleRequest(r)  BY <1>7, HandleRequestKeeps
<1>8. CASE Manage(r)  BY <1>8, ManageKeeps
<1>9. CASE RunTool(r)  BY <1>9, RunToolKeeps
<1>10. CASE AnswerError(r)  BY <1>10, AnswerErrorKeeps
<1> QED
  BY <1>1, <1>2, <1>3, <1>4, <1>5, <1>6, <1>7, <1>8, <1>9, <1>10 DEF RequestStep

LEMMA ServerInvNext == ServerInv /\ [Next]_vars => ServerInv'
<1> SUFFICES ASSUME ServerInv, [Next]_vars  PROVE ServerInv'
  OBVIOUS
<1>1. ASSUME NEW c \in Offered, CreateAuthKit(c)  PROVE ServerInv'
  BY <1>1, CreateAuthKitKeeps
<1>2. CASE StartAgain
  BY <1>2, StartAgainKeeps
<1>3. ASSUME NEW ok \in BOOLEAN, SettleConnect(ok)  PROVE ServerInv'
  BY <1>3, SettleConnectKeeps
<1>4. ASSUME NEW r \in Requests, RequestStep(r) \/ ToolStep(r) \/ HandOn(r) \/ Leave(r)
      PROVE  ServerInv'
  BY <1>4, RequestStepKeeps, ToolStepKeeps, HandOnKeeps, LeaveKeeps
<1>5. ASSUME NEW r \in Requests, NEW route \in {"mcp", "pats"}, NEW h \in Hosts, NEW t \in Token,
             Arrive(r, route, h, t)
      PROVE  ServerInv'
  BY <1>5, ArriveKeeps
<1>6. ASSUME NEW r \in Requests, NEW h \in Hosts, NEW s \in {200, 403, 405},
             ServeMetadata(r, h, s)
      PROVE  ServerInv'
  BY <1>6, ServeMetadataKeeps
<1>7. ASSUME NEW r \in Requests, NEW t \in Token, CallDirectly(r, t)  PROVE ServerInv'
  BY <1>7, CallDirectlyKeeps
<1>8. CASE UNCHANGED vars
  BY <1>8 DEF vars, ServerInv, KitInv, RequestsInv, TransportInv, C, Sound, Tenanted, Checked,
     Validated, UsesPat, Registered, UnsafeBypass, UnsafeStdio
<1> QED  BY <1>1, <1>2, <1>3, <1>4, <1>5, <1>6, <1>7, <1>8 DEF Next

\* The inductive invariant of a serving kit.
THEOREM ServerInvariance == Spec => []ServerInv
  BY ServerInvInit, ServerInvNext, PTL DEF Spec

\* Every variable of the server keeps its type.
THEOREM ServerTypeCorrect == Spec => []TypeOK
<1>1. ServerInv => TypeOK
  <2> SUFFICES ASSUME ServerInv  PROVE TypeOK
    OBVIOUS
  <2>1. ASSUME NEW r \in Requests
        PROVE  /\ rq[r].pc \in Pc /\ rq[r].route \in {None, "mcp", "pats", "metadata", "direct"}
               /\ rq[r].token \in Token /\ rq[r].as \in As \cup {NoAs}
               /\ rq[r].path \in Paths \cup Past \cup {None} /\ rq[r].asked \in 0..2
               /\ rq[r].event \in Event /\ rq[r].heard \subseteq Event
               /\ rq[r].gate.held \subseteq UNION HeldSets
               /\ rq[r].status \in {0, 200, 400, 401, 403, 405, 500, 503}
               /\ rq[r].ended => rq[r].status # 0
    BY AllGood DEF Req, Handlers, Statuses, Gates, Good, Sound, Written
  <2>2. kit.status \in {"none", "refused", "up"} /\ kit.config \in Offered \cup {None}
    BY DEF ServerInv, KitInv
  <2>3. registry \in [Issuers -> Uris \cup {None}]
    BY DEF ServerInv, RequestsInv
  <2>4. transport \in [promise: {"none", "pending", "fulfilled"}, inFlight: 0..2]
    BY DEF ServerInv, TransportInv
  <2> QED  BY <2>1, <2>2, <2>3, <2>4 DEF TypeOK
<1> QED  BY <1>1, ServerInvariance, PTL

\* A request is let in only by what its own credential is good for, whatever
\* the other tenants, the fallbacks and the second handlings do (runPipeline).
THEOREM LetInIsEntitled == Spec => []OnlyEntitled
<1>1. ServerInv => OnlyEntitled
  <2> SUFFICES ASSUME ServerInv, NEW r \in Requests, rq[r].pc = "granted"
               PROVE  LET q == rq[r] IN
                      \/ /\ q.path = "bypass" /\ C.bypass /\ ~C.signed
                         /\ C.production => C.allowInProduction
                      \/ q.path = "static" /\ C.static /\ q.token.kind = "static"
                      \/ q.path = "pat" /\ C.pat /\ q.token.kind = "pat"
                      \/ /\ q.path = "jwt" /\ q.token.iss = Home(q)
                         /\ q.token.key = IF q.route = "direct" THEN C.home.uri
                                          ELSE registry[q.token.iss]
                      \/ q.path = "introspection" /\ Home(q) \in Introspecting
    BY DEF OnlyEntitled
  <2>1. Good(rq[r]) /\ kit.status = "up"
    BY AllGood, Serves
  <2>2. C.bypass => ~C.signed /\ (C.production => C.allowInProduction)
    BY <2>1, UpConfig DEF UnsafeBypass, UnsafeStdio
  <2>3. rq[r].as # NoAs => /\ rq[r].as.issuer = Home(rq[r])
                           /\ rq[r].route = "direct" => rq[r].as = C.home
    BY <2>1 DEF Good, Sound, Tenanted, Home
  <2> QED  BY <2>1, <2>2, <2>3 DEF Good, Sound, Checked, Validated, UsesPat
<1> QED  BY <1>1, ServerInvariance, PTL

\* Nobody gets in on a token, and no tool runs, unless the audit hook took
\* every event that says so (dispatchAudit).
THEOREM GrantsAreHeard == Spec => []NothingUnheard
<1>1. ServerInv => NothingUnheard
  BY AllGood DEF NothingUnheard, Good, Sound, Checked, Gated, Validated
<1> QED  BY <1>1, ServerInvariance, PTL

\* A tool's handler runs only when every scope it requires is granted, as the
\* scope language is documented, by one the caller holds or by a custom
\* matcher (registerTool, matchesAny), for scopes of any length.
THEOREM ToolsNeedScopes == Spec => []ToolNeedsScopes
<1>1. ServerInv => ToolNeedsScopes
  <2> SUFFICES ASSUME ServerInv, NEW r \in Requests, rq[r].pc = "running",
                      NEW n \in 1..Len(rq[r].gate.required), n \notin rq[r].gate.custom
               PROVE  \E h \in rq[r].gate.held : Grants(h, rq[r].gate.required[n])
    BY DEF ToolNeedsScopes
  <2> DEFINE g == rq[r].gate
  <2>1. g \in Gates /\ Stops(g) = {}
    BY AllGood DEF Good, Sound, Gated, Req
  <2>2. RequiredScope(g.required[n]) /\ MatchesAny(g.required[n], g.held)
    BY <2>1 DEF Stops, Satisfied, Matched
  <2>3. g.required \in RequiredSeqs
    BY <2>1, EmptySeq DEF Gates
  <2>4. Len(g.required[n]) \in Nat
    BY <2>3, ScopeAssumption, LenProperties DEF IsScope
  <2>5. \A s \in g.held : HeldScope(s) /\ Len(s) \in Nat
    BY <2>1, ScopeAssumption, LenProperties DEF Gates, Normalizable, IsScope
  <2> QED  BY <2>2, <2>4, <2>5, MatchedIsGranted
<1> QED  BY <1>1, ServerInvariance, PTL

\* The transport is connected at most once at a time, and never again once it
\* is (ensureConnected).
THEOREM ConnectsOnce == Spec => []OneConnect
<1>1. ServerInv => OneConnect
  BY DEF ServerInv, TransportInv, OneConnect
<1> QED  BY <1>1, ServerInvariance, PTL

\* The consumer's resolver is asked at most once for a request
\* (RESOLVER_CACHE).
THEOREM ResolverAskedOnce == Spec => []AskedOnce
<1>1. ServerInv => AskedOnce
  BY AllGood DEF AskedOnce, Req
<1> QED  BY <1>1, ServerInvariance, PTL

\* A request that was not let in is never answered with a success (wrap).
THEOREM SuccessIsAdmitted == Spec => []NoSuccessUnadmitted
<1>1. ServerInv => NoSuccessUnadmitted
  BY AllGood DEF NoSuccessUnadmitted, Good, Sound, Written
<1> QED  BY <1>1, ServerInvariance, PTL

\* A connect that failed fails only those who waited for it (ensureConnected).
THEOREM FailedConnectForgotten == Spec => FailureForgotten
<1>1. ServerInv /\ [Next]_vars =>
        [\A r \in Requests : rq[r].pc = "granted" /\ rq[r].route = "mcp" =>
            rq'[r].pc \in {"granted", "connecting", "transport"}]_vars
  <2> SUFFICES ASSUME ServerInv, Next, NEW r \in Requests,
                      rq[r].pc = "granted", rq[r].route = "mcp"
               PROVE  rq'[r].pc \in {"granted", "connecting", "transport"}
    OBVIOUS
  <2>1. rq \in [Requests -> Req]
    BY DEF ServerInv, RequestsInv
  <2>2. ASSUME NEW x \in Requests, NEW q, Becomes(x, q), x # r  PROVE rq'[r] = rq[r]
    BY <2>1, <2>2 DEF Becomes
  <2>3. ASSUME UNCHANGED rq  PROVE rq'[r].pc = "granted"
    BY <2>3
  <2>4. ASSUME NEW ok \in BOOLEAN, SettleConnect(ok)  PROVE rq'[r] = rq[r]
    BY <2>4 DEF SettleConnect
  <2>5. ASSUME NEW x \in Requests, RequestStep(x)
        PROVE  rq'[r].pc \in {"granted", "connecting", "transport"}
    <3>1. CASE EnsureConnected(x) /\ x = r
      BY <3>1, EnsureConnectedKeeps
    <3>2. CASE x # r
      <4>1. CASE EnsureConnected(x)
        BY <2>2, <3>2, <4>1, EnsureConnectedKeeps
      <4>2. CASE Resolve(x) \/ FindPat(x) \/ ValidateJwt(x) \/ IntrospectToken(x) \/ Audit(x)
        BY <2>2, <3>2, <4>2 DEF Resolve, FindPat, ValidateJwt, IntrospectToken, Audit
      <4>3. CASE HandleRequest(x) \/ Manage(x) \/ RunTool(x) \/ AnswerError(x)
        BY <2>2, <3>2, <4>3 DEF HandleRequest, Manage, RunTool, AnswerError
      <4> QED  BY <2>5, <4>1, <4>2, <4>3 DEF RequestStep
    <3>3. CASE x = r /\ ~EnsureConnected(x)
      BY <2>5, <3>3 DEF RequestStep, Resolve, FindPat, ValidateJwt, IntrospectToken, Audit,
         HandleRequest, Manage, RunTool, AnswerError
    <3> QED  BY <3>1, <3>2, <3>3
  <2>6. ASSUME NEW x \in Requests, ToolStep(x) \/ HandOn(x) \/ Leave(x)  PROVE rq'[r] = rq[r]
    BY <2>2, <2>6 DEF ToolStep, CallTool, MayCall, HandOn, Leave
  <2>7. ASSUME NEW x \in Requests, NEW route, NEW h, NEW t, Arrive(x, route, h, t)
        PROVE  rq'[r] = rq[r]
    BY <2>2, <2>7 DEF Arrive
  <2>8. ASSUME NEW x \in Requests, NEW h, NEW s, ServeMetadata(x, h, s)  PROVE rq'[r] = rq[r]
    BY <2>2, <2>8 DEF ServeMetadata
  <2>9. ASSUME NEW x \in Requests, NEW t, CallDirectly(x, t)  PROVE rq'[r] = rq[r]
    BY <2>2, <2>9 DEF CallDirectly
  <2>10. ASSUME StartAgain \/ \E c \in Offered : CreateAuthKit(c)  PROVE rq' = rq
    BY <2>10 DEF StartAgain, CreateAuthKit
  <2> QED  BY <2>4, <2>5, <2>6, <2>7, <2>8, <2>9, <2>10 DEF Next
<1> QED  BY <1>1, ServerInvariance, PTL DEF Spec, FailureForgotten
=============================================================================
