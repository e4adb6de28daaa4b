-------------------------- MODULE TokenClientsProofs --------------------------
(***************************************************************************)
(* Proofs about TokenClients, for any number of calls and issuers and any  *)
(* timeout and TTL: a credential goes to its own issuer, an endpoint that  *)
(* moved is forgotten in time, and what exchangeToken returns is proved to *)
(* be for its audience.                                                    *)
(*                                                                         *)
(* Why the old endpoint goes: a document that names it was served before   *)
(* the move, and its body is read within a timeout; so what is cached of   *)
(* it has no more ticks left than Settled is away.                         *)
(***************************************************************************)
EXTENDS TokenClients, TLAPS

CallRecord ==
    [pc: Pc, opts: Options \cup {Plain("cc", None)}, url: Url \cup {NoUrl(None)},
     second: BOOLEAN, ok: BOOLEAN, named: {"old", "new"}, introspect: BOOLEAN,
     token: TokenKinds, age: 0..Timeout, late: BOOLEAN]

Sending(q) == q.pc \in {"token", "tokenBody"}
Asking(q) == q.pc \in {"introspect", "introspectBody"}

\* A call whose document was served before the move is not longer in reading
\* it than the move is past.
Dated(q) ==
    q.pc = "metadata" /\ q.opts.client = "dcr" /\ q.named = "old" =>
        moved[q.opts.issuer] <= q.age + 1

\* A call that must know of the move was told of it.
Told(q) ==
    q.late =>
        /\ q.opts.client = "dcr" /\ moved[q.opts.issuer] > 0
        /\ q.pc = "metadata" => q.named = "new"
        /\ Sending(q) => q.url.is # "old"

CallInv(q) ==
    /\ q.pc # "idle" => q.opts \in Options /\ q.url \in Url
    /\ Sending(q) => q.url.of = q.opts.issuer
    /\ Dated(q) /\ (q.pc # "idle" => Told(q))
    /\ Asking(q) => q.opts.client = "te" /\ Opaque(q.token)
    /\ q.pc = "introspectBody" => q.ok

CallsInv ==
    /\ call \in [Calls -> CallRecord]
    /\ \A c \in Calls : CallInv(call[c])

\* An entry with the old endpoint is over before the move is Settled.
CacheInv ==
    /\ cache \in [Issuers -> [url: Url, left: 0..CacheTtl]]
    /\ \A i \in Issuers :
         /\ cache[i].url.of = i
         /\ cache[i].left > 0 /\ cache[i].url.is = "old" => moved[i] + cache[i].left <= Settled

ClientsInv ==
    /\ moved \in [Issuers -> 0..Settled]
    /\ CallsInv /\ CacheInv /\ ExchangedForAudience
-----------------------------------------------------------------------------
(* Options and records                                                     *)

LEMMA GivenUrls ==
    \A i \in Issuers :
        /\ NoUrl(i) \in Url /\ NoUrl(i).of = i /\ NoUrl(i).is = "none"
        /\ \A u \in Given(i) \cup {[of |-> i, is |-> "notHttp"]} :
             u \in Url /\ u.of = i /\ u.is # "old"
  BY DEF Given, NoUrl, Url

\* What every set of options has in common.
LEMMA OptionFields ==
    ASSUME NEW o \in Options
    PROVE  /\ o.client \in Clients /\ o.issuer \in Issuers /\ o.introspect \in BOOLEAN
           /\ o.given \in Url /\ o.given.of = o.issuer /\ o.given.is # "old"
           /\ o.client = "cc" => o.given.is = "none"
<1>1. CASE o \in CCOptions
  <2> PICK i \in Issuers, a \in {"good", "bad"}, k \in {"secret", "good", "noAlg", "unusable"} :
            o = CCOption(i, a, k)
    BY <1>1 DEF CCOptions
  <2>1. o.client = "cc" /\ o.issuer = i /\ o.given = NoUrl(i) /\ o.introspect = FALSE
    BY DEF CCOption, Plain
  <2> QED  BY <2>1, GivenUrls DEF Clients
<1>2. CASE o \in JBOptions
  <2> PICK i \in Issuers : \E u \in Given(i), k \in {"good", "noAlg", "unreadable", "unusable"} :
            o = JBOption(i, u, k)
    BY <1>2 DEF JBOptions
  <2>1. /\ o.client = "jb" /\ o.issuer = i /\ o.introspect \in BOOLEAN
        /\ o.given \in Given(i) \cup {[of |-> i, is |-> "notHttp"]}
    BY DEF JBOption, Plain
  <2> QED  BY <2>1, GivenUrls DEF Clients
<1>3. CASE o \in TEOptions
  <2> PICK i \in Issuers :
            \E u \in Given(i), a \in {"good", "bad", "tooLong", "tooLongEncoded"},
               s \in {"mine", "foreign"}, n \in BOOLEAN :
            o = TEOption(i, u, a, s, n)
    BY <1>3 DEF TEOptions
  <2>1. /\ o.client = "te" /\ o.issuer = i /\ o.introspect \in BOOLEAN
        /\ o.given \in Given(i) \cup {[of |-> i, is |-> "notHttp"]}
    BY DEF TEOption, Plain
  <2> QED  BY <2>1, GivenUrls DEF Clients
<1>4. CASE o \in DcrOptions
  <2> PICK i \in Issuers :
            \E u \in Given(i) \cup {[of |-> i, is |-> "notHttp"]},
               a \in {"good", "bad"}, n \in BOOLEAN :
            o = DcrOption(i, u, a, n)
    BY <1>4 DEF DcrOptions
  <2>1. /\ o.client = "dcr" /\ o.issuer = i /\ o.introspect \in BOOLEAN
        /\ o.given \in Given(i) \cup {[of |-> i, is |-> "notHttp"]}
    BY DEF DcrOption, Plain
  <2> QED  BY <2>1, GivenUrls DEF Clients
<1> QED  BY <1>1, <1>2, <1>3, <1>4 DEF Options

\* Each field of a call's record can be set on its own.
LEMMA Updates ==
    ASSUME NEW q \in CallRecord
    PROVE  /\ \A x \in Pc : [q EXCEPT !.pc = x] \in CallRecord
           /\ \A x \in Options : [q EXCEPT !.opts = x] \in CallRecord
           /\ \A x \in Url : [q EXCEPT !.url = x] \in CallRecord
           /\ \A x \in BOOLEAN : [q EXCEPT !.second = x] \in CallRecord
           /\ \A x \in BOOLEAN : [q EXCEPT !.ok = x] \in CallRecord
           /\ \A x \in {"old", "new"} : [q EXCEPT !.named = x] \in CallRecord
           /\ \A x \in BOOLEAN : [q EXCEPT !.introspect = x] \in CallRecord
           /\ \A x \in TokenKinds : [q EXCEPT !.token = x] \in CallRecord
           /\ \A x \in 0..Timeout : [q EXCEPT !.age = x] \in CallRecord
           /\ \A x \in BOOLEAN : [q EXCEPT !.late = x] \in CallRecord
  BY DEF CallRecord

LEMMA IdleRecord == Idle \in CallRecord /\ Idle.pc = "idle"
<1>1. 0 \in 0..Timeout
  BY TimeAssumption
<1> QED  BY <1>1 DEF Idle, CallRecord, Pc, TokenKinds

LEMMA CallFields ==
    ASSUME CallsInv, NEW c \in Calls
    PROVE  /\ call[c] \in CallRecord /\ CallInv(call[c])
           /\ call[c].pc \in Pc /\ call[c].age \in 0..Timeout
           /\ Busy(c) => O(c) \in Options /\ call[c].url \in Url
  BY DEF CallsInv, CallInv, CallRecord, Busy, O
-----------------------------------------------------------------------------
(* What a step of one call has to respect                                  *)

LEMMA CallMoves ==
    ASSUME CallsInv, NEW c \in Calls, NEW q \in CallRecord, CallInv(q),
           call' = [call EXCEPT ![c] = q], moved' = moved
    PROVE  CallsInv'
<1>1. call' \in [Calls -> CallRecord]
  BY DEF CallsInv
<1>2. ASSUME NEW d \in Calls  PROVE CallInv(call[d])'
  <2>1. call'[d] = q \/ call'[d] = call[d]
    BY DEF CallsInv
  <2>2. CallInv(call'[d])
    BY <2>1 DEF CallsInv
  <2> QED  BY <2>2 DEF CallInv, Dated, Told
<1> QED  BY <1>1, <1>2 DEF CallsInv

\* A call that ends leaves an answer only if it may.
LEMMA Settles ==
    ASSUME CallsInv, NEW c \in Calls, NEW o, NEW why, NEW t, Settle(c, o, why, t), moved' = moved,
           why = None /\ o.client = "te" => call[c].ok /\ t \in {"jwtMine", "opaqueMine"}
    PROVE  CallsInv' /\ ExchangedForAudience'
<1>1. CallInv(Idle)
  BY IdleRecord DEF CallInv, Dated, Sending, Asking
<1>2. CallsInv'
  BY <1>1, IdleRecord, CallMoves DEF Settle
<1>3. ExchangedForAudience'
  BY DEF Settle, ExchangedForAudience
<1> QED  BY <1>2, <1>3

\* A call that sends a request starts its timer.
LEMMA Requests ==
    ASSUME CallsInv, NEW c \in Calls, NEW st \in CallRecord, Request(c, st), moved' = moved,
           CallInv(st), st.pc # "metadata"
    PROVE  CallsInv' /\ ExchangedForAudience'
<1> PICK q : q = [st EXCEPT !.age = 0]
  OBVIOUS
<1>0. 0 \in 0..Timeout
  BY TimeAssumption
<1>1. q \in CallRecord
  BY <1>0, Updates
<1>2. /\ q.pc = st.pc /\ q.opts = st.opts /\ q.url = st.url /\ q.token = st.token
      /\ q.ok = st.ok /\ q.late = st.late /\ q.named = st.named
  BY DEF CallRecord
<1>3. CallInv(q)
  BY <1>2 DEF CallInv, Dated, Told, Sending, Asking
<1>4. CallsInv'
  BY <1>1, <1>3, CallMoves DEF Request
<1>5. ExchangedForAudience'
  BY DEF Request, ExchangedForAudience
<1> QED  BY <1>4, <1>5

\* A call that throws has a reason.
LEMMA ThrowsReasons ==
    /\ None # "discovery" /\ None # "discovery-failed" /\ None # "transport"
    /\ None # "introspection" /\ None # "inactive" /\ None # "audience"
    /\ None # "malformed-response" /\ None # "as-error"
  BY ReasonAssumption DEF Reasons

\* A credential that is sent goes to an endpoint of the call's issuer, and not
\* to the old one when the call must know better.
LEMMA Sends ==
    ASSUME CallsInv, NEW c \in Calls, NEW st \in CallRecord, NEW u \in Url, Send(c, st, u),
           moved' = moved, st.opts \in Options, u.of = st.opts.issuer,
           st.late => st.opts.client = "dcr" /\ moved[st.opts.issuer] > 0 /\ u.is # "old"
    PROVE  CallsInv' /\ ExchangedForAudience'
<1> DEFINE why == SendRefusal(st.opts, u)
<1>1. CASE why # None /\ Settle(c, st.opts, why, "none")
  <2> HIDE DEF why
  <2> QED  BY <1>1, Settles
<1>2. CASE Request(c, [st EXCEPT !.pc = "token", !.url = u])
  <2> PICK q : q = [st EXCEPT !.pc = "token", !.url = u]
    OBVIOUS
  <2>1. q \in CallRecord
    BY Updates DEF Pc
  <2>2. q.pc = "token" /\ q.url = u /\ q.opts = st.opts /\ q.late = st.late
    BY DEF CallRecord
  <2>3. CallInv(q)
    BY <2>2 DEF CallInv, Dated, Told, Sending, Asking
  <2> QED  BY <1>2, <2>1, <2>2, <2>3, Requests
<1> QED  BY <1>1, <1>2 DEF Send
-----------------------------------------------------------------------------
(* The steps of a call                                                     *)

\* A call with options o, as it begins.
Begun(o, late) ==
    [Idle EXCEPT !.pc = "discovery", !.opts = o, !.url = NoUrl(o.issuer),
                 !.introspect = o.introspect, !.late = late]

LEMMA Begins ==
    ASSUME NEW o \in Options, NEW late \in BOOLEAN
    PROVE  /\ Begun(o, late) \in CallRecord /\ Begun(o, late).pc = "discovery"
           /\ Begun(o, late).opts = o /\ Begun(o, late).late = late
           /\ Begun(o, late).url \in Url
<1>1. NoUrl(o.issuer) \in Url /\ o.introspect \in BOOLEAN /\ "discovery" \in Pc
  BY OptionFields, GivenUrls DEF Pc
<1>2. Begun(o, late) \in CallRecord
  BY <1>1, IdleRecord, Updates DEF Begun
<1>3. /\ Begun(o, late).pc = "discovery" /\ Begun(o, late).opts = o
      /\ Begun(o, late).late = late /\ Begun(o, late).url = NoUrl(o.issuer)
  BY DEF Idle, Begun
<1> QED  BY <1>1, <1>2, <1>3

\* The entry a call may use is of its issuer; one that must know better does
\* not find the old endpoint there.
LEMMA Hits ==
    ASSUME ClientsInv, NEW o \in Options, NEW u \in Cached(o)
    PROVE  u \in Url /\ u.of = o.issuer /\ o.client = "dcr" /\ (MustKnow(o) => u.is # "old")
<1>1. o.issuer \in Issuers
  BY OptionFields
<1>2. u = cache[o.issuer].url /\ cache[o.issuer].left > 0 /\ ~o.noCache /\ o.client = "dcr"
  BY DEF Cached, Hit
<1>3. cache[o.issuer] \in [url: Url, left: 0..CacheTtl] /\ moved[o.issuer] \in 0..Settled
  BY <1>1 DEF ClientsInv, CacheInv
<1>4. MustKnow(o) => moved[o.issuer] = Settled
  BY <1>2 DEF MustKnow
<1>5. Settled \in Nat
  BY TimeAssumption DEF Settled
<1>6. MustKnow(o) => u.is # "old"
  BY <1>1, <1>2, <1>3, <1>4, <1>5, TimeAssumption DEF ClientsInv, CacheInv
<1> QED  BY <1>1, <1>2, <1>3, <1>6 DEF ClientsInv, CacheInv

LEMMA StartKeeps ==
    ASSUME ClientsInv, NEW c \in Calls, NEW o \in Options, Start(c, o)
    PROVE  CallsInv' /\ ExchangedForAudience'
<1> PICK late \in BOOLEAN : late <=> o.client = "dcr" /\ MustKnow(o)
  OBVIOUS
<1>0. late = (o.client = "dcr" /\ MustKnow(o))
  OBVIOUS
<1> PICK st : st = Begun(o, late)
  OBVIOUS
<1>1. /\ st \in CallRecord /\ st.pc = "discovery" /\ st.opts = o /\ st.late = late
      /\ st.url \in Url
  BY Begins
<1>2. CallsInv /\ moved' = moved
  BY DEF ClientsInv, Start
<1>3. late => o.client = "dcr" /\ moved[o.issuer] > 0
  <2>1. Settled > 0
    BY TimeAssumption DEF Settled
  <2> QED  BY <2>1 DEF MustKnow
<1>4. \/ Refusal(o) # None /\ Settle(c, o, Refusal(o), "none")
      \/ Send(c, st, o.given)
      \/ \E u \in Cached(o) : Send(c, st, u)
      \/ Request(c, st)
  BY <1>0 DEF Start, Begun
<1>5. CASE Refusal(o) # None /\ Settle(c, o, Refusal(o), "none")
  BY <1>2, <1>5, Settles
<1>6. CASE Send(c, st, o.given)
  BY <1>1, <1>2, <1>3, <1>6, OptionFields, Sends
<1>7. CASE \E u \in Cached(o) : Send(c, st, u)
  <2> PICK u \in Cached(o) : Send(c, st, u)
    BY <1>7
  <2>1. u \in Url /\ u.of = o.issuer /\ (late => u.is # "old")
    BY Hits
  <2> QED  BY <1>1, <1>2, <1>3, <2>1, Sends
<1>8. CASE Request(c, st)
  <2>1. CallInv(st)
    BY <1>1, <1>3 DEF CallInv, Dated, Told, Sending, Asking
  <2> QED  BY <1>1, <1>2, <1>8, <2>1, Requests
<1> QED  BY <1>4, <1>5, <1>6, <1>7, <1>8

LEMMA DiscoveryKeeps ==
    ASSUME CallsInv, NEW c \in Calls, Busy(c), DiscoveryFails(c)
    PROVE  CallsInv' /\ ExchangedForAudience'
<1>1. moved' = moved
  BY DEF DiscoveryFails
<1>2. CASE O(c).client = "jb" /\ Request(c, [call[c] EXCEPT !.pc = "discovery", !.second = TRUE, !.ok = FALSE])
  <2> PICK q : q = [call[c] EXCEPT !.pc = "discovery", !.second = TRUE, !.ok = FALSE]
    OBVIOUS
  <2>1. q \in CallRecord
    BY CallFields, Updates DEF Pc
  <2>2. q.pc = "discovery" /\ q.opts = O(c) /\ q.url = call[c].url /\ q.late = call[c].late
    BY CallFields DEF CallRecord, O
  <2>3. CallInv(q)
    BY <1>2, <2>2, CallFields DEF CallInv, Dated, Told, Sending, Asking, Busy, O
  <2> QED  BY <1>1, <1>2, <2>1, <2>2, <2>3, Requests
<1>3. CASE Settle(c, O(c), IF O(c).client = "cc" THEN "discovery-failed" ELSE "discovery", "none")
  <2> DEFINE why == IF O(c).client = "cc" THEN "discovery-failed" ELSE "discovery"
  <2>1. why # None
    BY ThrowsReasons
  <2> HIDE DEF why
  <2>2. Settle(c, O(c), why, "none")
    BY <1>3 DEF why
  <2> QED  BY <1>1, <2>1, <2>2, Settles
<1> QED  BY <1>2, <1>3 DEF DiscoveryFails

LEMMA FetchKeeps ==
    ASSUME CallsInv, NEW c \in Calls, FetchFails(c)
    PROVE  CallsInv' /\ ExchangedForAudience' /\ UNCHANGED <<cache, moved>>
<1>1. CASE call[c].pc = "discovery" /\ DiscoveryFails(c)
  BY <1>1, DiscoveryKeeps DEF Busy, DiscoveryFails
<1>2. CASE Settle(c, O(c), "transport", "none") /\ UNCHANGED <<cache, moved>>
  BY <1>2, ThrowsReasons, Settles
<1>3. CASE Settle(c, O(c), "introspection", "none") /\ UNCHANGED <<cache, moved>>
  BY <1>3, ThrowsReasons, Settles
<1> QED  BY <1>1, <1>2, <1>3 DEF FetchFails

LEMMA HeadersKeep ==
    ASSUME ClientsInv, NEW c \in Calls, NEW ok \in BOOLEAN, Headers(c, ok)
    PROVE  CallsInv' /\ ExchangedForAudience' /\ UNCHANGED <<cache, moved>>
<1>1. CallsInv
  BY DEF ClientsInv
<1> DEFINE next == [discovery |-> "metadata", token |-> "tokenBody", introspect |-> "introspectBody"]
           pc == call[c].pc
           now == IF pc = "discovery" /\ moved[O(c).issuer] > 0 THEN "new" ELSE "old"
<1>2. CASE /\ pc \in DOMAIN next /\ (ok \/ pc = "token")
           /\ call' = [call EXCEPT ![c].pc = next[pc], ![c].ok = ok, ![c].named = now]
           /\ answer' = NoAnswer /\ UNCHANGED <<cache, moved>>
  <2> PICK p : p = next[pc]
    OBVIOUS
  <2> PICK n : n = now
    OBVIOUS
  <2> PICK q : q = [call[c] EXCEPT !.pc = p, !.ok = ok, !.named = n]
    OBVIOUS
  <2>1. \/ pc = "discovery" /\ p = "metadata"
        \/ pc = "token" /\ p = "tokenBody"
        \/ pc = "introspect" /\ p = "introspectBody" /\ ok
    BY <1>2
  <2>2. n \in {"old", "new"} /\ (pc = "discovery" => (n = "new" <=> moved[O(c).issuer] > 0))
    OBVIOUS
  <2>3. call' = [call EXCEPT ![c] = q]
    BY <1>1, <1>2 DEF CallsInv
  <2> HIDE DEF next, now
  <2>4. q \in CallRecord
    BY <1>1, <2>1, <2>2, CallFields, Updates DEF Pc
  <2>5. /\ q.pc = p /\ q.ok = ok /\ q.named = n /\ q.opts = O(c) /\ q.url = call[c].url
        /\ q.late = call[c].late /\ q.token = call[c].token /\ q.age = call[c].age
    BY <1>1, CallFields DEF CallRecord, O
  <2>6. /\ CallInv(call[c]) /\ O(c) \in Options /\ O(c).issuer \in Issuers
        /\ call[c].age \in 0..Timeout
    BY <1>1, <2>1, CallFields, OptionFields DEF Busy
  <2>7. moved[O(c).issuer] \in 0..Settled /\ Settled \in Nat
    BY <2>6, TimeAssumption DEF ClientsInv, Settled
  <2>8. Dated(q)
    BY <2>1, <2>2, <2>5, <2>6, <2>7 DEF Dated
  <2>9. CallInv(q)
    BY <2>1, <2>2, <2>5, <2>6, <2>7, <2>8 DEF CallInv, Told, Sending, Asking, O
  <2>10. CallsInv'
    BY <1>1, <1>2, <2>3, <2>4, <2>9, CallMoves
  <2> QED  BY <1>2, <2>10 DEF ExchangedForAudience
<1>3. CASE pc = "discovery" /\ DiscoveryFails(c)
  BY <1>1, <1>3, DiscoveryKeeps DEF Busy, DiscoveryFails
<1>4. CASE Settle(c, O(c), "introspection", "none") /\ UNCHANGED <<cache, moved>>
  BY <1>1, <1>4, ThrowsReasons, Settles
<1> QED  BY <1>2, <1>3, <1>4 DEF Headers

\* A document is about its issuer, and names the old endpoint only if it was
\* served before the move.
LEMMA Served ==
    ASSUME CallsInv, NEW c \in Calls, Busy(c), NEW d \in Documents(c)
    PROVE  /\ d.url \in Url /\ d.url.of = O(c).issuer /\ d.introspect \in BOOLEAN
           /\ d.url.is = "old" => call[c].named = "old"
<1> DEFINE i == O(c).issuer
           urls == {[of |-> i, is |-> k] :
                       k \in {call[c].named, "notHttp", "notUrl", "empty", "none"}}
<1>1. i \in Issuers /\ call[c].named \in {"old", "new"}
  BY CallFields, OptionFields DEF CallRecord
<1>2. d.introspect \in BOOLEAN /\ (d.url = NoUrl(i) \/ d.url \in urls)
  BY DEF Documents
<1>3. \A u \in urls : u \in Url /\ u.of = i /\ (u.is = "old" => call[c].named = "old")
  BY <1>1 DEF Url
<1>4. NoUrl(i) \in Url /\ NoUrl(i).of = i /\ NoUrl(i).is = "none"
  BY <1>1, GivenUrls
<1> HIDE DEF urls
<1> QED  BY <1>2, <1>3, <1>4

LEMMA ReadMetadataKeeps ==
    ASSUME ClientsInv, NEW c \in Calls, NEW d \in Documents(c), ReadMetadata(c, d)
    PROVE  CallsInv' /\ ExchangedForAudience' /\ moved' = moved /\ CacheInv'
<1>1. CallsInv /\ Busy(c) /\ call[c].pc = "metadata"
  BY DEF ClientsInv, ReadMetadata, Busy
<1>2. CASE DiscoveryFails(c)
  <2>1. cache' = cache /\ moved' = moved
    BY <1>2 DEF DiscoveryFails
  <2> QED  BY <1>1, <1>2, <2>1, DiscoveryKeeps DEF ClientsInv, CacheInv
<1>3. CASE /\ Send(c, [call[c] EXCEPT !.ok = FALSE, !.named = "old",
                                      !.introspect = @ \/ d.introspect], d.url)
           /\ Remember(c, d.url) /\ UNCHANGED moved
  <2>1. /\ call[c] \in CallRecord /\ CallInv(call[c]) /\ O(c) \in Options /\ O(c).issuer \in Issuers
        /\ call[c].age \in 0..Timeout /\ call[c].introspect \in BOOLEAN
    BY <1>1, CallFields, OptionFields DEF CallRecord
  <2>2. /\ d.url \in Url /\ d.url.of = O(c).issuer /\ d.introspect \in BOOLEAN
        /\ d.url.is = "old" => call[c].named = "old"
    BY <1>1, Served
  <2> PICK n \in BOOLEAN : n <=> call[c].introspect \/ d.introspect
    OBVIOUS
  <2>3. n = (call[c].introspect \/ d.introspect)
    OBVIOUS
  <2> PICK st : st = [call[c] EXCEPT !.ok = FALSE, !.named = "old", !.introspect = n]
    OBVIOUS
  <2>4. st \in CallRecord /\ st.opts = O(c) /\ st.late = call[c].late
    <3>1. st \in CallRecord
      BY <2>1, Updates
    <3>2. st.opts = O(c) /\ st.late = call[c].late
      BY <2>1 DEF CallRecord, O
    <3> QED  BY <3>1, <3>2
  <2>5. Send(c, st, d.url)
    BY <1>3, <2>1, <2>3 DEF CallRecord
  <2>6. st.late => st.opts.client = "dcr" /\ moved[st.opts.issuer] > 0 /\ d.url.is # "old"
    BY <1>1, <2>1, <2>2, <2>4 DEF CallInv, Told, O
  <2>7. CallsInv' /\ ExchangedForAudience'
    BY <1>1, <1>3, <2>1, <2>2, <2>4, <2>5, <2>6, Sends
  <2>8. CASE O(c).client # "dcr"
    <3>1. cache' = cache /\ moved' = moved
      BY <1>3, <2>8 DEF Remember
    <3> QED  BY <2>7, <3>1 DEF ClientsInv, CacheInv
  <2>9. CASE O(c).client = "dcr"
    <3>1. cache' = [cache EXCEPT ![O(c).issuer] = [url |-> d.url, left |-> CacheTtl]]
      BY <1>3, <2>9 DEF Remember
    <3>2. d.url.is = "old" => moved[O(c).issuer] <= call[c].age + 1
      BY <1>1, <2>1, <2>2, <2>9 DEF CallInv, Dated, O
    <3>3. moved[O(c).issuer] \in 0..Settled /\ Settled = CacheTtl + Timeout + 1
      BY <2>1 DEF ClientsInv, Settled
    <3>4. d.url.is = "old" => moved[O(c).issuer] + CacheTtl <= Settled
      BY <2>1, <3>2, <3>3, TimeAssumption
    <3>5. [url |-> d.url, left |-> CacheTtl] \in [url: Url, left: 0..CacheTtl]
      BY <2>2, TimeAssumption
    <3>6. cache' \in [Issuers -> [url: Url, left: 0..CacheTtl]]
      BY <3>1, <3>5 DEF ClientsInv, CacheInv
    <3>7. ASSUME NEW i \in Issuers
          PROVE  /\ cache'[i].url.of = i
                 /\ cache'[i].left > 0 /\ cache'[i].url.is = "old" =>
                      moved[i] + cache'[i].left <= Settled
      <4>1. CASE i = O(c).issuer
        <5>1. cache'[i] = [url |-> d.url, left |-> CacheTtl]
          BY <2>1, <3>1, <4>1 DEF ClientsInv, CacheInv
        <5> QED  BY <2>2, <3>4, <4>1, <5>1
      <4>2. CASE i # O(c).issuer
        <5>1. cache'[i] = cache[i]
          BY <3>1, <4>2 DEF ClientsInv, CacheInv
        <5> QED  BY <5>1 DEF ClientsInv, CacheInv
      <4> QED  BY <4>1, <4>2
    <3>8. CacheInv'
      BY <1>3, <3>6, <3>7 DEF CacheInv, Settled
    <3> QED  BY <1>3, <2>7, <3>8
  <2> QED  BY <2>8, <2>9
<1> QED  BY <1>2, <1>3 DEF ReadMetadata

\* A minted token that is believed at once is a JWT for the audience.
LEMMA Believed ==
    ASSUME NEW ok \in BOOLEAN, NEW b \in Bodies, TEVerdict(ok, b) = None
    PROVE  ok /\ b.token \in TokenKinds /\ (Opaque(b.token) \/ b.token = "jwtMine")
<1>1. b.shape = "object" /\ ok /\ JwtVerdict(b.token) = None
  BY ThrowsReasons DEF TEVerdict
<1>2. b.token \in TokenKinds \ {"none"}
  BY <1>1 DEF Bodies
<1>3. b.token # "jwtBroken" /\ b.token # "jwtOther"
  BY <1>1, ThrowsReasons DEF JwtVerdict
<1> QED  BY <1>1, <1>2, <1>3 DEF TokenKinds, Opaque

LEMMA ReadTokenKeeps ==
    ASSUME CallsInv, NEW c \in Calls, NEW b \in Bodies, ReadToken(c, b)
    PROVE  CallsInv' /\ ExchangedForAudience' /\ UNCHANGED <<cache, moved>>
<1> DEFINE why == Verdict(O(c), call[c].ok, b)
           asks == O(c).client = "te" /\ Opaque(b.token)
<1>1. UNCHANGED <<cache, moved>> /\ Busy(c)
  BY DEF ReadToken, Busy
<1>2. /\ call[c] \in CallRecord /\ CallInv(call[c]) /\ O(c) \in Options
      /\ call[c].ok \in BOOLEAN /\ call[c].url \in Url
  BY <1>1, CallFields DEF CallRecord
<1>3. why = None /\ O(c).client = "te" =>
        /\ call[c].ok /\ b.token \in TokenKinds
        /\ Opaque(b.token) \/ b.token = "jwtMine"
  BY <1>2, Believed DEF Verdict
<1> HIDE DEF why
<1>4. CASE why # None /\ Settle(c, O(c), why, "none")
  BY <1>1, <1>4, Settles
<1>5. CASE why = None /\ ~asks /\ Settle(c, O(c), None, b.token)
  BY <1>1, <1>3, <1>5, Settles
<1>6. CASE Settle(c, O(c), "introspection", "none")
  BY <1>1, <1>6, ThrowsReasons, Settles
<1>7. CASE /\ why = None /\ asks
           /\ Request(c, [call[c] EXCEPT !.pc = "introspect", !.token = b.token, !.ok = FALSE])
  <2> PICK q : q = [call[c] EXCEPT !.pc = "introspect", !.token = b.token, !.ok = FALSE]
    OBVIOUS
  <2>1. q \in CallRecord
    BY <1>2, <1>3, <1>7, Updates DEF Pc
  <2>2. /\ q.pc = "introspect" /\ q.token = b.token /\ q.opts = O(c) /\ q.url = call[c].url
        /\ q.late = call[c].late
    BY <1>2 DEF CallRecord, O
  <2>3. CallInv(q)
    BY <1>1, <1>2, <1>7, <2>2 DEF CallInv, Dated, Told, Sending, Asking, Busy, O
  <2> QED  BY <1>1, <1>7, <2>1, <2>2, <2>3, Requests
<1> QED  BY <1>1, <1>4, <1>5, <1>6, <1>7 DEF ReadToken, why

LEMMA ReadIntrospectionKeeps ==
    ASSUME CallsInv, NEW c \in Calls, NEW shape, ReadIntrospection(c, shape)
    PROVE  CallsInv' /\ ExchangedForAudience' /\ UNCHANGED <<cache, moved>>
<1> DEFINE t == call[c].token
           why == Introspected([shape |-> shape, token |-> t])
           u == IF why = None THEN t ELSE "none"
<1>1. UNCHANGED <<cache, moved>> /\ Settle(c, O(c), why, u)
  BY DEF ReadIntrospection
<1>2. call[c].ok /\ Opaque(t)
  BY CallFields DEF ReadIntrospection, CallInv, Asking
<1>3. why = None => u = "opaqueMine"
  BY <1>2, ThrowsReasons DEF Introspected, Opaque
<1> HIDE DEF why, u
<1> QED  BY <1>1, <1>2, <1>3, Settles

LEMMA BodyKeeps ==
    ASSUME ClientsInv, NEW c \in Calls, BodyFails(c)
    PROVE  CallsInv' /\ ExchangedForAudience' /\ moved' = moved /\ CacheInv'
<1>1. CallsInv
  BY DEF ClientsInv
<1>2. CASE \E d \in Documents(c) : ReadMetadata(c, d)
  BY <1>2, ReadMetadataKeeps
<1>3. CASE ReadToken(c, Garbage)
  <2>1. [shape |-> "garbage", lacks |-> None, token |-> "none"] \in Bodies
    BY DEF Bodies
  <2>2. Garbage \in Bodies
    BY <2>1 DEF Garbage
  <2>3. CallsInv' /\ ExchangedForAudience' /\ UNCHANGED <<cache, moved>>
    BY <1>1, <1>3, <2>2, ReadTokenKeeps
  <2> QED  BY <2>3 DEF ClientsInv, CacheInv
<1>4. CASE ReadIntrospection(c, "garbage")
  <2>1. CallsInv' /\ ExchangedForAudience' /\ UNCHANGED <<cache, moved>>
    BY <1>1, <1>4, ReadIntrospectionKeeps
  <2> QED  BY <2>1 DEF ClientsInv, CacheInv
<1> QED  BY <1>2, <1>3, <1>4 DEF BodyFails

LEMMA CallStepKeeps ==
    ASSUME ClientsInv, NEW c \in Calls, CallStep(c)
    PROVE  CallsInv' /\ ExchangedForAudience' /\ moved' = moved /\ CacheInv'
<1>1. CallsInv
  BY DEF ClientsInv
<1>2. CASE \E ok \in BOOLEAN : Headers(c, ok)
  BY <1>2, HeadersKeep DEF ClientsInv, CacheInv
<1>3. CASE \E d \in Documents(c) : ReadMetadata(c, d)
  BY <1>3, ReadMetadataKeeps
<1>4. CASE \E b \in Bodies : ReadToken(c, b)
  BY <1>1, <1>4, ReadTokenKeeps DEF ClientsInv, CacheInv
<1>5. CASE \E shape \in {"garbage", "scalar", "object"} : ReadIntrospection(c, shape)
  BY <1>1, <1>5, ReadIntrospectionKeeps DEF ClientsInv, CacheInv
<1>6. CASE FetchFails(c)
  BY <1>1, <1>6, FetchKeeps DEF ClientsInv, CacheInv
<1>7. CASE BodyFails(c)
  BY <1>7, BodyKeeps
<1> QED  BY <1>2, <1>3, <1>4, <1>5, <1>6, <1>7 DEF CallStep, Abort
-----------------------------------------------------------------------------
(* The steps of the world around the calls                                 *)

\* When time passes, a document that is being read ages with the move, and the
\* entries lose what the move gains.
LEMMA TickKeeps ==
    ASSUME ClientsInv, Tick
    PROVE  ClientsInv'
<1>1. /\ moved \in [Issuers -> 0..Settled] /\ CallsInv /\ CacheInv
      /\ Settled \in Nat /\ Settled = CacheTtl + Timeout + 1
      /\ Timeout \in Nat /\ CacheTtl \in Nat
  BY TimeAssumption DEF ClientsInv, Settled
<1>2. \A i \in Issuers : /\ moved'[i] \in 0..Settled
                         /\ moved[i] = 0 => moved'[i] = 0
                         /\ moved[i] > 0 => moved'[i] > 0
                         /\ moved'[i] <= moved[i] + 1
  <2>1. ASSUME NEW i \in Issuers
        PROVE  moved'[i] = IF moved[i] \in 1..Settled - 1 THEN moved[i] + 1 ELSE moved[i]
    BY DEF Tick
  <2>2. \A i \in Issuers : moved[i] \in 0..Settled
    BY <1>1
  <2> QED  BY <1>1, <2>1, <2>2
<1>3. moved' \in [Issuers -> 0..Settled]
  BY <1>2 DEF Tick
<1>4. ASSUME NEW c \in Calls
      PROVE  call'[c] \in CallRecord /\ CallInv(call[c])'
  <2>1. /\ call[c] \in CallRecord /\ CallInv(call[c]) /\ call[c].age \in 0..Timeout
        /\ call[c].pc # "idle" => O(c) \in Options /\ O(c).issuer \in Issuers
    BY <1>1, CallFields, OptionFields DEF Busy
  <2>2. CASE Armed(c)
    <3> PICK q : q = [call[c] EXCEPT !.age = @ + 1]
      OBVIOUS
    <3>1. call'[c] = q /\ call[c].age + 1 \in 0..Timeout
      BY <2>1, <2>2, <1>1 DEF Tick
    <3>2. q \in CallRecord
      BY <2>1, <3>1, Updates DEF CallRecord
    <3>3. /\ q.pc = call[c].pc /\ q.opts = O(c) /\ q.url = call[c].url /\ q.late = call[c].late
          /\ q.named = call[c].named /\ q.token = call[c].token /\ q.ok = call[c].ok
          /\ q.age = call[c].age + 1
      BY <2>1 DEF CallRecord, O
    <3>4. Armed(c) => q.pc # "idle"
      BY <3>3 DEF Armed, Busy
    <3>5. moved[O(c).issuer] \in 0..Settled
      BY <1>1, <2>1, <2>2 DEF Armed, Busy
    <3>6. (q.pc = "metadata" /\ q.opts.client = "dcr" /\ q.named = "old" =>
             moved'[q.opts.issuer] <= q.age + 1)
      BY <1>1, <1>2, <2>1, <2>2, <3>3, <3>4, <3>5 DEF CallInv, Dated, O
    <3>7. q.late => moved'[q.opts.issuer] > 0
      BY <1>2, <2>1, <2>2, <3>3, <3>4 DEF CallInv, Told, O
    <3>8. CallInv(call[c])'
      BY <2>1, <3>1, <3>3, <3>6, <3>7 DEF CallInv, Dated, Told, Sending, Asking, O
    <3> QED  BY <3>1, <3>2, <3>8
  <2>3. CASE ~Armed(c)
    <3>1. call'[c] = call[c]
      BY <2>3 DEF Tick
    <3>2. call[c].pc = "metadata" => O(c).client # "dcr"
      BY <2>3 DEF Armed, Busy
    <3>3. call[c].pc # "idle" /\ call[c].late => moved'[O(c).issuer] > 0
      BY <1>2, <2>1 DEF CallInv, Told, O
    <3>4. CallInv(call[c])'
      BY <2>1, <3>1, <3>2, <3>3 DEF CallInv, Dated, Told, O
    <3> QED  BY <2>1, <3>1, <3>4
  <2> QED  BY <2>2, <2>3
<1>5. CallsInv'
  BY <1>4 DEF CallsInv, Tick
<1>6. ASSUME NEW i \in Issuers
      PROVE  /\ cache'[i] \in [url: Url, left: 0..CacheTtl] /\ cache'[i].url.of = i
             /\ cache'[i].left > 0 /\ cache'[i].url.is = "old" =>
                  moved'[i] + cache'[i].left <= Settled
  <2>1. /\ cache[i] \in [url: Url, left: 0..CacheTtl] /\ cache[i].url.of = i
        /\ cache[i].left > 0 /\ cache[i].url.is = "old" => moved[i] + cache[i].left <= Settled
        /\ cache'[i] = Aged(i)
        /\ moved[i] \in 0..Settled /\ moved'[i] \in 0..Settled /\ moved'[i] <= moved[i] + 1
    BY <1>1, <1>2 DEF CacheInv, Tick
  <2>2. CASE cache[i].left < 2
    <3>1. cache'[i] = [url |-> NoUrl(i), left |-> 0]
      BY <2>1, <2>2 DEF Aged, NoEntry
    <3>2. NoUrl(i) \in Url /\ NoUrl(i).of = i /\ 0 \in 0..CacheTtl
      BY <1>1, GivenUrls
    <3> QED  BY <3>1, <3>2
  <2>3. CASE ~(cache[i].left < 2)
    <3>1. cache'[i] = [cache[i] EXCEPT !.left = @ - 1]
      BY <2>1, <2>3 DEF Aged
    <3>2. /\ cache[i].left \in 0..CacheTtl /\ cache[i].left - 1 \in 0..CacheTtl
          /\ cache[i].left - 1 > 0
      BY <1>1, <2>1, <2>3
    <3>3. cache'[i].url = cache[i].url /\ cache'[i].left = cache[i].left - 1
      BY <2>1, <3>1
    <3>4. cache'[i] \in [url: Url, left: 0..CacheTtl]
      BY <2>1, <3>1, <3>2
    <3> QED  BY <1>1, <2>1, <3>2, <3>3, <3>4
  <2> QED  BY <2>2, <2>3
<1>7. cache' \in [Issuers -> [url: Url, left: 0..CacheTtl]]
  BY <1>6 DEF Tick
<1>8. CacheInv'
  BY <1>6, <1>7 DEF CacheInv, Settled
<1>9. ExchangedForAudience'
  BY DEF Tick, ExchangedForAudience
<1> QED  BY <1>3, <1>5, <1>8, <1>9 DEF ClientsInv, Settled

\* The move itself: a TTL and a timeout are left.
LEMMA MoveKeeps ==
    ASSUME ClientsInv, NEW m \in Issuers, Move(m)
    PROVE  ClientsInv'
<1>1. /\ moved \in [Issuers -> 0..Settled] /\ CallsInv /\ CacheInv
      /\ Settled \in Nat /\ Settled = CacheTtl + Timeout + 1
      /\ Timeout \in Nat /\ CacheTtl \in Nat
  BY TimeAssumption DEF ClientsInv, Settled
<1>2. /\ moved' = [moved EXCEPT ![m] = 1] /\ moved[m] = 0 /\ call' = call /\ cache' = cache
      /\ answer' = NoAnswer
  BY DEF Move
<1>3. moved' \in [Issuers -> 0..Settled]
  BY <1>1, <1>2
<1>4. \A i \in Issuers : moved'[i] = moved[i] \/ (moved[i] = 0 /\ moved'[i] = 1)
  BY <1>1, <1>2
<1>5. ASSUME NEW c \in Calls  PROVE CallInv(call[c])'
  <2>1. /\ CallInv(call[c]) /\ call[c].age \in 0..Timeout
        /\ call[c].pc # "idle" => O(c) \in Options /\ O(c).issuer \in Issuers
    BY <1>1, CallFields, OptionFields DEF Busy
  <2>2. Dated(call[c])'
    BY <1>1, <1>2, <1>4, <2>1 DEF CallInv, Dated, O
  <2>3. call[c].pc # "idle" => Told(call[c])'
    BY <1>2, <1>4, <2>1 DEF CallInv, Told, O
  <2> QED  BY <1>2, <2>1, <2>2, <2>3 DEF CallInv
<1>6. CallsInv'
  BY <1>1, <1>2, <1>5 DEF CallsInv
<1>7. ASSUME NEW i \in Issuers, cache[i].left > 0, cache[i].url.is = "old"
      PROVE  moved'[i] + cache[i].left <= Settled
  <2>1. cache[i].left \in 0..CacheTtl /\ moved[i] + cache[i].left <= Settled
    BY <1>1, <1>7 DEF CacheInv
  <2> QED  BY <1>1, <1>4, <2>1
<1>8. CacheInv'
  BY <1>1, <1>2, <1>7 DEF CacheInv, Settled
<1>9. ExchangedForAudience'
  BY <1>2 DEF ExchangedForAudience
<1> QED  BY <1>3, <1>6, <1>8, <1>9 DEF ClientsInv, Settled

LEMMA EmptyCache ==
    ASSUME NEW C, C = [i \in Issuers |-> NoEntry(i)]
    PROVE  /\ C \in [Issuers -> [url: Url, left: 0..CacheTtl]]
           /\ \A i \in Issuers : C[i].url.of = i /\ C[i].left = 0
<1>1. \A i \in Issuers : NoEntry(i) \in [url: Url, left: 0..CacheTtl]
                        /\ NoEntry(i).url.of = i /\ NoEntry(i).left = 0
  BY GivenUrls, TimeAssumption DEF NoEntry
<1> QED  BY <1>1

LEMMA ClearCacheKeeps ==
    ASSUME ClientsInv, ClearCache
    PROVE  ClientsInv'
<1>1. CacheInv'
  BY EmptyCache DEF ClearCache, CacheInv
<1>2. CallsInv'
  BY DEF ClientsInv, CallsInv, CallInv, Dated, Told, ClearCache
<1>3. ExchangedForAudience'
  BY DEF ClearCache, ExchangedForAudience
<1> QED  BY <1>1, <1>2, <1>3 DEF ClearCache, ClientsInv, Settled
-----------------------------------------------------------------------------
(* The theorems                                                            *)

LEMMA ClientsInvInit == Init => ClientsInv
<1> SUFFICES ASSUME Init  PROVE ClientsInv
  OBVIOUS
<1>1. CacheInv
  BY EmptyCache DEF Init, CacheInv
<1>2. CallInv(Idle)
  BY IdleRecord DEF CallInv, Dated, Sending, Asking
<1>3. CallsInv
  BY <1>2, IdleRecord DEF Init, CallsInv
<1>4. 0 \in 0..Settled
  BY TimeAssumption DEF Settled
<1> QED  BY <1>1, <1>3, <1>4 DEF Init, ClientsInv, ExchangedForAudience

LEMMA ClientsInvNext == ClientsInv /\ [Next]_vars => ClientsInv'
<1> SUFFICES ASSUME ClientsInv, [Next]_vars  PROVE ClientsInv'
  OBVIOUS
<1>1. ASSUME NEW c \in Calls, CallStep(c)  PROVE ClientsInv'
  BY <1>1, CallStepKeeps DEF ClientsInv, Settled
<1>2. ASSUME NEW c \in Calls, NEW o \in Options, Start(c, o)  PROVE ClientsInv'
  <2>1. CallsInv' /\ ExchangedForAudience' /\ UNCHANGED <<cache, moved>>
    BY <1>2, StartKeeps DEF Start
  <2> QED  BY <2>1 DEF ClientsInv, CacheInv, Settled
<1>3. ASSUME NEW i \in Issuers, Move(i)  PROVE ClientsInv'
  BY <1>3, MoveKeeps
<1>4. CASE Tick
  BY <1>4, TickKeeps
<1>5. CASE ClearCache
  BY <1>5, ClearCacheKeeps
<1>6. CASE UNCHANGED vars
  BY <1>6 DEF vars, ClientsInv, CallsInv, CallInv, Dated, Told, CacheInv, ExchangedForAudience, Settled
<1> QED  BY <1>1, <1>2, <1>3, <1>4, <1>5, <1>6 DEF Next

\* The invariant holds in every state.
THEOREM ClientsInvariance == Spec => []ClientsInv
  BY ClientsInvInit, ClientsInvNext, PTL DEF Spec

\* Every state is well typed, for any calls, issuers, timeout and TTL.
THEOREM ClientsTypeCorrect == Spec => []TypeOK
<1>1. ClientsInv => TypeOK
  <2> SUFFICES ASSUME ClientsInv  PROVE TypeOK
    OBVIOUS
  <2>1. ASSUME NEW c \in Calls
        PROVE  /\ call[c].pc \in Pc /\ call[c].token \in TokenKinds
               /\ Busy(c) => O(c) \in Options /\ call[c].url \in Url
               /\ call[c].named \in {"old", "new"} /\ call[c].age \in 0..Timeout
               /\ {call[c].second, call[c].ok, call[c].introspect, call[c].late} \subseteq BOOLEAN
    BY CallFields DEF ClientsInv, CallRecord
  <2> QED  BY <2>1 DEF TypeOK, ClientsInv, CacheInv
<1> QED  BY ClientsInvariance, <1>1, PTL

\* A credential goes to its own issuer's endpoint, or to the one the caller
\* named, however many calls share the cache.
THEOREM CredentialsGoHome == Spec => []CredentialGoesHome
<1>1. ClientsInv => CredentialGoesHome
  BY DEF ClientsInv, CallsInv, CallInv, Sending, CredentialGoesHome, O
<1> QED  BY ClientsInvariance, <1>1, PTL

\* A registration that must know that the endpoint moved does not go to the old
\* one, whatever the timeout, the TTL and the calls that write the cache.
THEOREM StaleEndpointsAreForgotten == Spec => []StaleEndpointForgotten
<1>1. ClientsInv => StaleEndpointForgotten
  BY DEF ClientsInv, CallsInv, CallInv, Told, Sending, StaleEndpointForgotten
<1> QED  BY ClientsInvariance, <1>1, PTL

\* What exchangeToken returns came with a 2xx status and is proved to be for the
\* requested audience.
THEOREM ExchangesAreForTheAudience == Spec => []ExchangedForAudience
<1>1. ClientsInv => ExchangedForAudience
  BY DEF ClientsInv
<1> QED  BY ClientsInvariance, <1>1, PTL
=============================================================================
