----------------------------- MODULE TokenClients -----------------------------
(***************************************************************************)
(* The outbound OAuth clients: requestClientCredentialsToken ("cc"),       *)
(* requestTokenWithAssertion ("jb"), exchangeToken ("te") and              *)
(* registerClient ("dcr").  Each asks the issuer's metadata where to go    *)
(* unless the caller said, sends one credential there, and believes the    *)
(* answer only after its checks; "te" also proves for whom the minted      *)
(* token is.  A call stands at an await: for the headers of a reply, or    *)
(* for its body.                                                           *)
(*                                                                         *)
(* Only "dcr" remembers anything between calls, its metadataCache.         *)
(* Timers fire on time: time does not pass a request's timeout while its   *)
(* timer is armed.                                                         *)
(***************************************************************************)
EXTENDS Integers, FiniteSets

CONSTANTS
    Calls,      \* concurrent calls
    Issuers,    \* authorization servers
    Movers,     \* those whose endpoints may move (bounds the model)
    Timeout,    \* timeoutMs of every request, in ticks
    CacheTtl,   \* METADATA_CACHE_TTL_MS, in ticks
    None        \* no reason, no issuer

ASSUME TimeAssumption == Timeout \in Nat \ {0} /\ CacheTtl \in Nat \ {0}
ASSUME IssuerAssumption == None \notin Issuers /\ Movers \subseteq Issuers

\* What a call may throw.
Reasons == {"invalid-config", "input", "request-too-large", "subject-audience", "key",
            "signing", "discovery", "discovery-failed", "transport", "oauth-error",
            "invalid-response", "as-error", "malformed-response", "audience",
            "introspection", "inactive"}

ASSUME ReasonAssumption == None \notin Reasons

VARIABLES
    call,    \* per call: its await, its options and what it learned
    cache,   \* metadataCache: per issuer, an endpoint and the ticks it stays
    moved,   \* per issuer: ticks since its endpoints moved, 0 when they have not
    answer   \* the token exchangeToken returned in the last step

vars == <<call, cache, moved, answer>>

Clients == {"cc", "jb", "te", "dcr"}

\* An endpoint as written in a metadata document or by a caller: whose it is,
\* and whether it is the issuer's old or new one, one the caller named, or junk.
Url == [of: Issuers, is: {"old", "new", "given", "notHttp", "notUrl", "empty", "none"}]
NoUrl(i) == [of |-> i, is |-> "none"]

Fetchable(u) == u.is \in {"old", "new", "given"}

\* A bound on the age of a move: all that is cached has gone by then.
Settled == CacheTtl + Timeout + 1

\* The options of a call; the fields a client has no use for keep these values.
Plain(cl, i) == [client |-> cl, issuer |-> i, given |-> NoUrl(i), args |-> "good",
                 key |-> "secret", subject |-> "mine", noCache |-> FALSE,
                 introspect |-> FALSE]

Given(i) == {NoUrl(i), [of |-> i, is |-> "given"]}

CCOption(i, a, k) == [Plain("cc", i) EXCEPT !.args = a, !.key = k]

CCOptions == {CCOption(i, a, k) :
                i \in Issuers, a \in {"good", "bad"},
                k \in {"secret", "good", "noAlg", "unusable"}}

JBOption(i, u, k) == [Plain("jb", i) EXCEPT !.given = u, !.key = k]

JBOptions == UNION {{JBOption(i, u, k) :
                u \in Given(i), k \in {"good", "noAlg", "unreadable", "unusable"}} :
                    i \in Issuers}

TEOption(i, u, a, s, n) ==
    [Plain("te", i) EXCEPT !.given = u, !.args = a, !.subject = s, !.introspect = n]

TEOptions == UNION {{TEOption(i, u, a, s, n) :
                u \in Given(i), a \in {"good", "bad", "tooLong", "tooLongEncoded"},
                s \in {"mine", "foreign"}, n \in BOOLEAN} : i \in Issuers}

DcrOption(i, u, a, n) == [Plain("dcr", i) EXCEPT !.given = u, !.args = a, !.noCache = n]

DcrOptions == UNION {{DcrOption(i, u, a, n) :
                u \in Given(i) \cup {[of |-> i, is |-> "notHttp"]},
                a \in {"good", "bad"}, n \in BOOLEAN} : i \in Issuers}

Options == CCOptions \cup JBOptions \cup TEOptions \cup DcrOptions

Pc == {"idle", "discovery", "metadata", "token", "tokenBody", "introspect", "introspectBody"}

TokenKinds == {"none", "jwtMine", "jwtOther", "jwtBroken", "opaqueMine", "opaqueOther",
               "opaqueDead"}

\* A body of a token reply: unreadable, not an object, or an object that may
\* lack a field the client needs.
Bodies ==
    [shape: {"garbage", "scalar"}, lacks: {None}, token: {"none"}] \cup
    [shape: {"object"}, token: TokenKinds \ {"none"},
     lacks: {None, "access_token", "expires_in", "issued_token_type", "client_id"}]

Idle == [pc |-> "idle", opts |-> Plain("cc", None), url |-> NoUrl(None), second |-> FALSE,
         ok |-> FALSE, named |-> "old", introspect |-> FALSE, token |-> "none",
         age |-> 0, late |-> FALSE]

NoAnswer == [ok |-> FALSE, token |-> "none"]

NoEntry(i) == [url |-> NoUrl(i), left |-> 0]

Busy(c) == call[c].pc # "idle"
O(c) == call[c].opts

TypeOK ==
    /\ \A c \in Calls :
         /\ call[c].pc \in Pc /\ call[c].token \in TokenKinds
         /\ Busy(c) => O(c) \in Options /\ call[c].url \in Url
         /\ call[c].named \in {"old", "new"} /\ call[c].age \in 0..Timeout
         /\ {call[c].second, call[c].ok, call[c].introspect, call[c].late} \subseteq BOOLEAN
    /\ cache \in [Issuers -> [url: Url, left: 0..CacheTtl]]
    /\ moved \in [Issuers -> 0..Settled]

Init ==
    /\ call = [c \in Calls |-> Idle]
    /\ cache = [i \in Issuers |-> NoEntry(i)]
    /\ moved = [i \in Issuers |-> 0]
    /\ answer = NoAnswer
-----------------------------------------------------------------------------
(* Checks before any request                                               *)

\* validateConfig: everything but the usability of the signing key.
CCRefusal(o) == IF o.args = "bad" THEN "invalid-config" ELSE None

\* validateInput: a missing argument, or tokens beyond the limit as they are.
TEInput(o) == CASE o.args = "bad" -> "input"
                [] o.args = "tooLong" -> "request-too-large"
                [] OTHER -> None

\* validateSubjectAudience, when the caller declared the audience: opaque,
\* unreadable or for someone else.
TESubject(o) == IF o.subject = "foreign" THEN "subject-audience" ELSE None

\* The limit again, on the encoded body.
TEEncoded(o) == IF o.args = "tooLongEncoded" THEN "request-too-large" ELSE None

\* The first of the three that objects.
TERefusal(o) == IF TEInput(o) # None THEN TEInput(o)
                ELSE IF TESubject(o) # None THEN TESubject(o) ELSE TEEncoded(o)

\* validateInput and assertHttpOrHttpsUrl of the issuer.
DcrRefusal(o) == IF o.args = "bad" THEN "input" ELSE None

\* Why the call is refused outright; requestTokenWithAssertion checks nothing.
Refusal(o) == CASE o.client = "cc" -> CCRefusal(o)
                [] o.client = "jb" -> None
                [] o.client = "te" -> TERefusal(o)
                [] o.client = "dcr" -> DcrRefusal(o)

\* buildClientAssertion and inferAlg: an unusable key is found out only here.
CCSigning(o) == IF o.key \in {"noAlg", "unusable"} THEN "invalid-config" ELSE None

\* buildAssertion and resolveSigningKey.
JBSigning(o) == CASE o.key \in {"noAlg", "unreadable"} -> "key"
                  [] o.key = "unusable" -> "signing"
                  [] o.key = "good" -> None

\* The sanity check of the registration endpoint, wherever it came from.
DcrEndpoint(u) == IF u.is \in {"notHttp", "notUrl"} THEN "input" ELSE None

\* Why the credential is not sent to u after all.
SendRefusal(o, u) == CASE o.client = "cc" -> CCSigning(o)
                       [] o.client = "jb" -> JBSigning(o)
                       [] o.client = "te" -> None
                       [] o.client = "dcr" -> DcrEndpoint(u)
-----------------------------------------------------------------------------
(* What a reply is worth                                                   *)

\* Does a metadata document name an endpoint the client takes?
CCEndpoint(d) == d.shape = "object" /\ d.url.is \notin {"none", "empty", "notUrl"}
JBEndpoint(d) == d.shape = "object" /\ d.url.is # "none"
TEEndpoint(d) == d.shape = "object" /\ d.url.is \notin {"none", "empty"}
DcrNamed(d)   == d.shape = "object" /\ d.url.is \notin {"none", "empty"}

Takes(o, d) == CASE o.client = "cc" -> CCEndpoint(d)
                 [] o.client = "jb" -> JBEndpoint(d)
                 [] o.client = "te" -> TEEndpoint(d)
                 [] o.client = "dcr" -> DcrNamed(d)

\* readJson, oauthErrorFrom, normalizeTokenResponse.
CCVerdict(ok, b) ==
    IF b.shape = "garbage" THEN "transport"
    ELSE IF ~ok THEN "oauth-error"
    ELSE IF b.shape = "scalar" \/ b.lacks \in {"access_token", "expires_in"}
         THEN "invalid-response" ELSE None

\* Here an unreadable body outweighs the status.
JBVerdict(ok, b) ==
    IF b.shape = "garbage" THEN "invalid-response"
    ELSE IF ~ok THEN "as-error"
    ELSE IF b.shape = "scalar" \/ b.lacks = "access_token" THEN "invalid-response" ELSE None

\* validateAudience of a minted token that says itself for whom it is.
JwtVerdict(t) == CASE t = "jwtBroken" -> "malformed-response"
                   [] t = "jwtOther" -> "audience"
                   [] OTHER -> None

\* postTokenRequest, and what exchangeToken itself asks of the reply.
TEVerdict(ok, b) ==
    IF b.shape # "object" THEN "malformed-response"
    ELSE IF ~ok THEN "as-error"
    ELSE IF b.lacks \in {"access_token", "issued_token_type"} THEN "malformed-response"
    ELSE JwtVerdict(b.token)

DcrVerdict(ok, b) ==
    IF b.shape = "garbage" THEN "transport"
    ELSE IF b.shape = "scalar" THEN "malformed-response"
    ELSE IF ~ok THEN "as-error"
    ELSE IF b.lacks = "client_id" THEN "malformed-response" ELSE None

Verdict(o, ok, b) == CASE o.client = "cc" -> CCVerdict(ok, b)
                       [] o.client = "jb" -> JBVerdict(ok, b)
                       [] o.client = "te" -> TEVerdict(ok, b)
                       [] o.client = "dcr" -> DcrVerdict(ok, b)

Opaque(t) == t \in {"opaqueMine", "opaqueOther", "opaqueDead"}

\* Mutant: an active token is taken without a look at its audience.
Introspected_Active(b) ==
    CASE b.shape # "object" -> "introspection"
      [] b.shape = "object" /\ b.token = "opaqueDead" -> "inactive"
      [] b.shape = "object" /\ b.token # "opaqueDead" -> None

\* The reply of an introspection endpoint that knows the token.
Introspected(b) ==
    CASE b.shape # "object" -> "introspection"
      [] b.shape = "object" /\ b.token = "opaqueDead" -> "inactive"
      [] b.shape = "object" /\ b.token = "opaqueOther" -> "audience"
      [] b.shape = "object" /\ b.token = "opaqueMine" -> None
-----------------------------------------------------------------------------
(* One call                                                                *)

\* The call throws, or returns when there is no reason not to.
Settle(c, o, why, t) ==
    /\ call' = [call EXCEPT ![c] = Idle]
    /\ answer' = IF why = None /\ o.client = "te" THEN [ok |-> call[c].ok, token |-> t]
                 ELSE NoAnswer

\* The call sends a request and awaits the headers of its reply.
Request(c, st) == call' = [call EXCEPT ![c] = [st EXCEPT !.age = 0]] /\ answer' = NoAnswer

\* The endpoint is known: sign, check, and send the credential there.
Send(c, st, u) ==
    LET why == SendRefusal(st.opts, u) IN
    \/ why # None /\ Settle(c, st.opts, why, "none")
    \/ why = None /\ Request(c, [st EXCEPT !.pc = "token", !.url = u])

\* Mutant: the cache has one entry for all issuers.
Hit_Any(o) == {cache[i].url : i \in {j \in Issuers : cache[j].left > 0}}

\* metadataCache.get: an entry that is not over, unless the caller said noCache.
Hit(o) == {cache[i].url : i \in {j \in Issuers : j = o.issuer /\ cache[j].left > 0}}

Cached(o) == IF o.client # "dcr" \/ o.noCache THEN {} ELSE Hit(o)

\* The metadata a call started now must learn of the move: it asks for itself,
\* or all that was cached before, and by requests under way then, is over.
MustKnow(o) == \/ moved[o.issuer] > 0 /\ o.given.is = "none" /\ o.noCache
               \/ moved[o.issuer] = Settled

\* A call that does not use the cache shares nothing: it is run alone (bounds
\* the model).
Shares(o) == o.client = "dcr" /\ o.given.is = "none"
MayStart(o) == \A d \in Calls : Busy(d) => Shares(o) /\ Shares(O(d))

Start(c, o) ==
    LET st == [Idle EXCEPT !.pc = "discovery", !.opts = o, !.url = NoUrl(o.issuer),
                           !.introspect = o.introspect, !.late = o.client = "dcr" /\ MustKnow(o)]
    IN
    /\ ~Busy(c) /\ MayStart(o)
    /\ \/ Refusal(o) # None /\ Settle(c, o, Refusal(o), "none")
       \/ Refusal(o) = None /\ o.given.is # "none" /\ Send(c, st, o.given)
       \/ /\ Refusal(o) = None /\ o.given.is = "none"
          /\ \E u \in Cached(o) : Send(c, st, u)
       \/ /\ Refusal(o) = None /\ o.given.is = "none" /\ Cached(o) = {}
          /\ Request(c, st)
    /\ UNCHANGED <<cache, moved>>

\* The discovery fails; requestTokenWithAssertion has a second place to ask.
DiscoveryFails(c) ==
    /\ \/ /\ O(c).client = "jb" /\ ~call[c].second
          /\ Request(c, [call[c] EXCEPT !.pc = "discovery", !.second = TRUE, !.ok = FALSE])
       \/ /\ O(c).client # "jb" \/ call[c].second
          /\ Settle(c, O(c), IF O(c).client = "cc" THEN "discovery-failed" ELSE "discovery",
                    "none")
    /\ UNCHANGED <<cache, moved>>

\* fetch rejects: no connection, not a URL to fetch, or aborted.
FetchFails(c) ==
    \/ call[c].pc = "discovery" /\ DiscoveryFails(c)
    \/ /\ call[c].pc = "token" /\ Settle(c, O(c), "transport", "none")
       /\ UNCHANGED <<cache, moved>>
    \/ /\ call[c].pc = "introspect" /\ Settle(c, O(c), "introspection", "none")
       /\ UNCHANGED <<cache, moved>>

\* The headers of a reply arrive; what an error status of the token endpoint
\* means is decided with its body.
Headers(c, ok) ==
    LET next == [discovery |-> "metadata", token |-> "tokenBody",
                 introspect |-> "introspectBody"]
        pc == call[c].pc
        now == IF pc = "discovery" /\ moved[O(c).issuer] > 0 THEN "new" ELSE "old"
    IN
    \/ /\ pc \in DOMAIN next /\ (pc = "token" => Fetchable(call[c].url))
       /\ ok \/ pc = "token"
       /\ call' = [call EXCEPT ![c].pc = next[pc], ![c].ok = ok, ![c].named = now]
       /\ answer' = NoAnswer
       /\ UNCHANGED <<cache, moved>>
    \/ ~ok /\ pc = "discovery" /\ DiscoveryFails(c)
    \/ /\ ~ok /\ pc = "introspect" /\ Settle(c, O(c), "introspection", "none")
       /\ UNCHANGED <<cache, moved>>

\* The documents an issuer may serve: the endpoint it had when it answered, or
\* something else.
Documents(c) ==
    LET i == O(c).issuer IN
    [shape: {"garbage", "scalar"}, url: {NoUrl(i)}, introspect: {FALSE}] \cup
    [shape: {"object"}, introspect: IF O(c).client = "te" THEN BOOLEAN ELSE {FALSE},
     url: {[of |-> i, is |-> k] : k \in {call[c].named, "notHttp", "notUrl", "empty", "none"}}]

\* Mutant: the entry stays a tick too long.
Remember_Longer(c, u) ==
    cache' = IF O(c).client # "dcr" THEN cache
             ELSE [cache EXCEPT ![O(c).issuer] = [url |-> u, left |-> CacheTtl + 1]]

\* metadataCache.set, with or without noCache.
Remember(c, u) ==
    cache' = IF O(c).client # "dcr" THEN cache
             ELSE [cache EXCEPT ![O(c).issuer] = [url |-> u, left |-> CacheTtl]]

\* The metadata is read, or reading it fails.
ReadMetadata(c, d) ==
    /\ call[c].pc = "metadata"
    /\ \/ ~Takes(O(c), d) /\ DiscoveryFails(c)
       \/ /\ Takes(O(c), d)
          /\ Send(c, [call[c] EXCEPT !.ok = FALSE, !.named = "old",
                                     !.introspect = @ \/ d.introspect], d.url)
          /\ Remember(c, d.url)
          /\ UNCHANGED moved

\* The reply of the token (or registration) endpoint is read.
ReadToken(c, b) ==
    LET o == O(c)
        why == Verdict(o, call[c].ok, b)
        asks == o.client = "te" /\ Opaque(b.token)
    IN
    /\ call[c].pc = "tokenBody"
    /\ \/ why # None /\ Settle(c, o, why, "none")
       \/ why = None /\ ~asks /\ Settle(c, o, None, b.token)
       \/ why = None /\ asks /\ ~call[c].introspect /\ Settle(c, o, "introspection", "none")
       \/ /\ why = None /\ asks /\ call[c].introspect
          /\ Request(c, [call[c] EXCEPT !.pc = "introspect", !.token = b.token, !.ok = FALSE])
    /\ UNCHANGED <<cache, moved>>

\* The reply of the introspection endpoint is read.
ReadIntrospection(c, shape) ==
    LET t == call[c].token
        why == Introspected([shape |-> shape, token |-> t])
    IN
    /\ call[c].pc = "introspectBody"
    /\ Settle(c, O(c), why, IF why = None THEN t ELSE "none")
    /\ UNCHANGED <<cache, moved>>

Garbage == CHOOSE b \in Bodies : b.shape = "garbage"

\* The body ends in an error: response.json() rejects.
BodyFails(c) ==
    \/ \E d \in Documents(c) : d.shape = "garbage" /\ ReadMetadata(c, d)
    \/ ReadToken(c, Garbage)
    \/ ReadIntrospection(c, "garbage")

\* Mutant: the timer is cleared when the headers arrive, as in cc and jb.
Armed_Headers(c) == Busy(c) /\ call[c].pc \in {"discovery", "token", "introspect"}

\* Is a timer running for c?  AbortSignal.timeout covers the body ("te",
\* "dcr"); postWithTimeout and fetchWithTimeout clear theirs at the headers.
Armed(c) ==
    /\ Busy(c)
    /\ call[c].pc \in {"discovery", "token", "introspect"} \/ O(c).client \in {"te", "dcr"}

\* The timeout aborts the request.
Abort(c) ==
    /\ Armed(c) /\ call[c].age = Timeout
    /\ FetchFails(c) \/ BodyFails(c)

\* Mutant: expiresAt is not looked at.
Aged_Never(i) == cache[i]

\* The entry of i a tick later; one whose time is over is never used again.
Aged(i) == IF cache[i].left < 2 THEN NoEntry(i) ELSE [cache[i] EXCEPT !.left = @ - 1]

Tick ==
    /\ \A c \in Calls : Armed(c) => call[c].age < Timeout
    /\ call' = [c \in Calls |-> IF Armed(c) THEN [call[c] EXCEPT !.age = @ + 1] ELSE call[c]]
    /\ cache' = [i \in Issuers |-> Aged(i)]
    /\ moved' = [i \in Issuers |->
                    IF moved[i] \in 1..Settled - 1 THEN moved[i] + 1 ELSE moved[i]]
    /\ answer' = NoAnswer

\* An authorization server moves its endpoints (once).
Move(i) ==
    /\ i \in Movers /\ moved[i] = 0
    /\ moved' = [moved EXCEPT ![i] = 1]
    /\ answer' = NoAnswer
    /\ UNCHANGED <<call, cache>>

\* __clearDcrMetadataCache, or a restart while nothing runs.
ClearCache ==
    /\ cache' = [i \in Issuers |-> NoEntry(i)]
    /\ answer' = NoAnswer
    /\ UNCHANGED <<call, moved>>

CallStep(c) ==
    \/ \E ok \in BOOLEAN : Headers(c, ok)
    \/ \E d \in Documents(c) : ReadMetadata(c, d)
    \/ \E b \in Bodies : ReadToken(c, b)
    \/ \E shape \in {"garbage", "scalar", "object"} : ReadIntrospection(c, shape)
    \/ FetchFails(c)
    \/ Abort(c)

Next ==
    \/ \E c \in Calls : CallStep(c) \/ \E o \in Options : Start(c, o)
    \/ \E i \in Issuers : Move(i)
    \/ Tick
    \/ ClearCache

Spec == Init /\ [][Next]_vars

\* Time passes and timers fire; nothing is assumed of the servers.
FairSpec == Spec /\ WF_vars(Tick) /\ \A c \in Calls : WF_vars(Abort(c))
-----------------------------------------------------------------------------
(* Properties                                                              *)

\* A credential goes to the endpoint the caller named or to one that its own
\* issuer's metadata named, never to another issuer's, whatever calls share
\* the cache and whichever place the discovery fell back to.
CredentialGoesHome ==
    \A c \in Calls : call[c].pc \in {"token", "tokenBody"} => call[c].url.of = O(c).issuer

\* "Enough to dedupe a tight loop of registrations without pinning a stale
\* endpoint forever" (dcr.ts:27): a registration begun a TTL and a timeout
\* after the endpoint moved, or begun after the move with noCache, does not go
\* to the old one, although slow replies and concurrent calls write the cache.
StaleEndpointForgotten ==
    \A c \in Calls :
        call[c].late /\ O(c).client = "dcr" /\ call[c].pc \in {"token", "tokenBody"} =>
            call[c].url.is # "old"

\* exchangeToken fails closed (token-exchange.ts:203): what it returns came
\* with a 2xx status and is proved to be for the requested audience.
ExchangedForAudience ==
    answer # NoAnswer =>
        answer.ok /\ answer.token \in {"jwtMine", "opaqueMine"}

\* A token exchange and a registration settle, whatever the servers do: their
\* timeout covers the body, too.  (Those of cc and jb do not.)
TimedCallsSettle ==
    \A c \in Calls : (Busy(c) /\ O(c).client \in {"te", "dcr"}) ~> ~Busy(c)
=============================================================================
