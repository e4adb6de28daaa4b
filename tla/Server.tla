------------------------------- MODULE Server -------------------------------
(***************************************************************************)
(* A kit serving requests: createAuthKit, the MCP, PAT and metadata        *)
(* handlers, tenant resolution, the validation pipeline with its audit     *)
(* hook, the scope gate of a tool, and the Express and Hono adapters.      *)
(*                                                                         *)
(* A request stands at an await: of the resolver, of the token store, of   *)
(* a validator, of the audit hook, of the connect promise that all MCP     *)
(* requests share, of the SDK's transport, or of a tool.  All of them run  *)
(* on one thread, so a step runs from one await to the next.  What the PAT *)
(* handler does once it let a request in is module PatLifecycle.           *)
(***************************************************************************)
EXTENDS Scopes

CONSTANTS
    Requests,      \* HTTP requests, and tool calls of other transports
    Issuers,       \* authorization servers; a function-form config has one per tenant
    Uris,          \* the places where keys are served
    As,            \* the authorization servers there may be: an issuer, a jwksUri
    Introspecting, \* the issuers with an introspectionEndpoint
    Offered,       \* the configurations handed to createAuthKit
    ToolCallers,   \* the requests that may carry a tool call (bounds the model)
    Hosts,         \* the Host headers that come in
    Managers,      \* those that may go to the PAT handler (bounds the model)
    HeldSets,      \* sets of scopes a token may hold
    RequiredSeqs,  \* what a tool may require, in order
    None           \* no issuer, no keys, no path

ASSUME IssuerAssumption == Introspecting \subseteq Issuers /\ None \notin Issuers \cup Uris
ASSUME ScopeAssumption ==
    /\ \A held \in HeldSets : Normalizable(held) /\ \A s \in held : IsScope(s)
    /\ \A required \in RequiredSeqs :
         Len(required) \in 0..2 /\ \A n \in 1..Len(required) : IsScope(required[n])

VARIABLES
    kit,       \* what createAuthKit made of its configuration
    rq,        \* per request: where it stands and what it learned
    registry,  \* per issuer, the jwksUri whose keys validate its tokens
    transport  \* the shared transport: the promise, and the connects in flight

vars == <<kit, rq, registry, transport>>

ASSUME AsAssumption == As \subseteq [issuer: Issuers, uri: Uris]

NoAs == [issuer |-> None, uri |-> None]

\* An AuthKitConfig, as far as the checks and the pipeline tell them apart;
\* hosts is None when there is no allowlist and none can be derived.
Config == [form: {"none", "static", "function"}, home: As, bypass: BOOLEAN,
           allowInProduction: BOOLEAN, production: BOOLEAN, signed: BOOLEAN,
           static: BOOLEAN, pat: BOOLEAN, adapter: {"express", "hono"},
           hosts: SUBSET [of: Issuers, port: {"any", "443"}] \cup {None}]

ASSUME OfferedAssumption == Offered \subseteq Config

\* What a Host header says: whose name, which port, and nothing but these.
ASSUME HostAssumption ==
    Hosts \subseteq [of: Issuers, port: {"", "443"}, bare: BOOLEAN] \cup {None}

Token == [kind: {"none", "static", "pat", "opaque"}, iss: {None}, key: {None}] \cup
         [kind: {"jwt"}, iss: Issuers, key: Uris]
NoToken == [kind |-> "none", iss |-> None, key |-> None]

Paths == {"bypass", "static", "pat", "jwt", "introspection"}

Pc == {"idle", "resolving", "pat", "jwt", "introspection", "audit", "granted", "connecting",
       "transport", "managing", "running", "rejected", "done"}

\* Past the pipeline all that counts is whether it was a PAT.
Past == {"pat", "other"}

ASSUME PathAssumption == None \notin Paths \cup Past

\* An audit event; "allow" is dispatched once for each scope required.
Event == [type: {"none", "use", "unknown", "validate", "jwtReject", "introspectionReject",
                 "deny", "allow"}, n: 0..2]
Ev(t) == [type |-> t, n |-> 0]
Allow(n) == [type |-> "allow", n |-> n]

\* A tool call at its gate; custom: the scopes a custom matcher vouches for.
NoGate == [held |-> {}, required |-> <<>>, custom |-> {}]

Idle == [pc |-> "idle", route |-> None, tenant |-> None, token |-> NoToken, asked |-> 0,
         as |-> NoAs, path |-> None, event |-> Ev("none"), heard |-> {}, gate |-> NoGate, called |-> FALSE,
         status |-> 0, ended |-> FALSE]

TypeOK ==
    /\ kit.status \in {"none", "refused", "up"} /\ kit.config \in Offered \cup {None}
    /\ \A r \in Requests :
         /\ rq[r].pc \in Pc /\ rq[r].route \in {None, "mcp", "pats", "metadata", "direct"}
         /\ rq[r].token \in Token /\ rq[r].as \in As \cup {NoAs}
         /\ rq[r].path \in Paths \cup Past \cup {None} /\ rq[r].asked \in 0..2
         /\ rq[r].event \in Event /\ rq[r].heard \subseteq Event
         /\ rq[r].gate.held \subseteq UNION HeldSets
         /\ rq[r].status \in {0, 200, 400, 401, 403, 405, 500, 503}
         /\ rq[r].ended => rq[r].status # 0
    /\ registry \in [Issuers -> Uris \cup {None}]
    /\ transport \in [promise: {"none", "pending", "fulfilled"}, inFlight: 0..2]

Init ==
    /\ kit = [status |-> "none", config |-> None]
    /\ rq = [r \in Requests |-> Idle]
    /\ registry = [i \in Issuers |-> None]
    /\ transport = [promise |-> "none", inFlight |-> 0]

C == kit.config
-----------------------------------------------------------------------------
(* createAuthKit                                                           *)

\* checkBypassConfig throws.
UnsafeBypass(c) == c.bypass /\ c.production /\ ~c.allowInProduction

\* checkSignedStdioConfig throws.
UnsafeStdio(c) == c.signed /\ c.bypass

\* resolveHostOptions throws.
Underivable(c) == c.hosts = None

CreateAuthKit(c) ==
    /\ kit.status = "none"
    /\ kit' = IF UnsafeBypass(c) \/ UnsafeStdio(c) \/ Underivable(c)
              THEN [kit EXCEPT !.status = "refused"] ELSE [status |-> "up", config |-> c]
    /\ UNCHANGED <<rq, registry, transport>>

\* The process that threw at its start is started again.
StartAgain ==
    /\ kit.status = "refused"
    /\ kit' = [kit EXCEPT !.status = "none"]
    /\ UNCHANGED <<rq, registry, transport>>
-----------------------------------------------------------------------------
(* The ends of a request                                                   *)

\* The handler wrote status s and ended; what the request was is forgotten.
Replied(q, s) ==
    [Idle EXCEPT !.pc = "done", !.status = s, !.ended = TRUE,
                 !.path = IF q.path = None THEN None ELSE "other"]

\* A handler returned and wrote nothing: the Hono wrap finishes for it.
Silent(q) == IF C.adapter = "hono" THEN Replied(q, 200)
             ELSE [Idle EXCEPT !.pc = "done"]

\* The pipeline said no: writeChallenge, or an error result of the tool.
Refuse(q) == IF q.route = "direct" THEN Idle
             ELSE Replied([q EXCEPT !.path = None], 401)

\* Mutant: the wrap ends the response of a handler that threw.
Rejected_Ended(q) == Silent([q EXCEPT !.path = None])
\* A handler rejects before it wrote: next(err), or a throw for onError.
Rejected(q) == [q EXCEPT !.pc = "rejected", !.event = Ev("none"), !.heard = {},
                         !.path = None]

\* Something threw: the MCP handler catches all, the PAT handler's pipeline is
\* outside its try, the SDK reports a tool's error.
Fail(q) == CASE q.route = "mcp" -> Replied([q EXCEPT !.path = None], 500)
             [] q.route = "pats" -> Rejected(q)
             [] q.route = "direct" -> Idle

\* An audit event is dispatched and awaited.
Dispatch(q, e) == [q EXCEPT !.pc = "audit", !.event = e]

Grant(q, p) == [q EXCEPT !.pc = "granted", !.path = p, !.event = Ev("none")]
-----------------------------------------------------------------------------
(* runPipeline, as far as its next await                                   *)

\* looksLikeJwt, and what is left for a token that is none or failed.
Introspect(q) == IF q.as.issuer \in Introspecting THEN [q EXCEPT !.pc = "introspection"]
                 ELSE Refuse(q)

\* Steps 4 to 6.
AtIssuer(q) == IF q.as = NoAs THEN Refuse(q)
               ELSE IF q.token.kind = "jwt" THEN [q EXCEPT !.pc = "jwt"] ELSE Introspect(q)

\* Steps 2 and 3.
AtToken(q) ==
    IF q.token.kind = "static" /\ C.static THEN Grant(q, "static")
    ELSE IF q.token.kind = "none" THEN Refuse(q)
    ELSE IF q.token.kind = "pat" /\ C.pat THEN [q EXCEPT !.pc = "pat"]
    ELSE AtIssuer(q)

RunPipeline(q) == IF C.bypass THEN Grant(q, "bypass") ELSE AtToken(q)

\* createJwksRegistry: the keys that validate q's token.
KeysOf(q, known) == IF known = None THEN q.as.uri ELSE known

\* A step of request r to q; a JWT's validator registers its issuer, except
\* in a tool call outside HTTP, whose registry is its own.
Becomes(r, q) ==
    /\ rq' = [rq EXCEPT ![r] = q]
    /\ registry' = IF q.pc = "jwt" /\ q.route # "direct"
                   THEN [registry EXCEPT ![q.as.issuer] = KeysOf(q, @)] ELSE registry
    /\ UNCHANGED kit

\* Mutant: the answer is not kept on the request.
Memo_Not(q) == NoAs
\* RESOLVER_CACHE of the request: what a first handling found out.
Memo(q) == q.as

\* runPipelineForRequest: the tenant comes before everything, bypass included.
RunForRequest(q) ==
    CASE C.form = "none" -> RunPipeline(q)
      [] C.form = "static" -> RunPipeline([q EXCEPT !.as = C.home])
      [] C.form = "function" /\ Memo(q) # NoAs -> RunPipeline([q EXCEPT !.as = Memo(q)])
      [] C.form = "function" /\ Memo(q) = NoAs ->
            [q EXCEPT !.pc = "resolving", !.asked = q.asked + 1]
-----------------------------------------------------------------------------
(* Requests arrive                                                         *)

\* validateHost: a header that is more than an authority matches nothing.
HostAllowed(h) ==
    \/ C.hosts = {}
    \/ /\ h # None /\ h.bare
       /\ \E e \in C.hosts : e.of = h.of /\ e.port \in {"any", h.port}

\* defaultTenantIdFromHost.
TenantId(h) == IF h = None THEN None ELSE h.of

Request(route, h, t) == [Idle EXCEPT !.route = route, !.tenant = TenantId(h), !.token = t]

\* createMcpHandler and createPatsHandler, up to the pipeline.
Arrive(r, route, h, t) ==
    /\ kit.status = "up" /\ rq[r].pc = "idle"
    /\ route = "pats" => r \in Managers
    /\ LET q == Request(route, h, t)
       IN Becomes(r, IF HostAllowed(h) THEN RunForRequest(q) ELSE Replied(q, 403))
    /\ UNCHANGED transport

\* createMetadataHandler: no credential is asked for.
ServeMetadata(r, h, s) ==
    /\ kit.status = "up" /\ rq[r].pc = "idle"
    /\ s = IF HostAllowed(h) THEN s ELSE 403
    /\ Becomes(r, Replied([Idle EXCEPT !.path = "other"], s))
    /\ UNCHANGED transport

\* A tool is called by a transport of the consumer's own: the callback of
\* registerTool finds no AuthContext and runs the pipeline, with no tenant.
CallDirectly(r, t) ==
    /\ kit.status = "up" /\ rq[r].pc = "idle" /\ r \in ToolCallers
    /\ LET q == Request("direct", None, t)
       IN Becomes(r, RunPipeline(IF C.form = "static" THEN [q EXCEPT !.as = C.home] ELSE q))
    /\ UNCHANGED transport

\* The resolver answers with a server of the tenant's, wherever its keys are
\* today; or it throws, or its answer is not an AuthorizationServerConfig.
Resolve(r) ==
    LET q == rq[r] IN
    /\ q.pc = "resolving"
    /\ \/ Becomes(r, Replied(q, 503))
       \/ \E as \in As : /\ as.issuer = q.tenant
                         /\ Becomes(r, RunPipeline([q EXCEPT !.as = as]))
    /\ UNCHANGED transport
-----------------------------------------------------------------------------
(* The validators and the audit hook answer                                *)

FindPat(r) ==
    LET q == rq[r] IN
    /\ q.pc = "pat"
    /\ \/ Becomes(r, Dispatch(q, Ev("use")))
       \/ Becomes(r, Dispatch(q, Ev("unknown")))
       \/ Becomes(r, Fail(q))
    /\ UNCHANGED transport

\* Mutant: the signature is all that counts.
JwtGood_AnyIssuer(q, key) == q.token.key = key
\* jwtVerify, but for the times and the claims.
JwtGood(q, key) == q.token.iss = q.as.issuer /\ q.token.key = key

\* The keys a validator holds: those of the registry, or its own.
HeldKeys(q) == IF q.route = "direct" THEN q.as.uri ELSE KeysOf(q, registry[q.as.issuer])

ValidateJwt(r) ==
    LET q == rq[r] IN
    /\ q.pc = "jwt"
    /\ \/ /\ JwtGood(q, HeldKeys(q))
          /\ Becomes(r, Dispatch([q EXCEPT !.path = "jwt"], Ev("validate")))
       \/ Becomes(r, Dispatch(q, Ev("jwtReject")))
    /\ UNCHANGED transport

\* createIntrospectionValidator: active, for us, in time and with a subject,
\* or not; a reply that never comes has no timeout.
IntrospectToken(r) ==
    LET q == rq[r] IN
    /\ q.pc = "introspection"
    /\ \/ Becomes(r, Dispatch([q EXCEPT !.path = "introspection"], Ev("validate")))
       \/ Becomes(r, Dispatch(q, Ev("introspectionReject")))
    /\ UNCHANGED transport

\* The call is over, whatever the tool made of it.
ToolDone(q) == IF q.route = "direct" THEN Idle
               ELSE [q EXCEPT !.pc = "transport", !.event = Ev("none"), !.heard = {},
                              !.gate = NoGate]

\* The allow events from the nth on, then the tool's handler.
AllowFrom(q, n) == IF n <= Len(q.gate.required) THEN Dispatch(q, Allow(n))
                   ELSE [q EXCEPT !.pc = "running", !.event = Ev("none")]

\* What follows an event that the hook took.
AfterEvent(q) ==
    CASE q.event.type = "use" -> Grant(q, "pat")
      [] q.event.type = "validate" -> Grant(q, q.path)
      [] q.event.type \in {"unknown", "introspectionReject"} -> Refuse(q)
      [] q.event.type = "jwtReject" -> Introspect([q EXCEPT !.event = Ev("none")])
      [] q.event.type = "deny" -> ToolDone(q)
      [] q.event.type = "allow" -> AllowFrom(q, q.event.n + 1)

\* Mutant: the hook's failure is ignored.
HookThrows_Ignored(q) == AfterEvent(q)
\* The hook's error goes to whoever dispatched: the tool's callback or the pipeline.
HookThrows(q) == IF q.event.type \in {"allow", "deny"} THEN ToolDone(q) ELSE Fail(q)

Audit(r) ==
    LET q == rq[r] IN
    /\ q.pc = "audit"
    /\ \/ Becomes(r, AfterEvent([q EXCEPT !.heard = @ \cup {q.event}]))
       \/ Becomes(r, HookThrows(q))
    /\ UNCHANGED transport
-----------------------------------------------------------------------------
(* Past the pipeline                                                       *)

\* What is needed of a request that was let in.
Admitted(q) == [Idle EXCEPT !.route = q.route,
                            !.path = IF q.path = "pat" THEN "pat" ELSE "other"]

\* Mutant: every request connects for itself.
MustConnect_Always == transport.promise # "fulfilled"
\* ensureConnected finds no promise.
MustConnect == transport.promise = "none"

EnsureConnected(r) ==
    LET q == Admitted(rq[r]) IN
    /\ rq[r].pc = "granted" /\ q.route = "mcp"
    /\ transport' = IF MustConnect
                    THEN [promise |-> "pending", inFlight |-> transport.inFlight + 1]
                    ELSE transport
    /\ CASE transport'.promise = "pending" -> Becomes(r, [q EXCEPT !.pc = "connecting"])
         [] transport'.promise = "fulfilled" -> Becomes(r, [q EXCEPT !.pc = "transport"])
         [] transport'.promise = "rejected" -> Becomes(r, Fail(q))

\* Mutant: a rejected promise is kept.
FailedPromise_Kept == "rejected"
\* The catch of ensureConnected: the next request may try again.
FailedPromise == "none"

\* The connect settles, and with it everyone who waits.
SettleConnect(ok) ==
    /\ transport.inFlight > 0
    /\ transport' = [promise |-> IF ok THEN "fulfilled" ELSE FailedPromise,
                     inFlight |-> transport.inFlight - 1]
    /\ rq' = [r \in Requests |->
                IF rq[r].pc # "connecting" THEN rq[r]
                ELSE IF ok THEN [rq[r] EXCEPT !.pc = "transport"] ELSE Fail(rq[r])]
    /\ UNCHANGED <<kit, registry>>

\* Mutant: the catch leaves a response alone once it has begun.
Broken_Open(q) == IF q.status = 0 THEN Replied([q EXCEPT !.path = None], 500)
                  ELSE [Replied(q, q.status) EXCEPT !.ended = FALSE]
\* The last-resort guard of the MCP handler, for a transport that threw.
Broken(q) == IF q.status = 0 THEN Replied([q EXCEPT !.path = None], 500)
             ELSE Replied(q, q.status)

\* The SDK's transport begins its answer, ends it, throws or says nothing.
HandleRequest(r) ==
    LET q == rq[r] IN
    /\ q.pc = "transport"
    /\ \/ q.status = 0 /\ Becomes(r, [q EXCEPT !.status = 200])
       \/ q.status # 0 /\ Becomes(r, Replied(q, q.status))
       \/ q.status = 0 /\ Becomes(r, Silent(q))
       \/ Becomes(r, Broken(q))
    /\ UNCHANGED transport

\* The PAT handler's own guard, then its operations: it answers, always.
Manage(r) ==
    LET q == rq[r] IN
    /\ q.route = "pats"
    /\ \/ /\ q.pc = "granted"
          /\ Becomes(r, IF q.path \in {"pat", "static"} THEN Replied(q, 403)
                        ELSE [Admitted(q) EXCEPT !.pc = "managing"])
       \/ /\ q.pc = "managing"
          /\ \E s \in {200, 400} : Becomes(r, Replied(q, s))
    /\ UNCHANGED transport
-----------------------------------------------------------------------------
(* Tools                                                                   *)

\* A PAT holds what its row and its user's scopes have in common.
Held(path) == IF path = "pat" THEN {Intersect(a, b) : a, b \in HeldSets} ELSE HeldSets

\* The required scopes that matchesAny finds held.
Matched(g) == {n \in 1..Len(g.required) : MatchesAny(g.required[n], g.held)}

\* satisfies: the custom matchers are asked only after the matcher.
Satisfied(g, n) == n \in Matched(g) \cup g.custom

\* Where the loop over the required scopes stops.
Stops(g) == {n \in 1..Len(g.required) :
                ~RequiredScope(g.required[n]) \/ ~Satisfied(g, n)}

\* The gate of registerTool; assertRequiredScope throws to the SDK.
Gate(q) ==
    IF Stops(q.gate) = {} THEN AllowFrom(q, 1)
    ELSE LET n == CHOOSE n \in Stops(q.gate) : \A k \in Stops(q.gate) : n <= k
         IN IF RequiredScope(q.gate.required[n]) THEN Dispatch([q EXCEPT !.gate = NoGate], Ev("deny"))
            ELSE ToolDone(q)

MayCall(q) == \/ q.route = "direct" /\ q.pc = "granted"
              \/ q.pc = "transport" /\ ~q.called /\ q.status = 0

CallTool(r, held, required, custom) ==
    LET g == [held |-> held, required |-> required, custom |-> custom]
        q == [Admitted(rq[r]) EXCEPT !.path = "other", !.called = TRUE, !.gate = g]
    IN /\ held \in Held(rq[r].path)
       /\ custom \subseteq 1..Len(required) \ Matched(g)
       /\ Becomes(r, Gate(q))
       /\ UNCHANGED transport

\* The tool's handler, or a requireScopes function that threw instead.
RunTool(r) ==
    /\ rq[r].pc = "running"
    /\ Becomes(r, ToolDone(rq[r]))
    /\ UNCHANGED transport
-----------------------------------------------------------------------------
(* After a rejection: Express's error middleware answers, with challenge   *)
(* or on its own, or hands the request on; Hono's onError answers.         *)

AnswerError(r) ==
    /\ rq[r].pc = "rejected"
    /\ \/ Becomes(r, Replied(rq[r], 500))
       \/ C.adapter = "express" /\ Becomes(r, Replied(rq[r], 401))
    /\ UNCHANGED transport

\* The same IncomingMessage, in the hands of the other handler.
HandOn(r) ==
    /\ rq[r].pc = "rejected" /\ C.adapter = "express"
    /\ Becomes(r, RunForRequest([rq[r] EXCEPT !.route = "mcp"]))
    /\ UNCHANGED transport

\* The client comes again.
Leave(r) ==
    /\ rq[r].pc = "done"
    /\ Becomes(r, Idle)
    /\ UNCHANGED transport

RequestStep(r) ==
    \/ Resolve(r) \/ FindPat(r) \/ ValidateJwt(r) \/ IntrospectToken(r) \/ Audit(r)
    \/ EnsureConnected(r) \/ HandleRequest(r) \/ Manage(r) \/ RunTool(r) \/ AnswerError(r)

\* A tool call at its gate.
ToolStep(r) == r \in ToolCallers /\ MayCall(rq[r]) /\
    \E held \in Held("pat"), required \in RequiredSeqs, custom \in SUBSET {1, 2} :
        CallTool(r, held, required, custom)

DirectCall(r) == rq[r].route = "direct" /\ ToolStep(r)

Next ==
    \/ \E c \in Offered : CreateAuthKit(c)
    \/ StartAgain
    \/ \E ok \in BOOLEAN : SettleConnect(ok)
    \/ \E r \in Requests :
         \/ RequestStep(r) \/ ToolStep(r) \/ HandOn(r) \/ Leave(r)
         \/ \E route \in {"mcp", "pats"}, h \in Hosts, t \in Token : Arrive(r, route, h, t)
         \/ \E h \in Hosts, s \in {200, 403, 405} : ServeMetadata(r, h, s)
         \/ \E t \in Token : CallDirectly(r, t)

Spec == Init /\ [][Next]_vars

\* What is awaited settles in the end: resolver, store, servers, hook, the
\* transport and the tools.
FairSpec ==
    /\ Spec
    /\ WF_vars(\E ok \in BOOLEAN : SettleConnect(ok))
    /\ \A r \in Requests : WF_vars(RequestStep(r) \/ DirectCall(r))
-----------------------------------------------------------------------------
(* Properties                                                              *)

\* The issuer whose tokens a request may bring.
Home(q) == IF C.form = "function" THEN q.tenant ELSE C.home.issuer

\* Whatever the other tenants, the fallbacks and the second handlings of a
\* request do, it is let in only by what its own credential is good for: a JWT
\* or an introspected token at its own tenant's server, a JWT under keys that
\* server named, and bypass only where it was allowed (runPipeline).
OnlyEntitled ==
    \A r \in Requests : LET q == rq[r] IN q.pc = "granted" =>
        \/ /\ q.path = "bypass" /\ C.bypass /\ ~C.signed
           /\ C.production => C.allowInProduction
        \/ q.path = "static" /\ C.static /\ q.token.kind = "static"
        \/ q.path = "pat" /\ C.pat /\ q.token.kind = "pat"
        \/ /\ q.path = "jwt" /\ q.token.iss = Home(q)
           /\ q.token.key = IF q.route = "direct" THEN C.home.uri ELSE registry[q.token.iss]
        \/ q.path = "introspection" /\ Home(q) \in Introspecting

\* Nobody gets in on a token, and no tool runs, unless the audit hook took
\* every event that says so (dispatchAudit's errors abort what fired them).
NothingUnheard ==
    \A r \in Requests : LET q == rq[r] IN
        /\ q.pc = "granted" /\ q.path = "pat" => Ev("use") \in q.heard
        /\ q.pc = "granted" /\ q.path \in {"jwt", "introspection"} => Ev("validate") \in q.heard
        /\ q.pc = "running" => \A n \in 1..Len(q.gate.required) : Allow(n) \in q.heard

\* A tool's handler runs only when every scope it requires is granted, as the
\* scope language is documented, by one the caller holds or by a custom matcher.
ToolNeedsScopes ==
    \A r \in Requests : LET g == rq[r].gate IN rq[r].pc = "running" =>
        \A n \in 1..Len(g.required) :
            \/ n \in g.custom
            \/ \E h \in g.held : Grants(h, g.required[n])

\* The transport is connected at most once at a time, and never again once it
\* is: McpServer.connect refuses a second one (ensureConnected).
OneConnect ==
    /\ transport.inFlight <= 1
    /\ transport.promise = "fulfilled" => transport.inFlight = 0

\* A connect that failed fails only those who waited for it: whoever is let in
\* later waits for a connect of its own (ensureConnected clears the promise).
FailureForgotten ==
    [][\A r \in Requests : rq[r].pc = "granted" /\ rq[r].route = "mcp" =>
          rq'[r].pc \in {"granted", "connecting", "transport"}]_vars

\* The consumer's resolver is asked at most once for a request, also when one
\* handler rejected it and another took it over (RESOLVER_CACHE).
AskedOnce == \A r \in Requests : rq[r].asked <= 1

\* A request that was not let in is never answered with a success, whichever
\* way its handler ended and whichever adapter ended it (wrap).
NoSuccessUnadmitted ==
    \A r \in Requests : rq[r].path = None => rq[r].status # 200

\* A response is ended, or was never begun by a transport that said nothing
\* on Express.
Answered(q) ==
    \/ q.pc = "idle"
    \/ q.pc = "done" /\ q.ended
    \/ q.pc = "done" /\ C.adapter = "express" /\ q.status = 0

\* Every request is answered and its response ended, though connects fail, the
\* hook throws and the transport breaks in the middle of its answer.
EveryRequestAnswered == \A r \in Requests : rq[r].pc # "idle" ~> Answered(rq[r])
=============================================================================
