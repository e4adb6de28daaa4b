# Verification of mcp-authkit

TLA+ models of [mcp-authkit](../src/README.md), an authentication kit for MCP
servers: it validates bearer tokens, gates tools by scope, issues personal access
tokens (PATs), stores refresh tokens, caches credentials and obtains upstream ones.
The models are translated from `src/packages/*/src`; TLC checks them on small
instances, and TLAPS proves their safety properties, every invariant and action
property of the passing runs, for all instances.

    tlc -workers 2 -config PatLifecycle_faults.cfg MCPatLifecycle    # one run
    tlapm PatLifecycleProofs.tla                                     # the proofs of one component

`PROJECT.json` maps every definition to the source lines it models, and lists
the runs, the mutants each property is tried against, the hazards and the findings.

## The system

| component | source (`src/packages`) | state | operations | hard behaviour |
|---|---|---|---|---|
| PAT lifecycle and REST handlers | `core/src/pats`, `core/src/handlers/pats.ts`, `core/src/audit` | rows in the store, one `setTimeout` per graceful rotation | create, list, revoke, rotate, lookup, deferred revocation | every store call and audit hook is an `await`; the timer dies with the process; partial failures |
| Token stores | `store-memory`, `store-sqlite`, `store-postgres` | PAT rows, refresh-token rows, upstream credentials, migrations | `TokenStore` (`core/src/types.ts:74`) | transactions, row locks, reuse detection, `init` of several replicas |
| Redis cache | `store-redis` | Redis keys with a TTL, an HMAC key per process | decorates a `TokenStore`: read-through, invalidation after a write | populate against invalidate, two keys per PAT, a set per family, restarts, replicas |
| Kit and pipeline | `core/src/authkit.ts`, `core/src/auth`, `core/src/bypass`, `core/src/handlers/metadata.ts` | JWKS registry per issuer, tenant answer kept on the request | tenant, bypass, static token, PAT, JWT, introspection, in that order | events and errors of each stage, tenant failure is a 503 |
| MCP handler and tools | `core/src/handlers/mcp.ts`, `core/src/authkit.ts` | one connect promise, an async-local auth context | handle a request, scope check of a tool call | concurrent first requests, retry after a failed connect, a transport that throws mid-answer |
| Scopes | `core/src/scopes` | none | match, expand, intersect | wildcards |
| Adapters | `adapter-express`, `adapter-hono` | response commit | wrap a Node handler | rejection, a handler that wrote nothing |
| OAuth clients | `core/src/oauth` | one metadata cache | client credentials, JWT bearer, token exchange, dynamic registration | timeouts, stale endpoints, malformed answers |
| Upstream credentials | `core/src/upstream` | store cache or an LRU of 100 | cached token exchange | clock read before awaits, no single flight, audit after the cache write |
| Signed stdio | `core/src/stdio` | buffer, two counters, `torn` | frame pump, teardown | callbacks against a running handler |
| Config, CLI | `config`, `cli` | none | load with timeout, commands | import against timeout, exit codes |

How they interact: a process loads its config and brings its store's schema up to
date. An adapter calls a handler; the handler finds the tenant and runs the
pipeline, which asks the PAT lookup (through the token store, possibly decorated by
`redisCache`), the JWT validator or the introspection endpoint, and awaits the
audit hook. The MCP handler then connects the one shared transport and hands the
request over; tools run behind their scope gate. The PAT handlers call the
lifecycle, which calls the store, the hook and a timer. Tool handlers call the
upstream helper, which calls token exchange and the store's credential cache.
Nothing in `core` calls the refresh-token operations of a store: they are the
contract an application's token endpoint relies on.

What makes each component correct:

* **PATs**: an answered revocation is final; an expired PAT never authenticates;
  nothing live is left behind by a failed mint; a rotation supersedes the old
  PAT after, and not before, its grace period.
* **Refresh tokens**: a token is spent once, reuse revokes the family, and a
  revocation that was reported stays.
* **Redis cache**: it authenticates nothing the inner store would refuse,
  except in bounded, named races; those end by themselves.
* **Kit**: nobody is let in, and no tool runs, without a credential good for it at
  the request's own tenant and without the event having been heard; every request
  is answered.
* **OAuth clients**: a credential goes to its own issuer, what comes back is proved
  to be for the audience asked for, and calls come to an end.
* **Upstream**: a credential handed out is for the caller's key, still useful, and
  its exchange was reported.
* **Stdio**: frames are handled once and answered in order, and none is taken up
  after a teardown.
* **Startup**: concurrent startups of several releases serialize, nothing waits for
  ever, and an exit code says what became of the store.

## Modules

| module | models | composed of |
|---|---|---|
| `PatLifecycle` | PAT handlers, lifecycle functions, store rows, timers, audit hook, pipeline lookup | |
| `PatLifecycleProofs` | theorems about it | extends `PatLifecycle`, `TLAPS` |
| `RedisPatCache` | PAT paths of `redisCache` over a store, with the lifecycle's second check | |
| `RedisPatCacheProofs` | theorems about it | extends `RedisPatCache`, `TLAPS` |
| `RefreshFamilies` | what a store promises of refresh tokens; with `Serial`, `sqliteTokenStore` | |
| `PgRefresh` | `postgresTokenStore`'s refresh tokens, statement by statement | `INSTANCE RefreshFamilies` |
| `PgRefreshProofs` | theorems about it, the refinement among them | extends `PgRefresh`, `TLAPS` |
| `Startup` | `loadConfig`, the stores' `init`, the command line | |
| `RefreshStores` | refresh-token paths of `redisCache` over the SQLite or memory store, in processes that start up first | extends `RefreshFamilies` and `Startup` |
| `RefreshStoresProofs` | theorems about it and about the two modules it extends | extends `RefreshStores`, `TLAPS` |
| `Scopes` | the scope matcher, and the language it is documented to match | |
| `Server` | the kit: configuration, handlers, tenant, pipeline, connect, tools, adapters | extends `Scopes` |
| `ServerProofs` | theorems about both | extends `Server`, `TLAPS` |
| `TokenClients` | the four outbound OAuth clients | |
| `TokenClientsProofs` | theorems about them | extends `TokenClients`, `TLAPS` |
| `UpstreamCache` | `upstreamFor` over a store's credential cache or the fallback LRU | |
| `UpstreamCacheProofs` | theorems about it | extends `UpstreamCache`, `TLAPS` |
| `SignedStdio` | the frame pump of the stdio transport | |
| `SignedStdioProofs` | theorems about it | extends `SignedStdio`, `TLAPS` |

`MC<module>` gives TLC the symmetry set or the values a `.cfg` cannot write.

### PatLifecycle

A request occupies a slot of `Requests`; `req[r].pc` says which `await` it
stands at, so everything else may happen there. `row` is the store's table, one
row per PAT, `timer[n]` the `setTimeout` armed when `n` replaced its
predecessor. `createPat` is `HandleCreate`, `CreatePat` (insert), `MintAudit`,
`MintRollback`; DELETE is `HandleRevoke`, `CheckRevoke` (the handler's list),
`RevokePat`, `RevokeAudit`; rotation is `HandleRotate`, `CheckRotate`,
`RotateFind` (the lifecycle lists again), `RotatePat` (one store transaction),
`Retire` (immediate revocation or timer), `RotateAudit`; a PAT request is
`PresentPat`, `FindPatByHash` (the store's answer), `ConfirmRow` (the lifecycle's own
test of it, when it arrives), `ResolveScopes`. A store call may succeed, fail
before taking effect or lose its reply (`StoreOutcomes`); `Restart` forgets
requests and timers and keeps rows. `issued`, `acked`, `refused`, `orphans` and
`lost` are history: what clients were told, and what failures left behind.
`acked` holds the PATs whose owner was told that they are gone: by a 204, or by the 404
that the retry of a DELETE gets whose reply was lost. `barred` marks a request sent
after that.

Days and seconds are both ticks. PATs are minted once: `Pats` bounds how many.
Name, scopes and display of a PAT, `lastUsedAt` and the list endpoint decide
nothing modelled here and are left out.

### RedisPatCache

One entry per hash key (`kind`, HMAC `tag`, `ttl`), one TTL per id key. A lookup
is `GetEntry`, `FindInner`, `SetPositive`, `SetIndex` or `SetNegative`; a
revocation `RevokeInner`, `GetIndex`, `DelKeys`; a rotation without grace
`RotateInner`, `GetOldIndex`, `DelOldKeys`, then the revocation. A cached
row is always one that was live when read, so the lifecycle's second check of
its dates (`Decided`) is about expiry only. `tag` is the process whose key made
the entry, `NoProc` after that process booted again; with `PinnedKey` every
process reads every entry. `raced` is history: the PATs revoked while a lookup
was filling, while an entry outlived its index because an earlier fill was cut
short (`cut`), or after a rotation dropped an index it had not seen. The audit hook and timers
are in `PatLifecycle`, not here; rotations here are without grace.

### RefreshFamilies and PgRefresh

`RefreshFamilies` has a state per token and a predecessor: create, spend, reuse
and revoke, each one step, which is what `sqliteTokenStore`'s
`BEGIN IMMEDIATE` transactions (and single statements) are. With `Serial` FALSE
a revocation may leave out the end of a chain of rotations.

`PgRefresh` splits the same operations of `postgresTokenStore` into BEGIN,
`SELECT ... FOR UPDATE`, the writes with their COMMIT, and a DELETE that takes a
snapshot, locks its rows one by one and commits. READ COMMITTED row locking is
modelled as the external thing it is: a statement sees what was committed when
it started, waits for locks and looks again at the row it waited for. Uncommitted
writes are invisible and become visible at COMMIT, so they are part of that
step. `Rollback` covers a failed statement, `statement_timeout`, the deadlock
detector and a dying process. A family is revoked only by who has seen a token of it
(its id comes with one). `ImplementsContract` states that the committed
rows refine `RefreshFamilies` with `Serial <- FALSE`.

### Startup

A process is a server or one call of `mint-pat` or `verify-config`. `boot[p]` says
where it stands: `Start` (flags, the path's refusals), the import against its
timer (`ImportSettled`, `TimedOut`, `Drained`), then `init` statement by
statement: `Bootstrap` and `CreateTable` (the migrations table, outside the lock),
`Lock`, `Read`, `Apply` (one migration and its INSERT), `Commit`. What a transaction
wrote is in `boot[p].wrote` until it commits. `Kill` and `InitFails` release the
lock and roll back. `CreatePat` and `Close` are the rest of `mint-pat`. `store` is
the store the config names; PostgreSQL's lookup and creation of a table are two
moments, SQLite has one writer, memory has no `init`. A config file is one of
`Config`, as far as loading tells files apart. `clashed`, `touched` and `minted`
are history.

### RefreshStores

Once the newest servers are up (`Serving`), two slots for calls run the decorator:
`Find` (GET), `FindInner`, `SetEntry`, `AddToIndex` (SADD), `ExpireIndex`; `Rotate`
(the inner store) and `DropBoth`; `RevokeInner`, `ReadIndex` (SMEMBERS), `Sweep`;
`Create` passes through. Each of them may throw where it stands (`CallFails`) and
keys run out (`EntryExpires`, `IndexExpires`). The inner store is
`RefreshFamilies`, so a call of it is one step; over memory, `SpendAgain` rotates a
rotated token once more. `excused` is history: the entries `CacheFollows` does not
vouch for, with one reason each. The deployment has one family and every token is
minted in a fixed order, since tokens differ in nothing else.

### Server and Scopes

`CreateAuthKit` refuses a configuration or brings the kit up with it. `rq[r]` is a
request: the await it stands at, its route, tenant and token, and what it learned.
`Arrive` is the MCP or PAT handler up to the first await, by way of
`RunForRequest` (the tenant, before everything) and `RunPipeline`, the state
function for steps 1 to 6; `Resolve`, `FindPat`, `ValidateJwt`, `IntrospectToken`
and `Audit` are what comes back from an await, and go on to the next one.
`heard` remembers the audit events the hook took. Past the pipeline,
`EnsureConnected` and `SettleConnect` share the connect promise; the SDK's transport
(external, `HandleRequest`) begins an answer, ends it, throws or says nothing;
`CallTool` and `RunTool` are the callback of `registerTool`; `Manage` is the PAT
handler, whose operations are `PatLifecycle`. A tool called on a transport of the
consumer's own (`CallDirectly`) runs the pipeline itself. `Rejected`, `AnswerError`
and `HandOn` are what an adapter makes of a rejection; an Express error middleware
may hand the same request to the other handler, which then finds the tenant answer
on it.

Tokens are what the pipeline tells apart: their kind, and of a JWT its issuer and
key. A key's place (`Uris`) stands for the keys served there. `Scopes` is the
matcher, a recursive function over both scopes; `Grants` is the documented
language, written independently of it, and `ToolNeedsScopes` relates the two.

### TokenClients

A call is one of `cc`, `jb`, `te`, `dcr` with its options. `Start` does what
happens before the first await: refusals in their order, the cache, the endpoint
the caller named. `Headers`, `ReadMetadata`, `ReadToken` and `ReadIntrospection` are
the awaits of an exchange, whichever the client; what each client makes of an
answer is its verdict operator (`CCVerdict` and so on). `Armed` says which timer
covers what: those of `te` and `dcr` cover the body, those of `cc` and `jb` are cleared
at the headers. Servers (external) answer with anything in `Documents` and
`Bodies`, stall, or move their endpoints. `metadataCache` is `cache`, of `dcr` alone.
A call that shares nothing with others runs alone (`MayStart`): no
client but `dcr` has state that outlives a call.

### SignedStdio

One thread, so a step is what runs between two turns of the event loop: a
stream event with the part of `pump` it starts (`Data`, `DataRest`), a teardown
from outside, or the continuation of `pump` when `onRequest` settled (`Notified`,
`Respond`, `Fail`, `Unencodable`). `Pump` is its loop from the top to the next
await. Byte counts are abstracted to whether a frame arrived whole or header
first; `worth` says what its tag and length are, `counter` is any number. A
response that cannot be encoded rejects the promise of `pump`, which nobody
awaits: that ends the process (Node's default) or is ignored. Then what is whole in
the buffer waits for the next data event (`stalled`).

### UpstreamCache

A call goes through `UpstreamFor` (clock read, LRU or store lookup), `Select` and
`Reply` (the store's row and its expiry test), `Exchange` and `Validate` (the two
halves of `exchangeToken`), `Write`, and `Audit` or `RejectAudit`. `cache` is in the
order of the LRU's `Map`; a store ignores the order. `minted` and `event` remember
what each token is and whether the audit hook accepted its event, or never will (it
refused, or the event was never sent),
`answer` what the last step handed out, `since` the other keys used since a key's
own last use, for the keys used and not dropped. The
authorization server is external: it mints, or refuses, with any lifetime.

## Runs

| run | instance | shows |
|---|---|---|
| `pat_faults` | 2 PATs, 1 user, 2 requests, grace 1, clock to 2, all store outcomes | `RevocationFinal`, `GrantBeforeExpiry`, `NoSilentOrphan`, `RotationSupersedes`, `GraceHonoured` |
| `pat_refusedrotation` | no grace, no failures; the audit hook may refuse | violated: finding 1 |
| `redis_faults` | 2 PATs, 2 replicas with keys of their own, 2 requests, faults, restarts | `RevocationFinalUnlessRaced`, `GrantBeforeExpiry`, `CacheCoherent` |
| `redis_wins` | 1 PAT, a shared key, negative entries, TTL 2, faults, fair | `RevocationWins` |
| `redis_revokerace` | 1 PAT, 1 process, no faults | violated: finding 2 |
| `refresh_stores` | 2 processes, 2 releases, 3 starts, 6 kinds of config file; then 3 tokens of a family, 2 calls, faults | `SpentOnce`, `FamilyRevoked`, `CacheFollows`, `StartupsSerialize`, `ExitCodeHonest`, `BootSettles` |
| `pgrefresh_contract` | 4 tokens, 1 family, 3 connections | `RevocationDurable`, `ImplementsContract` |
| `pgrefresh_straggler` | the same | violated: finding 3 |
| `server_requests` | 2 requests, 2 issuers, 2 key sets, 7 configurations, both adapters, fair | `TypeOK`, `OnlyEntitled`, `NothingUnheard`, `ToolNeedsScopes`, `OneConnect`, `AskedOnce`, `NoSuccessUnadmitted`, `FailureForgotten`, `EveryRequestAnswered` |
| `clients_calls` | 2 calls, 2 issuers, one of which moves, timeout 1, cache TTL 1, fair | `TypeOK`, `CredentialGoesHome`, `StaleEndpointForgotten`, `ExchangedForAudience`, `TimedCallsSettle` |
| `stdio_frames` | 4 frames, counters to 2, fair handlers | `FreshCounters`, `InOrder`, `SilentAfterTeardown`, `EveryFrameTaken` |
| `upstream_calls` | a store cache or an LRU of 2, 3 keys, 3 tokens, 2 calls, clock to 1, faults, restarts | `HitUseful`, `ExchangeReported`, `RecentlyUsedKept` |

The type invariants of the modules other than `Server` and `TokenClients`, and `OneValid`
of `RefreshFamilies` and `PgRefresh`, are in no run: they are proved. `SpentOnce` is
`OneValid` where the deployment has an SQLite store.

Why the bounds are enough:

* A race of the PAT code is between two requests, or a request and a timer, so two
  request slots and one timer per PAT reach each. Chains of rotations, more users
  and rotations without grace are left to the proof, which covers every instance.
  Two ticks let a PAT expire before, during and after a lookup and a grace
  period end inside another PAT's life.
* In Redis, one tick separates an entry from its index only if they can expire
  apart: `redis_wins` has a TTL of 2, and PATs that do not age (`Expires` FALSE), so
  that only the cache's own TTL can end a raced entry.
* Three connections are one DELETE, one rotation that makes it wait and one more to
  disturb either; four tokens are a chain of three rotations.
* Two starting processes are a holder of the lock and one that waits for it; a
  third start replaces one that was killed. Two releases are one that has a
  migration the other lacks. More of either is left to the proof. Three
  refresh tokens are a rotation and a reuse or a second rotation; a call can be
  overtaken by one other at each of its awaits. Calls start when the newest
  servers are up, and nothing is started or killed after that.
* Two requests are enough for what requests share: the registry, the promise of
  the connect, and a message handed from one handler to the other. One may carry
  tool calls and the other goes to the PAT handler, as well as both to the MCP
  handler. Of the configurations three are refused, one for each check, and four
  come up: with a function, a static or no authorization server, the bypass with
  its permission, with and without a host allowlist. The scopes held include
  an exact one, one of each wildcard in a position where it counts and one
  where it does not; those required include a scope that is not one.
* Two calls are one that writes the metadata cache late and one that reads it; two
  issuers one that is mistaken for the other.
* Four frames let two wait behind a running handler while one is answered and one
  more is half there; counters to 2 make some of them replays.
* The upstream clock needs one tick: an entry dies after it was found good, while
  its row is on the way; one key more than the LRU holds makes it evict, and three
  tokens fill it and displace.

`CHECK_DEADLOCK FALSE` is set for `stdio_frames`, which stops with the transport, and
for `refresh_stores`, where nothing starts once the starts are used up.

Fairness:

* `redis_wins` assumes that a request taken up runs on (each step is the
  continuation of an await) and that time passes; neither faults nor restarts
  are fair.
* `stdio_frames` assumes that `onRequest` settles; the peer and the owner need do
  nothing.
* `server_requests` assumes that what is awaited settles (resolver, store, servers,
  hook, connect, transport, tools), with whatever outcome: the code has no timers
  of its own there. Nobody has to send anything.
* `clients_calls` assumes of the program only that its timers fire and that time
  passes. Servers may be silent for ever.
* `refresh_stores` assumes that a process goes on with its statements, each of which
  ends (`statement_timeout`, SQLite's busy timeout), and that the import's timer
  fires; the import itself may hang, and kills and starts are not fair.

### Findings

1. A rotation refused by the audit hook is not undone: its successor is live and
   nobody holds it (`lifecycle.ts:272`; `docs/spec/v0.1.md:517`).
2. A lookup in flight writes a revoked PAT back into the cache
   (`store-redis/src/index.ts:248`; `docs/cookbook/redis-cache.md:105`).
   `RevocationFinalUnlessRaced` and `RevocationWins` say how far it goes: only in
   that race, after a lookup that failed between its two writes, or after a
   rotation that dropped an unseen index,
   and for at most one TTL after the last fill.
3. A PostgreSQL family revocation misses the successor of a concurrent rotation
   (`store-postgres/src/index.ts:436`; `docs/spec/v0.2.md:378`): the DELETE saw the
   predecessor, the rotation commits before the DELETE has its row.

Seen while modelling, and in the models where they have an effect there, without a
run of their own:

* `rotationGraceSeconds` above 2147483 overflows `setTimeout`, and the old PAT is
  revoked after 1 ms (`lifecycle.ts:268`; `docs/spec/v0.1.md:456`). `GraceHonoured`
  holds for `Grace <= TimerMax`.
* `upstreamFor` caches the credential before its audit hook can refuse the exchange
  (`upstream/index.ts:198`, `:207`), so the next call gets it from the cache. What
  holds is `ExchangeReported`: the call whose event was refused hands nothing out, and
  no credential is cached whose event was not due.
* `RESOLVER_CACHE` is one symbol of the module (`tenant.ts:36`, whose comment says otherwise): of two kits that
  handle one message, the second takes the first's answer. `Server` has one kit.
* `memoryTokenStore` rotates a rotated refresh token again (`store-memory/src/index.ts:204`),
  which forks its family; `FamilyRevoked` still holds.
* `redisCache` drops no key when the inner rotation throws `RefreshTokenReuseError`, and
  `createRefreshToken` leaves a negative entry of its hash. Both are among the
  excuses of `CacheFollows`.
* Two PostgreSQL replicas that create the migrations table at the same time may
  fail over each other's catalog entry (`CreateTable`), outside the lock that
  `docs/spec/v0.2.md` 6.3 says makes concurrent startups safe. A restart succeeds.
* The import's timer is unref'd (`config/src/load.ts:90`): a config that hangs on
  nothing the event loop knows of ends the process with code 0 (`Drained`), where
  `exit-codes.ts` has 2 for it. `ExitCodeHonest` leaves that case out.
* The timers of client credentials and JWT bearer are cleared at the headers, so
  a body that stalls is waited for without limit (`Armed`); `TimedCallsSettle` is
  about the other two. The CLI's `jwks-fetch` has the same shape.

## Proofs

From the named ASSUMEs of each module alone, for every value of the constants. Each
proof module defines an invariant that implies the ones worth stating and is
inductive, as those are not; shows what a kind of step does (lemmas); then that each
action preserves each conjunct; and combines the steps with PTL.

**`PatLifecycleProofs`**. That an answered revocation is final needs that a PAT
whose owner was told so, even by a 404, is revoked (`RowInv`), that a revoked PAT
is never listed, and that no row is ever replaced by an insertion, which needs
that a request in flight carries a PAT nobody else has (`NewInv`, `NewUnique`).
`RotationSupersedes` needs `RetireInv`, what a rotation knows between retiring the
predecessor and answering; `NoSilentOrphan` that a request past its insert still
names its row. `PatInv` is the conjunction. `GraceIsHonoured` is about steps:
nothing revokes a rotated PAT before its grace period is over but its owner's
DELETE and the rollback of its own mint. A timer does not know when its rotation
began; the expiry of the successor tells (`Mature`), as it was computed from a
clock that was read before the timer was armed (`Punctual`). Its hypothesis `Grace
<= TimerMax` is not for the proof's sake: beyond it the statement is false (see
Findings).

**`RedisPatCacheProofs`**. A revocation finds a cached row by its id key, so the
invariant `RedisInv` accounts for every entry that outlives its id key
(`Explained`): a lookup stands between its two SETs, or was cut short there, or
the PAT was raced. With that, a revocation that reads no id key has nothing to drop,
and after its DEL nothing positive is left but what a race writes back (`WriterInv`,
`KeyInv`). The races that `RevocationFinalUnlessRaced` excuses are the ones
`redis_revokerace` exhibits.

**`RefreshStoresProofs`**, in three parts, as the module extends two others.

* The families: `OneValidToken` and `RevokedFamiliesEmpty`. A family may be created only
  where no row has it, so `FamInv` adds what unissued rows look like (`Unplaced`)
  and that issued ones are in a family (`InFamily`). That nothing is left of a
  revoked family needs `Serial`: without it the theorem is false, and finding 3 is a
  store that has it so. The deployment does not assume `Serial`: over SQLite and over
  memory every revocation takes all members, which is what
  `DeployedFamiliesRevoked` uses.
* The startup: `StartupsAreSerial` and `ExitCodesAreHonest`. `BootInv` says that only
  the holder of the lock is past it, that what it read is what is committed, that
  it wrote none of that again, and that who is through with `init` has the
  migrations of its release; `HonestInv`, what a process has done to the store at
  each place it may exit from.
* The deployment: `CacheFollowsStore`. A revocation has read the family's set when it
  deletes, so the invariant `StoresInv` says that every entry is in that set, or its
  lookup did not get that far and excuses it (`KeysInv`), and that whatever is
  cached of the family between SMEMBERS and DEL is among the members read or
  excused (`CallInv`). `SqliteImplementsFamilies` is the refinement: with
  `store = "sqlite"` the whole deployment, starts, cache and faults included, is a
  behaviour of `RefreshFamilies`, so `SpentOnce` holds (`SqliteSpentOnce`). Over
  memory it does not: `SpendAgain` forks a family.

**`PgRefreshProofs`**: `RevocationsAreDurable`, and `RowsImplementContract`,
`Spec => Contract!Spec`: a COMMIT is a step of `RefreshFamilies`, everything else
changes nothing it sees. The invariant `PgInv` says what a transaction knows of
the rows it has locked: a rotation between its SELECT and its COMMIT, that the row is
still valid and its successor not inserted by anybody else (`WriteInv`,
`NewDistinct`); a DELETE, that each row it saw is still to be visited, locked by
it, or gone, and that what it saw is closed under predecessors (`DeleteInv`), which is
what makes its COMMIT a revocation of the contract. `RowsOneValid`, that no two
tokens of a family can be spent over PostgreSQL either, then needs only the
contract's steps.

**`ServerProofs`**. `MatcherIsDocumented` says that the matcher's walk, a recursive
function, is the documented language for scopes of any length. The induction is
over positions, which the provers cannot take from the library; it is a lemma
of its own (`DownwardFrom`), from the least counterexample, which exists because a set
of numbers cannot be moved down into one place less (`LeastMember`). `ServerInv` says
of a request at each await which checks it has passed: under whose keys a JWT is being
validated (`Validated`), who was let in and what was heard before (`Checked`), which
allow events precede the one being dispatched (`Gated`), which statuses may have been
written (`Written`), and that the tenant was asked for once (`Tenanted`). The
registry of keys only grows, and keeps the first entry of an issuer: that is why
another request's registration disturbs none of it. `ToolsNeedScopes` combines `Gated`
with the matcher's theorem.

**`TokenClientsProofs`**. `CredentialsGoHome` needs that the cache is keyed by the
issuer of what it holds, and that a call carries the endpoint of its own.
`StaleEndpointsAreForgotten` is about time: a document that names the old endpoint was
served before the move, and its body is read within the timeout (`Dated`), so an
entry written from it has no more ticks left than `Settled` is away (`CacheInv`). A call
that must know of the move can then have been told only of the new endpoint (`Told`).

**`UpstreamCacheProofs`**. `HitsAreUseful`: an entry's expiry was computed from a clock
read before its token came, hence is early enough, also when the row comes back late
(`Sound`, `Holding`); a call reaches the cache write only with a store and a lifetime
worth caching. `ExchangesAreReported`: the entry is written in the step that makes
its event due (`Due`), and a call hands over what it exchanged in the step in which
the hook accepts. `RecentlyUsedIsKept`: the entries stand in the order of their
last uses (`Ordered`), so that all the others were used after the one evicted, and
they are `Capacity` many; what was evicted before stays passed (`Passed`).

**`SignedStdioProofs`**: `CountersAreFresh`, `FramesInOrder`, and `TornIsSilent`, about
steps. What was written is what was handled followed by what waits in the buffer
(`BufferInv`), the expected counter is above every one handled (`HandledInv`), at most
the last frame handled is in `onRequest` (`RunningInv`), and the answers are to
earlier ones (`OutputInv`).

The type invariant of every module with variables is a theorem, too.

The assumptions: sentinels are outside the sets they complete; times, capacities and
bounds are numbers; `Server` is told which scopes are scopes at all (`ScopeAssumption`,
which also bounds what one tool requires to two scopes, as allow events are
numbered) and that None is no path (`PathAssumption`), `TokenClients` that it is no
reason to throw (`ReasonAssumption`). TLC evaluates all of them.

Only model-checked: the liveness properties (`RevocationWins`, `BootSettles`,
`EveryFrameTaken`, `TimedCallsSettle`, `EveryRequestAnswered`), which rest on fairness
and ENABLED; and the violations, which are counterexamples.

## Not modelled

* HTTP parsing, the translation between Web and Node messages (`adapt.ts`), the text
  of challenges, documents and errors: data without state or order. What is left of
  them is what they refuse or accept.
* Schemas and redaction of `config`: the set of files a schema accepts is a constant;
  redaction formats a printout.
* Commands `init`, `gen-secret` and `jwks-fetch`: they write or print once.
* `expand.ts` and `subtract`: no modelled code calls them.
* `updatePatLastUsed`, best effort and read by nothing.
* `redisCache` for upstream credentials: `UpstreamCache` has the store without it. The
  decorator hands a row out after one more await (its SET), so a credential may have
  less than its headroom left then; `HitUseful` says nothing of that.
* Cryptography and token formats: hashes, tags and signatures match or do not. The
  JWKS cache inside `jose`, key rotation at an issuer and clock tolerance are the
  library's.
* The deferred transaction `sqliteTokenStore` falls back to for a driver without
  `.immediate`; better-sqlite3 has it.
* `fake-pg.ts` and the other test doubles.

## Plan

What is left of the model is `redisCache` for upstream credentials: a decorator around the
store half of `UpstreamCache`, with the headroom lost in its SET. What is left of
proof: what the memory store promises instead of `OneValid` (its families are trees
whose revocation still takes every member); the deployment over PostgreSQL, which
`PgRefresh` and `RefreshStores` cover one half of each; and the safety half of
the liveness properties, that a state from which nothing is awaited is one in
which everything is settled.
