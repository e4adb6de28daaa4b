---------------------------- MODULE RedisPatCache ----------------------------
(***************************************************************************)
(* The PAT paths of redisCache, the read-through cache that decorates a    *)
(* token store.  Two Redis keys belong to a PAT: the hash key, which holds *)
(* the row or a negative sentinel under an HMAC tag, and the id key, the   *)
(* reverse index that revokePat and rotatePat follow to the hash key.      *)
(*                                                                         *)
(* Every await is a step: the GET, the inner store's read, the two SETs,   *)
(* the DEL.  Requests of several processes interleave, any awaited call    *)
(* may throw before or after it took effect, and a process may be replaced *)
(* by a fresh boot.  Redis is external: it keeps a key until it is         *)
(* overwritten, deleted or its EX runs out.                                *)
(***************************************************************************)
EXTENDS Integers

CONSTANTS
    Pats,        \* PATs, all of one user (bounds the model)
    Procs,       \* processes that share the Redis instance
    Requests,    \* slots for concurrent requests (bounds the model)
    NoPat,       \* sentinel
    NoProc,      \* sentinel: no process, and the tag of an earlier boot
    PinnedKey,   \* TRUE when hmacKey is pinned: a boot keeps it, replicas share it
    Ttl,         \* ttlSeconds, in ticks
    NegativeTtl, \* negativeCacheTtlSeconds, in ticks; 0 when it is off
    Lifetime,    \* expiresInDays of every PAT, in ticks
    Expires,     \* FALSE when nobody waits until a PAT expires
    Faults       \* how an awaited call may fail, a subset of Fault

Fault == {"failed", "lostReply"}

ASSUME SentinelAssumption == NoPat \notin Pats /\ NoProc \notin Procs
ASSUME TimeAssumption ==
    Ttl \in Nat \ {0} /\ NegativeTtl \in Nat /\ Lifetime \in Nat \ {0}
ASSUME FaultAssumption == PinnedKey \in BOOLEAN /\ Expires \in BOOLEAN /\ Faults \subseteq Fault

VARIABLES
    row,      \* row[p]: the inner store's row, "absent", "live" or "revoked"
    life,     \* life[p]: ticks until expiresAt
    entry,    \* entry[p]: the value under the hash key
    index,    \* index[p]: ticks until the id key expires, 0 when it is absent
    req,      \* req[r]: where the request in slot r stands
    issued,   \* PATs whose plaintext was sent to a client
    acked,    \* PATs whose revocation, or rotation without grace, was answered
    raced,    \* PATs revoked while Redis could not follow: see Unfollowed
    cut       \* PATs a lookup stopped filling between its two SETs

vars == <<row, life, entry, index, req, issued, acked, raced, cut>>

NoEntry == [kind |-> "none", tag |-> NoProc, ttl |-> 0]
Idle == [pc |-> "idle", proc |-> NoProc, pat |-> NoPat, new |-> NoPat,
         indexed |-> FALSE, late |-> FALSE, barred |-> FALSE]

Pc == {"idle", "create", "delNew", "mintDone",
       "get", "find", "setPositive", "setIndex", "setNegative", "granted",
       "revoke", "getIndex", "delKeys", "revokeDone",
       "rotate", "getOldIndex", "delOldKeys"}

Entry == [kind: {"none", "positive", "negative"}, tag: Procs \cup {NoProc}, ttl: Nat]
Request == [pc: Pc, proc: Procs \cup {NoProc}, pat: Pats \cup {NoPat},
            new: Pats \cup {NoPat}, indexed: BOOLEAN, late: BOOLEAN, barred: BOOLEAN]

TypeOK ==
    /\ row \in [Pats -> {"absent", "live", "revoked"}]
    /\ life \in [Pats -> Nat]
    /\ entry \in [Pats -> Entry]
    /\ index \in [Pats -> Nat]
    /\ req \in [Requests -> Request]
    /\ issued \subseteq Pats /\ acked \subseteq Pats /\ raced \subseteq Pats /\ cut \subseteq Pats

Init ==
    /\ row = [p \in Pats |-> "absent"]
    /\ life = [p \in Pats |-> 0]
    /\ entry = [p \in Pats |-> NoEntry]
    /\ index = [p \in Pats |-> 0]
    /\ req = [r \in Requests |-> Idle]
    /\ issued = {} /\ acked = {} /\ raced = {} /\ cut = {}

\* safeDecode: the entry carries the tag of this process's key.
Readable(r, p) == entry[p].kind # "none" /\ (PinnedKey \/ entry[p].tag = req[r].proc)

\* encode under this process's key, and SET ... EX ttl.
Encoded(r, kind, ttl) ==
    IF ttl = 0 THEN NoEntry ELSE [kind |-> kind, tag |-> req[r].proc, ttl |-> ttl]

\* The awaited call took effect: r goes on, unless its reply was lost.
Returns(r, label) ==
    \/ req' = [req EXCEPT ![r].pc = label]
    \/ "lostReply" \in Faults /\ req' = [req EXCEPT ![r] = Idle]

Answered(r) == req' = [req EXCEPT ![r] = Idle]

Fresh(n) == row[n] = "absent" /\ \A r \in Requests : req[r].new # n

\* A lookup has yet to write a key of p, from a row read before the revocation;
\* or one stopped between its two writes, and the entry has no id key now.
Filling(p) == \E r \in Requests : req[r].pat = p /\ req[r].pc \in {"setPositive", "setIndex"}
Unindexed(p) == entry[p].kind = "positive" /\ entry[p].ttl > index[p]
Unfollowed(p) == Filling(p) \/ (p \in cut /\ Unindexed(p))
-----------------------------------------------------------------------------
(* Lookups: findPatByHash of the decorator, then of the lifecycle.         *)

\* late and barred record what was known to the client when it sent the request.
Present(r, q, p) ==
    /\ req[r].pc = "idle"
    /\ p \in issued
    /\ req' = [req EXCEPT ![r] = [Idle EXCEPT !.pc = "get", !.proc = q, !.pat = p,
                                              !.late = (life[p] = 0), !.barred = p \in acked]]
    /\ UNCHANGED <<row, life, entry, index, issued, acked, raced, cut>>

\* Mutant: the lifecycle trusts the row it was given.
Decided_Trusting(r) == "granted"

\* findPatByHash of the lifecycle looks at the row's dates, against its clock,
\* when the store answers: the pc of a request it grants, or "idle".
Decided(r) == IF life[req[r].pat] > 0 THEN "granted" ELSE "idle"

Resume(r) ==
    \/ Decided(r) = "granted" /\ req' = [req EXCEPT ![r].pc = "granted"]
    \/ Decided(r) = "idle" /\ Answered(r)

\* GET of the hash key: a hit of either kind answers, anything else is a miss.
GetEntry(r) ==
    LET p == req[r].pat IN
    /\ req[r].pc = "get"
    /\ \/ ~Readable(r, p) /\ req' = [req EXCEPT ![r].pc = "find"]
       \/ Readable(r, p) /\ entry[p].kind = "negative" /\ Answered(r)
       \/ Readable(r, p) /\ entry[p].kind = "positive" /\ Resume(r)
    /\ UNCHANGED <<row, life, entry, index, issued, acked, raced, cut>>

\* The inner store returns no row that is revoked or past its expiry.
FindInner(r) ==
    LET p == req[r].pat
        found == row[p] = "live" /\ life[p] > 0
    IN
    /\ req[r].pc = "find"
    /\ \/ found /\ req' = [req EXCEPT ![r].pc = "setPositive"]
       \/ ~found /\ NegativeTtl > 0 /\ req' = [req EXCEPT ![r].pc = "setNegative"]
       \/ ~found /\ NegativeTtl = 0 /\ Answered(r)
    /\ UNCHANGED <<row, life, entry, index, issued, acked, raced, cut>>

SetNegative(r) ==
    /\ req[r].pc = "setNegative"
    /\ entry' = [entry EXCEPT ![req[r].pat] = Encoded(r, "negative", NegativeTtl)]
    /\ Answered(r)
    /\ UNCHANGED <<row, life, index, issued, acked, raced, cut>>

\* setPositive writes the row read earlier, whatever happened to it since.
SetPositive(r) ==
    /\ req[r].pc = "setPositive"
    /\ entry' = [entry EXCEPT ![req[r].pat] = Encoded(r, "positive", Ttl)]
    /\ \/ req' = [req EXCEPT ![r].pc = "setIndex"] /\ UNCHANGED cut
       \/ "lostReply" \in Faults /\ Answered(r) /\ cut' = cut \cup {req[r].pat}
    /\ UNCHANGED <<row, life, index, issued, acked, raced>>

\* The reverse index gets the same EX, after the entry it points to.
SetIndex(r) ==
    /\ req[r].pc = "setIndex"
    /\ index' = [index EXCEPT ![req[r].pat] = Ttl]
    /\ Resume(r) \/ ("lostReply" \in Faults /\ Answered(r))
    /\ UNCHANGED <<row, life, entry, issued, acked, raced, cut>>

\* The pipeline answers the request it authenticated.
Respond(r) ==
    /\ req[r].pc = "granted"
    /\ Answered(r)
    /\ UNCHANGED <<row, life, entry, index, issued, acked, raced, cut>>
-----------------------------------------------------------------------------
(* POST /pats                                                              *)

Create(r, q, n) ==
    /\ req[r].pc = "idle"
    /\ Fresh(n)
    /\ req' = [req EXCEPT ![r] = [Idle EXCEPT !.pc = "create", !.proc = q, !.new = n]]
    /\ UNCHANGED <<row, life, entry, index, issued, acked, raced, cut>>

Inserted(n) == row' = [row EXCEPT ![n] = "live"] /\ life' = [life EXCEPT ![n] = Lifetime]

CreateInner(r) ==
    /\ req[r].pc = "create"
    /\ Inserted(req[r].new)
    /\ Returns(r, "delNew")
    /\ UNCHANGED <<entry, index, issued, acked, raced, cut>>

\* createPat drops a negative entry of the new hash.
DropNew(r) ==
    /\ req[r].pc = "delNew"
    /\ entry' = [entry EXCEPT ![req[r].new] = NoEntry]
    /\ Returns(r, "mintDone")
    /\ UNCHANGED <<row, life, index, issued, acked, raced, cut>>

AnswerMint(r) ==
    /\ req[r].pc = "mintDone"
    /\ issued' = issued \cup {req[r].new}
    /\ Answered(r)
    /\ UNCHANGED <<row, life, entry, index, acked, raced, cut>>
-----------------------------------------------------------------------------
(* DELETE /pats/:id, and the rotation that ends in the same revocation.    *)

\* The handlers' listPatsByUser passes through: only a live row is managed.
Revoke(r, q, p) ==
    /\ req[r].pc = "idle"
    /\ row[p] = "live"
    /\ req' = [req EXCEPT ![r] = [Idle EXCEPT !.pc = "revoke", !.proc = q, !.pat = p]]
    /\ UNCHANGED <<row, life, entry, index, issued, acked, raced, cut>>

\* revokePat writes the inner row first and goes on to invalidate.
RevokeInner(r) ==
    LET p == req[r].pat IN
    /\ req[r].pc = "revoke"
    /\ row' = [row EXCEPT ![p] = "revoked"]
    /\ raced' = IF row[p] = "live" /\ Unfollowed(p) THEN raced \cup {p} ELSE raced
    /\ Returns(r, "getIndex")
    /\ UNCHANGED <<life, entry, index, issued, acked, cut>>

\* GET of the id key.
GetIndex(r) ==
    LET p == req[r].pat IN
    /\ req[r].pc = "getIndex"
    /\ req' = [req EXCEPT ![r].pc = "delKeys", ![r].indexed = index[p] > 0]
    /\ UNCHANGED <<row, life, entry, index, issued, acked, raced, cut>>

\* Mutant: only the id key is dropped.
DelKeys_IdOnly(r) ==
    LET p == req[r].pat IN
    /\ req[r].pc = "delKeys"
    /\ index' = [index EXCEPT ![p] = 0]
    /\ Returns(r, "revokeDone")
    /\ UNCHANGED <<row, life, entry, issued, acked, raced, cut>>

\* DEL of the id key, and of the hash key if the index named it.
DelKeys(r) ==
    LET p == req[r].pat IN
    /\ req[r].pc = "delKeys"
    /\ index' = [index EXCEPT ![p] = 0]
    /\ entry' = IF req[r].indexed THEN [entry EXCEPT ![p] = NoEntry] ELSE entry
    /\ Returns(r, "revokeDone")
    /\ UNCHANGED <<row, life, issued, acked, raced, cut>>

\* 204 for a DELETE; 200 with the successor for a rotation without grace.
AnswerRevoke(r) ==
    /\ req[r].pc = "revokeDone"
    /\ acked' = acked \cup {req[r].pat}
    /\ issued' = issued \cup ({req[r].new} \cap Pats)
    /\ Answered(r)
    /\ UNCHANGED <<row, life, entry, index, raced, cut>>

Rotate(r, q, p, n) ==
    /\ req[r].pc = "idle"
    /\ row[p] = "live"
    /\ Fresh(n)
    /\ req' = [req EXCEPT ![r] = [Idle EXCEPT !.pc = "rotate", !.proc = q, !.pat = p, !.new = n]]
    /\ UNCHANGED <<row, life, entry, index, issued, acked, raced, cut>>

RotateInner(r) ==
    /\ req[r].pc = "rotate"
    /\ Inserted(req[r].new)
    /\ Returns(r, "getOldIndex")
    /\ UNCHANGED <<entry, index, issued, acked, raced, cut>>

GetOldIndex(r) ==
    /\ req[r].pc = "getOldIndex"
    /\ req' = [req EXCEPT ![r].pc = "delOldKeys", ![r].indexed = index[req[r].pat] > 0]
    /\ UNCHANGED <<row, life, entry, index, issued, acked, raced, cut>>

\* rotatePat drops the predecessor's keys and a negative entry of the successor;
\* the lifecycle then revokes the predecessor through the decorator.  An id key
\* that appeared since the GET goes without the entry it points to.
DelOldKeys(r) ==
    LET p == req[r].pat
        dropped == {req[r].new} \cup (IF req[r].indexed THEN {p} ELSE {})
    IN
    /\ req[r].pc = "delOldKeys"
    /\ index' = [index EXCEPT ![p] = 0]
    /\ entry' = [q \in Pats |-> IF q \in dropped THEN NoEntry ELSE entry[q]]
    /\ raced' = IF ~req[r].indexed /\ index[p] > 0 THEN raced \cup {p} ELSE raced
    /\ Returns(r, "revoke")
    /\ UNCHANGED <<row, life, issued, acked, cut>>
-----------------------------------------------------------------------------
(* Failures, time and restarts.                                            *)

\* The awaited call throws and changed nothing: the request is answered 500.
CallFails(r) ==
    /\ "failed" \in Faults
    /\ req[r].pc \notin {"idle", "granted", "mintDone", "revokeDone"}
    /\ Answered(r)
    /\ cut' = IF req[r].pc = "setIndex" THEN cut \cup {req[r].pat} ELSE cut
    /\ UNCHANGED <<row, life, entry, index, issued, acked, raced>>

\* A new boot of process q: its requests are gone and so is its random key.
Restart(q) ==
    /\ "failed" \in Faults
    /\ req' = [r \in Requests |-> IF req[r].proc = q THEN Idle ELSE req[r]]
    /\ entry' = [p \in Pats |-> IF entry[p].tag = q /\ ~PinnedKey
                                THEN [entry[p] EXCEPT !.tag = NoProc] ELSE entry[p]]
    /\ cut' = cut \cup {req[r].pat : r \in {s \in Requests : req[s].proc = q /\ req[s].pc = "setIndex"}}
    /\ UNCHANGED <<row, life, index, issued, acked, raced>>

\* Mutant: SET without EX.
Aged_Never(e) == e

\* Redis drops a key when its EX runs out.
Aged(e) == IF e.ttl <= 1 THEN NoEntry ELSE [e EXCEPT !.ttl = @ - 1]

Less(n) == IF n > 0 THEN n - 1 ELSE 0

Tick ==
    /\ \E p \in Pats : (Expires /\ life[p] > 0) \/ index[p] > 0 \/ entry[p].ttl > 0
    /\ life' = IF Expires THEN [p \in Pats |-> Less(life[p])] ELSE life
    /\ index' = [p \in Pats |-> Less(index[p])]
    /\ entry' = [p \in Pats |-> Aged(entry[p])]
    /\ UNCHANGED <<row, req, issued, acked, raced, cut>>

RequestStep(r) ==
    \/ GetEntry(r) \/ FindInner(r) \/ SetNegative(r) \/ SetPositive(r) \/ SetIndex(r)
    \/ Respond(r) \/ CreateInner(r) \/ DropNew(r) \/ AnswerMint(r)
    \/ RevokeInner(r) \/ GetIndex(r) \/ DelKeys(r) \/ AnswerRevoke(r)
    \/ RotateInner(r) \/ GetOldIndex(r) \/ DelOldKeys(r)

Arrive(r) ==
    \E q \in Procs :
        \/ \E p \in Pats : Present(r, q, p) \/ Revoke(r, q, p) \/ Create(r, q, p)
        \/ \E p, n \in Pats : Rotate(r, q, p, n)

Next ==
    \/ \E r \in Requests : Arrive(r) \/ RequestStep(r) \/ CallFails(r)
    \/ \E q \in Procs : Restart(q)
    \/ Tick

Spec == Init /\ [][Next]_vars

\* Requests that were taken up go on, and time passes.
FairSpec == Spec /\ WF_vars(Tick) /\ \A r \in Requests : WF_vars(RequestStep(r))
-----------------------------------------------------------------------------
(* Properties                                                              *)

\* After "DELETE /pats/<id>, call /mcp again - must be 401" (cookbook
\* redis-cache.md): a request sent after the answer is not authenticated.
RevocationFinal ==
    \A r \in Requests : req[r].barred => req[r].pc # "granted"

\* It is not, unless the revocation raced with a lookup that was filling the
\* cache or met an entry the id key did not cover: invalidation after the
\* inner write, and the order of the two SETs, exclude every other case.
RevocationFinalUnlessRaced ==
    \A r \in Requests :
        req[r].barred /\ req[r].pat \notin raced => req[r].pc # "granted"

\* No request sent after a PAT's expiry is authenticated, even from an entry
\* that outlives the PAT (the lifecycle checks the cached row again).
GrantBeforeExpiry ==
    \A r \in Requests : req[r].late => req[r].pc # "granted"

\* A positive entry stands for a row of the inner store, and one that no
\* running revocation will drop and no race left behind is for a live row.
CacheCoherent ==
    \A p \in Pats :
        entry[p].kind = "positive" /\ row[p] # "live" =>
            \/ p \in raced
            \/ row[p] = "revoked" /\ p \notin acked

\* Even a raced revocation wins in the end, long before the PAT would have
\* expired: the entry runs out and no later lookup fills it again.
RevocationWins ==
    \A p \in Pats :
        row[p] = "revoked" ~> [](\A r \in Requests : req[r].pat = p => req[r].pc # "granted")
=============================================================================
