---------------------------- MODULE PatLifecycle ----------------------------
(***************************************************************************)
(* Personal access tokens (PATs) of @mcp-authkit/core: the REST handlers   *)
(* that create, revoke and rotate them, the lifecycle functions those      *)
(* handlers call, the lookup of the validation pipeline, and the rows of   *)
(* the token store behind them (postgresTokenStore, sqliteTokenStore).     *)
(*                                                                         *)
(* A request runs one await at a time: every store call and every call of  *)
(* the audit hook is a step of its own, so that other requests, the        *)
(* rotation timers, the clock and a restart of the process can come        *)
(* between.  A PAT stands for its row id and for its plaintext and hash,   *)
(* which mintPat makes unique.  Any store call may fail, either before it  *)
(* took effect ("failed") or after ("lostReply"): see StoreOutcomes.       *)
(***************************************************************************)
EXTENDS Integers

CONSTANTS
    Pats,           \* PATs that can ever be minted (bounds the model)
    Users,          \* subjects that authenticate with a JWT
    Requests,       \* slots for concurrent requests (bounds the model)
    NoPat, NoUser,  \* sentinels
    DefaultExpiry,  \* defaultExpiryDays, in ticks
    MaxExpiry,      \* maxExpiryDays, in ticks
    Grace,          \* rotationGraceSeconds, in ticks
    TimerMax,       \* longest delay setTimeout keeps; a longer one becomes 1 ms
    MaxTime,        \* the clock stops advancing here (bounds the model)
    StoreOutcomes   \* what a store call may do, a subset of Outcome

Outcome == {"ok", "failed", "lostReply"}

ASSUME SentinelAssumption == NoPat \notin Pats /\ NoUser \notin Users
ASSUME TimeAssumption ==
    /\ DefaultExpiry \in Nat \ {0} /\ MaxExpiry \in Nat \ {0}
    /\ Grace \in Nat /\ TimerMax \in Nat /\ MaxTime \in Nat
ASSUME OutcomeAssumption == StoreOutcomes \subseteq Outcome

VARIABLES
    row,       \* row[p]: the store's row for p; owner NoUser when there is none
    timer,     \* timer[n]: ticks until the predecessor of n is revoked, or NoTimer
    req,       \* req[r]: where the request in slot r stands
    clock,
    refused,   \* PATs whose pat.rotate event the audit hook rejected
    issued,    \* PATs whose plaintext was sent to a client
    acked,     \* PATs whose owner was told they are gone: 204, or 404 to a DELETE
    orphans,   \* PATs left behind by a restart or a failed store call
    lost       \* PATs whose deferred revocation was lost or failed

vars == <<row, timer, req, clock, refused, issued, acked, orphans, lost>>

Never == -1       \* revokedAt of a row that is not revoked
NoTimer == -1

NoRow == [owner |-> NoUser, expiresAt |-> 0, revokedAt |-> Never, pred |-> NoPat]
Idle == [pc |-> "idle", user |-> NoUser, pat |-> NoPat, new |-> NoPat,
         at |-> 0, barred |-> NoPat]

Row == [owner: Users \cup {NoUser}, expiresAt: Nat, revokedAt: Nat \cup {Never},
        pred: Pats \cup {NoPat}]

Pc == {"idle", "create", "mintAudit", "rollback",
       "checkRevoke", "revoke", "revokeAudit",
       "checkRotate", "find", "rotate", "retire", "rotateAudit",
       "lookup", "found", "scopes"}

Request == [pc: Pc, user: Users \cup {NoUser}, pat: Pats \cup {NoPat},
            new: Pats \cup {NoPat}, at: Nat, barred: Pats \cup {NoPat}]

TypeOK ==
    /\ row \in [Pats -> Row]
    /\ timer \in [Pats -> Nat \cup {NoTimer}]
    /\ req \in [Requests -> Request]
    /\ clock \in Nat
    /\ refused \subseteq Pats /\ issued \subseteq Pats /\ acked \subseteq Pats
    /\ orphans \subseteq Pats /\ lost \subseteq Pats

Stored(p) == row[p].owner # NoUser
Revoked(p) == row[p].revokedAt # Never
Live(p) == Stored(p) /\ ~Revoked(p)

\* Mutant: listPatsByUser forgets its revoked_at filter.
Listed_Revoked(u) == {p \in Pats : row[p].owner = u}

\* The rows listPatsByUser returns: the user's own, not revoked.
Listed(u) == {p \in Pats : row[p].owner = u /\ ~Revoked(p)}

\* The rows once store.revokePat(p, u) ran: scoped to the owner,
\* and a row already revoked keeps its date.
RowsRevoked(p, u) ==
    IF row[p].owner = u /\ ~Revoked(p)
    THEN [row EXCEPT ![p].revokedAt = clock]
    ELSE row

\* mintPat: a token no row and no request in flight carries.
Fresh(n) == ~Stored(n) /\ n \notin issued /\ \A r \in Requests : req[r].new # n

\* A store call that only reads may throw; the request is then answered 500.
ReadMayFail == StoreOutcomes \ {"ok"} # {}

Finish(r) == req' = [req EXCEPT ![r] = Idle]
Goto(r, label) == req' = [req EXCEPT ![r].pc = label]

Init ==
    /\ row = [p \in Pats |-> NoRow]
    /\ timer = [p \in Pats |-> NoTimer]
    /\ req = [r \in Requests |-> Idle]
    /\ clock = 0
    /\ refused = {} /\ issued = {} /\ acked = {} /\ orphans = {} /\ lost = {}

-----------------------------------------------------------------------------
(* POST /pats                                                              *)

\* handleCreate, then createPat up to its insert: days is refused outside
\* [1, maxExpiryDays]; the expiry date is computed before the row exists.
HandleCreate(r, u, days, n) ==
    /\ req[r].pc = "idle"
    /\ 1 <= days /\ days <= MaxExpiry
    /\ Fresh(n)
    /\ req' = [req EXCEPT ![r] = [Idle EXCEPT !.pc = "create", !.user = u,
                                              !.new = n, !.at = clock + days]]
    /\ UNCHANGED <<row, timer, clock, refused, issued, acked, orphans, lost>>

NewRow(r, predecessor) ==
    [owner |-> req[r].user, expiresAt |-> req[r].at,
     revokedAt |-> Never, pred |-> predecessor]

CreatePat(r) ==
    LET n == req[r].new IN
    /\ req[r].pc = "create"
    /\ \/ /\ "ok" \in StoreOutcomes
          /\ row' = [row EXCEPT ![n] = NewRow(r, NoPat)]
          /\ Goto(r, "mintAudit")
          /\ UNCHANGED orphans
       \/ /\ "failed" \in StoreOutcomes
          /\ Finish(r)
          /\ UNCHANGED <<row, orphans>>
       \/ /\ "lostReply" \in StoreOutcomes
          /\ row' = [row EXCEPT ![n] = NewRow(r, NoPat)]
          /\ orphans' = orphans \cup {n}
          /\ Finish(r)
    /\ UNCHANGED <<timer, clock, refused, issued, acked, lost>>

\* Mutant: createPat does not roll back when the audit hook throws.
MintAudit_NoRollback(r) ==
    LET n == req[r].new IN
    /\ req[r].pc = "mintAudit"
    /\ issued' = issued \cup {n} \/ UNCHANGED issued
    /\ Finish(r)
    /\ UNCHANGED <<row, timer, clock, refused, acked, orphans, lost>>

\* dispatchAudit of pat.mint: accepted, the plaintext goes out with the 201;
\* refused, the row is to be rolled back.
MintAudit(r) ==
    LET n == req[r].new IN
    /\ req[r].pc = "mintAudit"
    /\ \/ issued' = issued \cup {n} /\ Finish(r)
       \/ UNCHANGED issued /\ Goto(r, "rollback")
    /\ UNCHANGED <<row, timer, clock, refused, acked, orphans, lost>>

\* The rollback of createPat: a failure is logged, the audit error surfaces
\* as a 500 in every case.
MintRollback(r) ==
    LET n == req[r].new IN
    /\ req[r].pc = "rollback"
    /\ \/ /\ StoreOutcomes \cap {"ok", "lostReply"} # {}
          /\ row' = RowsRevoked(n, req[r].user)
          /\ UNCHANGED orphans
       \/ /\ "failed" \in StoreOutcomes
          /\ orphans' = orphans \cup {n}
          /\ UNCHANGED row
    /\ Finish(r)
    /\ UNCHANGED <<timer, clock, refused, issued, acked, lost>>

-----------------------------------------------------------------------------
(* DELETE /pats/:id                                                        *)

\* A client may name any PAT there is a row for, its own or not.
HandleRevoke(r, u, p) ==
    /\ req[r].pc = "idle"
    /\ Stored(p)
    /\ req' = [req EXCEPT ![r] = [Idle EXCEPT !.pc = "checkRevoke", !.user = u, !.pat = p]]
    /\ UNCHANGED <<row, timer, clock, refused, issued, acked, orphans, lost>>

\* Mutant: handleRevoke takes a failed list for an empty one and answers 404.
CheckRevoke_EmptyList(r) ==
    LET p == req[r].pat
        u == req[r].user
    IN
    /\ req[r].pc = "checkRevoke"
    /\ \/ p \in Listed(u) /\ Goto(r, "revoke") /\ UNCHANGED acked
       \/ /\ p \notin Listed(u) \/ ReadMayFail
          /\ acked' = IF row[p].owner = u THEN acked \cup {p} ELSE acked
          /\ Finish(r)
    /\ UNCHANGED <<row, timer, clock, refused, issued, orphans, lost>>

\* handleRevoke lists the caller's PATs and answers 404 for any other id; the
\* owner who asked again after a lost reply learns from it that the PAT is gone.
\* A list that failed is a 500.
CheckRevoke(r) ==
    LET p == req[r].pat
        u == req[r].user
    IN
    /\ req[r].pc = "checkRevoke"
    /\ \/ p \in Listed(u) /\ Goto(r, "revoke") /\ UNCHANGED acked
       \/ /\ p \notin Listed(u)
          /\ acked' = IF row[p].owner = u THEN acked \cup {p} ELSE acked
          /\ Finish(r)
       \/ ReadMayFail /\ Finish(r) /\ UNCHANGED acked
    /\ UNCHANGED <<row, timer, clock, refused, issued, orphans, lost>>

RevokePat(r) ==
    /\ req[r].pc = "revoke"
    /\ \/ /\ "ok" \in StoreOutcomes
          /\ row' = RowsRevoked(req[r].pat, req[r].user)
          /\ Goto(r, "revokeAudit")
       \/ /\ "failed" \in StoreOutcomes
          /\ Finish(r)
          /\ UNCHANGED row
       \/ /\ "lostReply" \in StoreOutcomes
          /\ row' = RowsRevoked(req[r].pat, req[r].user)
          /\ Finish(r)
    /\ UNCHANGED <<timer, clock, refused, issued, acked, orphans, lost>>

\* dispatchAudit of pat.revoke, after the row changed: 204, or 500 if refused.
RevokeAudit(r) ==
    LET p == req[r].pat IN
    /\ req[r].pc = "revokeAudit"
    /\ acked' = acked \cup {p} \/ UNCHANGED acked
    /\ Finish(r)
    /\ UNCHANGED <<row, timer, clock, refused, issued, orphans, lost>>

-----------------------------------------------------------------------------
(* POST /pats/:id/rotate                                                   *)

\* barred is p when p's owner had been told, before the request came, that p is gone.
HandleRotate(r, u, p) ==
    /\ req[r].pc = "idle"
    /\ Stored(p)
    /\ req' = [req EXCEPT ![r] = [Idle EXCEPT !.pc = "checkRotate", !.user = u, !.pat = p,
                                              !.barred = IF p \in acked THEN p ELSE NoPat]]
    /\ UNCHANGED <<row, timer, clock, refused, issued, acked, orphans, lost>>

\* handleRotate's own list; then rotatePat reads the clock at once.
CheckRotate(r) ==
    /\ req[r].pc = "checkRotate"
    /\ \/ /\ req[r].pat \in Listed(req[r].user)
          /\ req' = [req EXCEPT ![r].pc = "find", ![r].at = clock + DefaultExpiry]
       \/ (req[r].pat \notin Listed(req[r].user) \/ ReadMayFail) /\ Finish(r)
    /\ UNCHANGED <<row, timer, clock, refused, issued, acked, orphans, lost>>

\* rotatePat's list: the row is looked up again, "PAT not found" is a 500.
RotateFind(r, n) ==
    /\ req[r].pc = "find"
    /\ \/ /\ req[r].pat \in Listed(req[r].user)
          /\ Fresh(n)
          /\ req' = [req EXCEPT ![r].pc = "rotate", ![r].new = n]
       \/ (req[r].pat \notin Listed(req[r].user) \/ ReadMayFail) /\ Finish(r)
    /\ UNCHANGED <<row, timer, clock, refused, issued, acked, orphans, lost>>

\* store.rotatePat: one transaction that requires the owner's row, revoked or
\* not, and inserts the successor.
RotatePat(r) ==
    LET n == req[r].new
        p == req[r].pat
        owned == row[p].owner = req[r].user
    IN
    /\ req[r].pc = "rotate"
    /\ \/ /\ "ok" \in StoreOutcomes /\ owned
          /\ row' = [row EXCEPT ![n] = NewRow(r, p)]
          /\ Goto(r, "retire")
          /\ UNCHANGED orphans
       \/ /\ "failed" \in StoreOutcomes \/ ~owned
          /\ Finish(r)
          /\ UNCHANGED <<row, orphans>>
       \/ /\ "lostReply" \in StoreOutcomes /\ owned
          /\ row' = [row EXCEPT ![n] = NewRow(r, p)]
          /\ orphans' = orphans \cup {n}
          /\ Finish(r)
    /\ UNCHANGED <<timer, clock, refused, issued, acked, lost>>

\* Mutant: the factor 1000 is forgotten, the timer is due at once.
TimerDelay_NoFactor == 0

\* What setTimeout makes of rotationGraceSeconds * 1000.
TimerDelay == IF Grace > TimerMax THEN 0 ELSE Grace

\* Without a grace period the predecessor is revoked now and the request waits
\* for it; with one, a timer of this process is armed.
Retire(r) ==
    LET n == req[r].new IN
    /\ req[r].pc = "retire"
    /\ IF Grace = 0
       THEN /\ \/ /\ "ok" \in StoreOutcomes
                  /\ row' = RowsRevoked(req[r].pat, req[r].user)
                  /\ Goto(r, "rotateAudit")
                  /\ UNCHANGED orphans
               \/ /\ "failed" \in StoreOutcomes
                  /\ orphans' = orphans \cup {n}
                  /\ Finish(r)
                  /\ UNCHANGED row
               \/ /\ "lostReply" \in StoreOutcomes
                  /\ row' = RowsRevoked(req[r].pat, req[r].user)
                  /\ orphans' = orphans \cup {n}
                  /\ Finish(r)
            /\ UNCHANGED timer
       ELSE /\ timer' = [timer EXCEPT ![n] = TimerDelay]
            /\ Goto(r, "rotateAudit")
            /\ UNCHANGED <<row, orphans>>
    /\ UNCHANGED <<clock, refused, issued, acked, lost>>

\* dispatchAudit of pat.rotate; a refusal is a 500 and nothing is undone.
RotateAudit(r) ==
    LET n == req[r].new IN
    /\ req[r].pc = "rotateAudit"
    /\ \/ /\ issued' = issued \cup {n}
          /\ UNCHANGED refused
       \/ /\ refused' = refused \cup {n}
          /\ UNCHANGED issued
    /\ Finish(r)
    /\ UNCHANGED <<row, timer, clock, acked, orphans, lost>>

\* Mutant: the callback revokes the successor instead of the predecessor.
FireTimer_Successor(n) ==
    /\ timer[n] = 0
    /\ timer' = [timer EXCEPT ![n] = NoTimer]
    /\ \/ /\ StoreOutcomes \cap {"ok", "lostReply"} # {}
          /\ row' = RowsRevoked(n, row[n].owner)
          /\ UNCHANGED lost
       \/ /\ "failed" \in StoreOutcomes
          /\ lost' = lost \cup {row[n].pred}
          /\ UNCHANGED row
    /\ UNCHANGED <<req, clock, refused, issued, acked, orphans>>

\* The timer's callback: store.revokePat, whose failure is only logged.
FireTimer(n) ==
    LET p == row[n].pred IN
    /\ timer[n] = 0
    /\ timer' = [timer EXCEPT ![n] = NoTimer]
    /\ \/ /\ StoreOutcomes \cap {"ok", "lostReply"} # {}
          /\ row' = RowsRevoked(p, row[n].owner)
          /\ UNCHANGED lost
       \/ /\ "failed" \in StoreOutcomes
          /\ lost' = lost \cup {p}
          /\ UNCHANGED row
    /\ UNCHANGED <<req, clock, refused, issued, acked, orphans>>

-----------------------------------------------------------------------------
(* A request that authenticates with a PAT                                 *)

\* barred as in HandleRotate.
PresentPat(r, p) ==
    /\ req[r].pc = "idle"
    /\ p \in issued
    /\ req' = [req EXCEPT ![r] = [Idle EXCEPT !.pc = "lookup", !.pat = p,
                                              !.barred = IF p \in acked THEN p ELSE NoPat]]
    /\ UNCHANGED <<row, timer, clock, refused, issued, acked, orphans, lost>>

\* What findPatByHash of the store finds: a row neither revoked nor expired.
StoreFinds(p) == Live(p) /\ row[p].expiresAt > clock

\* The store reads; its answer is on its way to the lifecycle.
FindPatByHash(r) ==
    /\ req[r].pc = "lookup"
    /\ \/ StoreFinds(req[r].pat) /\ Goto(r, "found")
       \/ (~StoreFinds(req[r].pat) \/ ReadMayFail) /\ Finish(r)
    /\ UNCHANGED <<row, timer, clock, refused, issued, acked, orphans, lost>>

\* Mutant: the lifecycle takes the store's test of the expiry for its own.
ConfirmRow_Trusting(r) ==
    /\ req[r].pc = "found"
    /\ req' = [req EXCEPT ![r].pc = "scopes", ![r].at = clock]
    /\ UNCHANGED <<row, timer, clock, refused, issued, acked, orphans, lost>>

\* findPatByHash of the lifecycle, with the row in hand: it reads the clock, at,
\* and tests the row again.  What it got was not revoked when the store read it
\* and its expiry never changes, so the second test is about the expiry.
ConfirmRow(r) ==
    /\ req[r].pc = "found"
    /\ \/ /\ row[req[r].pat].expiresAt > clock
          /\ req' = [req EXCEPT ![r].pc = "scopes", ![r].at = clock]
       \/ row[req[r].pat].expiresAt <= clock /\ Finish(r)
    /\ UNCHANGED <<row, timer, clock, refused, issued, acked, orphans, lost>>

\* resolveUserScopes and the audit of pat.use answer (or throw): the request is decided.
ResolveScopes(r) ==
    /\ req[r].pc = "scopes"
    /\ Finish(r)
    /\ UNCHANGED <<row, timer, clock, refused, issued, acked, orphans, lost>>

-----------------------------------------------------------------------------
(* Time, and a restart of the process: rows survive, nothing else does.    *)

Tick ==
    /\ clock < MaxTime \/ \E n \in Pats : timer[n] > 0
    /\ clock' = IF clock < MaxTime THEN clock + 1 ELSE clock
    /\ timer' = [n \in Pats |-> IF timer[n] > 0 THEN timer[n] - 1 ELSE timer[n]]
    /\ UNCHANGED <<row, req, refused, issued, acked, orphans, lost>>

Restart ==
    /\ req' = [r \in Requests |-> Idle]
    /\ timer' = [n \in Pats |-> NoTimer]
    /\ lost' = lost \cup {p \in Pats : \E n \in Pats : timer[n] # NoTimer /\ row[n].pred = p}
    /\ orphans' = orphans \cup {n \in Pats : Stored(n) /\ \E r \in Requests : req[r].new = n}
    /\ UNCHANGED <<row, clock, refused, issued, acked>>

RequestStep(r) ==
    \/ CreatePat(r) \/ MintAudit(r) \/ MintRollback(r)
    \/ CheckRevoke(r) \/ RevokePat(r) \/ RevokeAudit(r)
    \/ CheckRotate(r) \/ RotatePat(r) \/ Retire(r) \/ RotateAudit(r)
    \/ FindPatByHash(r) \/ ConfirmRow(r) \/ ResolveScopes(r)
    \/ \E n \in Pats : RotateFind(r, n)

Arrive(r) ==
    \/ \E u \in Users, n \in Pats, days \in 0..MaxExpiry + 1 : HandleCreate(r, u, days, n)
    \/ \E u \in Users, p \in Pats : HandleRevoke(r, u, p)
    \/ \E u \in Users, p \in Pats : HandleRotate(r, u, p)
    \/ \E p \in Pats : PresentPat(r, p)

Next ==
    \/ \E r \in Requests : Arrive(r) \/ RequestStep(r)
    \/ \E n \in Pats : FireTimer(n)
    \/ Tick
    \/ Restart

Spec == Init /\ [][Next]_vars
-----------------------------------------------------------------------------
(* Properties                                                              *)

\* A PAT whose owner was told it is gone stays gone, be it by the 204 of a DELETE
\* or, the reply having been lost, by the 404 of the next one: a request that
\* arrives after the answer neither authenticates with the PAT nor rotates it,
\* whatever requests, timers, failures and restarts come between (handleRevoke,
\* revokePat, findPatByHash, handleRotate, rotatePat).
RevocationFinal ==
    \A r \in Requests : req[r].barred # NoPat => req[r].pc \in {"lookup", "checkRotate"}

\* A PAT that authenticates a request had not expired when the store's answer
\* reached the lifecycle, however long it took since the store looked
\* (createPat, rotatePat, both findPatByHash).
GrantBeforeExpiry ==
    \A r \in Requests :
        req[r].pc = "scopes" => req[r].at < row[req[r].pat].expiresAt

\* A minted PAT whose row is live is in the hands of a client or of a request
\* still running; any other was left by a failed store call or a restart, never
\* by the audit hook alone (the rollback of createPat).
NoSilentOrphan ==
    \A n \in Pats :
        (Live(n) /\ row[n].pred = NoPat) =>
            n \in issued \cup orphans \/ \E r \in Requests : req[r].new = n

\* Once a client got the successor of a rotated PAT, the predecessor is revoked
\* or a timer will revoke it, unless that timer was lost (rotatePat, :226).
RotationSupersedes ==
    \A n \in issued :
        LET p == row[n].pred IN
        p # NoPat => Revoked(p) \/ timer[n] # NoTimer \/ p \in lost

\* A PAT is revoked by a request of its owner, by the rollback of its own mint,
\* or by a rotation at least Grace ticks before: within the grace period a
\* rotation leaves it valid (v0.1 8.3, rotationGraceSeconds).
RevokedBy(p) ==
    \/ \E r \in Requests : /\ req[r].pc = "revoke" /\ req[r].pat = p
                           /\ req[r].user = row[p].owner
    \/ \E r \in Requests : req[r].pc = "rollback" /\ req[r].new = p
    \/ \E n \in Pats : /\ row[n].pred = p
                       /\ clock = MaxTime \/ clock >= row[n].expiresAt - DefaultExpiry + Grace
GraceHonoured == [][\A p \in Pats : Live(p) /\ ~Live(p)' => RevokedBy(p)]_vars

\* v0.1 12 and audit/dispatch.ts: an audit hook that throws aborts the
\* operation; a rotation it refused would leave no live successor.
RefusedRotationUndone ==
    \A n \in Pats : n \in refused => ~Live(n)
-----------------------------------------------------------------------------
(* The inductive invariant: what each program counter knows.               *)

Unborn(r) == req[r].pc \in {"create", "rotate"}    \* minted, no row yet
Minting(r) == req[r].pc \in {"mintAudit", "rollback"}
Rotating(r) == req[r].pc \in {"retire", "rotateAudit"}
Checked(r) == req[r].pc \in {"revoke", "revokeAudit", "find", "rotate", "retire", "rotateAudit"}
Managing(r) == Checked(r) \/ req[r].pc \in {"checkRevoke", "checkRotate"}

\* A request carries a new PAT exactly while it creates or rotates, no client
\* has it yet, and its row, once there, is the one the request describes.
NewInv(r) ==
    /\ req[r].new # NoPat <=> Unborn(r) \/ Minting(r) \/ Rotating(r)
    /\ req[r].new # NoPat => req[r].new \notin issued /\ req[r].user \in Users
    /\ Unborn(r) => ~Stored(req[r].new)
    /\ Minting(r) => row[req[r].new].owner = req[r].user /\ row[req[r].new].pred = NoPat
    /\ Rotating(r) => row[req[r].new].owner = req[r].user /\ row[req[r].new].pred = req[r].pat

\* A request that manages a PAT names a row; past its check, a row of its own.
TargetInv(r) ==
    /\ Managing(r) => req[r].user \in Users /\ req[r].pat \in Pats /\ Stored(req[r].pat)
    /\ Checked(r) => row[req[r].pat].owner = req[r].user
    /\ req[r].pc \in {"lookup", "found", "scopes"} => req[r].pat \in issued
    /\ req[r].pc = "revokeAudit" => Revoked(req[r].pat)
    /\ req[r].barred # NoPat => req[r].pat \in acked

\* A rotation past Retire left its predecessor revoked, or to a timer.
RetireInv(r) ==
    req[r].pc = "rotateAudit" =>
        Revoked(req[r].pat) \/ timer[req[r].new] # NoTimer \/ req[r].pat \in lost

RequestInv(r) ==
    /\ NewInv(r) /\ TargetInv(r) /\ RetireInv(r)
    /\ req[r].barred # NoPat => req[r].pc \in {"lookup", "checkRotate"}
    /\ req[r].pc = "scopes" => req[r].at < row[req[r].pat].expiresAt

\* No two requests carry the same new PAT.
NewUnique ==
    \A r, s \in Requests : r # s /\ req[r].new = req[s].new => req[r].new = NoPat

\* What the rows, the timers and the answers sent have in common.
RowInv ==
    /\ \A p \in Pats : Revoked(p) => Stored(p)
    /\ \A n \in Pats : row[n].pred # NoPat =>
           Stored(n) /\ Stored(row[n].pred) /\ row[row[n].pred].owner = row[n].owner
    /\ \A n \in Pats : timer[n] # NoTimer => row[n].pred # NoPat
    /\ \A p \in acked : Revoked(p)
    /\ \A p \in issued : Stored(p)

PatInv == /\ TypeOK /\ RowInv /\ NewUnique
          /\ \A r \in Requests : RequestInv(r)
          /\ NoSilentOrphan /\ RotationSupersedes
=============================================================================
