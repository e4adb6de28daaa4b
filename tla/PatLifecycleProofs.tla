------------------------- MODULE PatLifecycleProofs -------------------------
(***************************************************************************)
(* Proofs about PatLifecycle for every number of PATs, users and requests, *)
(* every grace period and every mix of store failures.  PatInv is an       *)
(* inductive invariant; the safety properties the runs check follow.       *)
(*                                                                         *)
(* A step of request r moves the shared state only forward (Moves), which  *)
(* keeps what every other request relies on (OthersKept); what is left for *)
(* each action is its own request and the rows it touches.                 *)
(***************************************************************************)
EXTENDS PatLifecycle, TLAPS

USE SentinelAssumption, TimeAssumption
    DEF Row, Request, Pc, Never, NoTimer, Stored, Revoked, Live,
        Unborn, Minting, Rotating, Checked, Managing

\* Rows are added and revoked, never dropped or changed; r touches only the row
\* and the timer of the PAT it carries, and no other request.
Moves(r) ==
    /\ TypeOK'
    /\ \A s \in Requests : s # r => req'[s] = req[s]
    /\ \A q \in Pats : Stored(q) =>
           /\ row'[q].owner = row[q].owner
           /\ row'[q].pred = row[q].pred
           /\ row'[q].expiresAt = row[q].expiresAt
           /\ Revoked(q) => Revoked(q)'
    /\ \A q \in Pats : ~Stored(q) /\ q # req[r].new => row'[q] = row[q]
    /\ \A q \in Pats : q # req[r].new => timer'[q] = timer[q]
    /\ clock' = clock
    /\ acked \subseteq acked' /\ lost' = lost
    /\ issued \subseteq issued' /\ issued' \subseteq issued \cup {req[r].new}

LEMMA OthersKept ==
    ASSUME PatInv, NEW r \in Requests, Moves(r),
           NEW s \in Requests, s # r
    PROVE  RequestInv(s)'
<1>1. /\ RequestInv(s) /\ req'[s] = req[s] /\ req[s] \in Request
      /\ req[s].new # NoPat => req[s].new # req[r].new /\ req[s].new \in Pats
  BY DEF PatInv, NewUnique, Moves, TypeOK
<1>2. NewInv(s)'
  BY <1>1 DEF Moves, RequestInv, NewInv, TypeOK
<1>3. TargetInv(s)'
  BY <1>1 DEF Moves, RequestInv, TargetInv, TypeOK
<1>4. RetireInv(s)'
  BY <1>1 DEF Moves, RequestInv, RetireInv, TargetInv, NewInv, TypeOK
<1>5. QED
  BY <1>1, <1>2, <1>3, <1>4 DEF Moves, RequestInv, TargetInv, PatInv, RowInv, TypeOK

-----------------------------------------------------------------------------
(* What the helpers of the actions do.                                     *)

LEMMA FinishFacts ==
    ASSUME TypeOK, NEW r \in Requests, Finish(r)
    PROVE  /\ req' \in [Requests -> Request]
           /\ req'[r] = Idle
           /\ \A s \in Requests : s # r => req'[s] = req[s]
  BY DEF TypeOK, Finish, Idle

LEMMA GotoFacts ==
    ASSUME TypeOK, NEW r \in Requests, NEW label \in Pc, Goto(r, label)
    PROVE  /\ req' \in [Requests -> Request]
           /\ req'[r] = [req[r] EXCEPT !.pc = label]
           /\ \A s \in Requests : s # r => req'[s] = req[s]
  BY DEF TypeOK, Goto

\* store.revokePat changes one date, of the row it names, from null.
LEMMA RevokeFacts ==
    ASSUME TypeOK, NEW p \in Pats, NEW u, row' = RowsRevoked(p, u)
    PROVE  /\ row' \in [Pats -> Row]
           /\ \A q \in Pats : /\ row'[q].owner = row[q].owner
                              /\ row'[q].pred = row[q].pred
                              /\ row'[q].expiresAt = row[q].expiresAt
                              /\ Revoked(q) => Revoked(q)'
           /\ \A q \in Pats : q # p \/ row[q].owner # u => row'[q] = row[q]
           /\ row[p].owner = u => Revoked(p)'
<1>1. CASE row[p].owner = u /\ ~Revoked(p)
  BY <1>1 DEF RowsRevoked, TypeOK
<1>2. CASE ~(row[p].owner = u /\ ~Revoked(p))
  BY <1>2 DEF RowsRevoked, TypeOK
<1>3. QED
  BY <1>1, <1>2

\* An insert leaves the other rows alone.
LEMMA InsertFacts ==
    ASSUME TypeOK, NEW r \in Requests, NEW p \in Pats \cup {NoPat},
           req[r].new \in Pats, req[r].user \in Users,
           row' = [row EXCEPT ![req[r].new] = NewRow(r, p)]
    PROVE  /\ row' \in [Pats -> Row]
           /\ \A q \in Pats : q # req[r].new => row'[q] = row[q]
           /\ row'[req[r].new] = NewRow(r, p)
           /\ NewRow(r, p) \in Row
  BY DEF NewRow, TypeOK

LEMMA InitPatInv == Init => PatInv
<1> SUFFICES ASSUME Init PROVE PatInv
  OBVIOUS
<1>1. TypeOK
  BY DEF Init, TypeOK, NoRow, Idle
<1>2. RowInv /\ NewUnique
  BY DEF Init, RowInv, NewUnique, NoRow, Idle
<1>3. ASSUME NEW r \in Requests PROVE RequestInv(r)
  BY DEF Init, RequestInv, NewInv, TargetInv, RetireInv, Idle
<1>4. NoSilentOrphan /\ RotationSupersedes
  BY DEF Init, NoSilentOrphan, RotationSupersedes, NoRow
<1>5. QED
  BY <1>1, <1>2, <1>3, <1>4 DEF PatInv

-----------------------------------------------------------------------------
(* The two ways a step of request r ends.                                  *)

\* r keeps the PAT it carries and goes on.
LEMMA GoesOn ==
    ASSUME PatInv, NEW r \in Requests, Moves(r), RowInv', RequestInv(r)',
           req'[r].new = req[r].new, issued' = issued, orphans \subseteq orphans'
    PROVE  PatInv'
<1>1. \A s \in Requests : RequestInv(s)'
  BY OthersKept
<1>2. NewUnique'
  BY DEF PatInv, NewUnique, Moves
<1>3. NoSilentOrphan'
  <2> SUFFICES ASSUME NEW n \in Pats, Live(n)', row'[n].pred = NoPat
               PROVE  n \in issued' \cup orphans' \/ \E s \in Requests : req'[s].new = n
    BY DEF NoSilentOrphan
  <2>1. CASE n = req[r].new
    BY <2>1
  <2>2. CASE n # req[r].new
    <3>1. Live(n) /\ row[n].pred = NoPat
      BY <2>2 DEF PatInv, TypeOK, RowInv, Moves
    <3>2. CASE n \in issued \cup orphans
      BY <3>2 DEF Moves
    <3>3. CASE \E s \in Requests : req[s].new = n
      BY <2>2, <3>3 DEF Moves
    <3>4. QED
      BY <3>1, <3>2, <3>3 DEF PatInv, NoSilentOrphan
  <2>3. QED
    BY <2>1, <2>2
<1>4. RotationSupersedes'
  <2>1. req[r].new \notin issued
    BY DEF PatInv, TypeOK, RequestInv, NewInv
  <2>2. QED
    BY <2>1 DEF PatInv, TypeOK, RowInv, RotationSupersedes, Moves
<1>5. QED
  BY <1>1, <1>2, <1>3, <1>4 DEF PatInv, Moves

\* r is answered: the PAT it carried is issued, revoked or a known orphan.
LEMMA Ends ==
    ASSUME PatInv, NEW r \in Requests, Moves(r), RowInv', req'[r] = Idle,
           orphans \subseteq orphans',
           NEW new, new = req[r].new,
           new \in Pats /\ Live(new)' /\ row'[new].pred = NoPat => new \in issued' \cup orphans',
           new \in issued' /\ row'[new].pred # NoPat =>
               Revoked(row[new].pred)' \/ timer'[new] # NoTimer \/ row'[new].pred \in lost'
    PROVE  PatInv'
<1>1. \A s \in Requests : RequestInv(s)'
  <2>1. RequestInv(r)'
    BY DEF RequestInv, NewInv, TargetInv, RetireInv, Idle
  <2>2. QED
    BY <2>1, OthersKept
<1>2. NewUnique'
  BY DEF PatInv, NewUnique, Moves, Idle
<1>3. NoSilentOrphan'
  <2> SUFFICES ASSUME NEW n \in Pats, Live(n)', row'[n].pred = NoPat
               PROVE  n \in issued' \cup orphans' \/ \E s \in Requests : req'[s].new = n
    BY DEF NoSilentOrphan
  <2>1. CASE n = new
    BY <2>1
  <2>2. CASE n # new
    <3>1. Live(n) /\ row[n].pred = NoPat
      BY <2>2 DEF PatInv, TypeOK, RowInv, Moves
    <3>2. CASE n \in issued \cup orphans
      BY <3>2 DEF Moves
    <3>3. CASE \E s \in Requests : req[s].new = n
      BY <2>2, <3>3 DEF Moves
    <3>4. QED
      BY <3>1, <3>2, <3>3 DEF PatInv, NoSilentOrphan
  <2>3. QED
    BY <2>1, <2>2
<1>4. RotationSupersedes'
  <2> SUFFICES ASSUME NEW n \in issued', row'[n].pred # NoPat
               PROVE  \/ Revoked(row[n].pred)' \/ timer'[n] # NoTimer
                      \/ row'[n].pred \in lost'
    BY DEF RotationSupersedes
  <2>1. CASE n = new
    BY <2>1
  <2>2. CASE n # new
    <3>1. n \in issued /\ n \in Pats /\ row'[n].pred = row[n].pred
      BY <2>2 DEF PatInv, TypeOK, RowInv, Moves
    <3>2. Stored(row[n].pred) /\ row[n].pred \in Pats
      BY <3>1 DEF PatInv, TypeOK, RowInv
    <3>3. QED
      BY <2>2, <3>1, <3>2 DEF PatInv, RotationSupersedes, Moves
  <2>3. QED
    BY <2>1, <2>2
<1>5. QED
  BY <1>1, <1>2, <1>3, <1>4 DEF PatInv, Moves

\* r carried no PAT; it starts, or takes a fresh one, and nothing else changes.
LEMMA Takes ==
    ASSUME PatInv, NEW r \in Requests, req[r].new = NoPat,
           NEW rec \in Request, req' = [req EXCEPT ![r] = rec],
           UNCHANGED <<row, timer, clock, refused, issued, acked, orphans, lost>>,
           rec.new = NoPat \/ Fresh(rec.new), RequestInv(r)'
    PROVE  PatInv'
<1>1. /\ req' \in [Requests -> Request] /\ req'[r] = rec
      /\ \A s \in Requests : s # r => req'[s] = req[s]
  BY DEF PatInv, TypeOK
<1>2. TypeOK' /\ Moves(r)
  BY <1>1 DEF PatInv, TypeOK, Moves
<1>3. \A s \in Requests : RequestInv(s)'
  BY <1>2, OthersKept
<1>4. NewUnique'
  BY <1>1 DEF PatInv, NewUnique, Fresh
<1>5. RowInv' /\ RotationSupersedes'
  BY DEF PatInv, RowInv, RotationSupersedes
<1>6. NoSilentOrphan'
  <2> SUFFICES ASSUME NEW n \in Pats, Live(n), row[n].pred = NoPat,
                      n \notin issued \cup orphans
               PROVE  \E s \in Requests : req'[s].new = n
    BY DEF NoSilentOrphan
  <2>1. PICK s \in Requests : req[s].new = n
    BY DEF PatInv, NoSilentOrphan
  <2>2. QED
    BY <1>1, <2>1
<1>7. QED
  BY <1>2, <1>3, <1>4, <1>5, <1>6 DEF PatInv

-----------------------------------------------------------------------------
(* Arrivals, and the steps of a request that change nothing else.          *)

LEMMA HandleCreateStep ==
    ASSUME PatInv, NEW r \in Requests, NEW u \in Users, NEW n \in Pats,
           NEW days \in 0..MaxExpiry + 1, HandleCreate(r, u, days, n)
    PROVE  PatInv'
<1> DEFINE rec == [Idle EXCEPT !.pc = "create", !.user = u, !.new = n, !.at = clock + days]
<1>1. clock + days \in Nat
  BY DEF PatInv, TypeOK, HandleCreate
<1>2. rec \in Request /\ rec.pc = "create" /\ rec.user = u /\ rec.new = n /\ rec.barred = NoPat
  BY <1>1 DEF Idle
<1>3. req[r].new = NoPat /\ Fresh(n)
  BY DEF PatInv, RequestInv, NewInv, HandleCreate
<1>4. req' = [req EXCEPT ![r] = rec] /\ req'[r] = rec
  BY DEF HandleCreate, PatInv, TypeOK
<1>5. UNCHANGED <<row, timer, clock, refused, issued, acked, orphans, lost>>
  BY DEF HandleCreate
<1> HIDE DEF rec
<1>6. RequestInv(r)'
  BY <1>2, <1>3, <1>4, <1>5 DEF RequestInv, NewInv, TargetInv, RetireInv, Fresh
<1>7. QED
  BY <1>2, <1>3, <1>4, <1>5, <1>6, Takes

LEMMA HandleRevokeStep ==
    ASSUME PatInv, NEW r \in Requests, NEW u \in Users, NEW p \in Pats, HandleRevoke(r, u, p)
    PROVE  PatInv'
<1> DEFINE rec == [Idle EXCEPT !.pc = "checkRevoke", !.user = u, !.pat = p]
<1>1. /\ rec \in Request /\ rec.pc = "checkRevoke" /\ rec.user = u /\ rec.pat = p
      /\ rec.new = NoPat /\ rec.barred = NoPat
  BY DEF Idle
<1>2. req[r].new = NoPat /\ Stored(p)
  BY DEF PatInv, RequestInv, NewInv, HandleRevoke
<1>3. req' = [req EXCEPT ![r] = rec] /\ req'[r] = rec
  BY DEF HandleRevoke, PatInv, TypeOK
<1>4. UNCHANGED <<row, timer, clock, refused, issued, acked, orphans, lost>>
  BY DEF HandleRevoke
<1> HIDE DEF rec
<1>5. RequestInv(r)'
  BY <1>1, <1>2, <1>3, <1>4 DEF RequestInv, NewInv, TargetInv, RetireInv
<1>6. QED
  BY <1>1, <1>2, <1>3, <1>4, <1>5, Takes

LEMMA HandleRotateStep ==
    ASSUME PatInv, NEW r \in Requests, NEW u \in Users, NEW p \in Pats, HandleRotate(r, u, p)
    PROVE  PatInv'
<1> DEFINE bar == IF p \in acked THEN p ELSE NoPat
           rec == [Idle EXCEPT !.pc = "checkRotate", !.user = u, !.pat = p, !.barred = bar]
<1>1. bar \in Pats \cup {NoPat} /\ (bar # NoPat => p \in acked)
  OBVIOUS
<1> HIDE DEF bar
<1>2. /\ rec \in Request /\ rec.pc = "checkRotate" /\ rec.user = u /\ rec.pat = p
      /\ rec.new = NoPat /\ rec.barred = bar
  BY <1>1 DEF Idle
<1>3. req[r].new = NoPat /\ Stored(p)
  BY DEF PatInv, RequestInv, NewInv, HandleRotate
<1>4. req' = [req EXCEPT ![r] = rec] /\ req'[r] = rec
  BY DEF HandleRotate, PatInv, TypeOK, bar
<1>5. UNCHANGED <<row, timer, clock, refused, issued, acked, orphans, lost>>
  BY DEF HandleRotate
<1> HIDE DEF rec
<1>6. RequestInv(r)'
  BY <1>1, <1>2, <1>3, <1>4, <1>5 DEF RequestInv, NewInv, TargetInv, RetireInv
<1>7. QED
  BY <1>2, <1>3, <1>4, <1>5, <1>6, Takes

LEMMA PresentPatStep ==
    ASSUME PatInv, NEW r \in Requests, NEW p \in Pats, PresentPat(r, p)
    PROVE  PatInv'
<1> DEFINE bar == IF p \in acked THEN p ELSE NoPat
           rec == [Idle EXCEPT !.pc = "lookup", !.pat = p, !.barred = bar]
<1>1. bar \in Pats \cup {NoPat} /\ (bar # NoPat => p \in acked) /\ clock \in Nat
  BY DEF PatInv, TypeOK
<1> HIDE DEF bar
<1>2. /\ rec \in Request /\ rec.pc = "lookup" /\ rec.pat = p
      /\ rec.new = NoPat /\ rec.barred = bar
  BY <1>1 DEF Idle
<1>3. req[r].new = NoPat /\ p \in issued
  BY DEF PatInv, RequestInv, NewInv, PresentPat
<1>4. req' = [req EXCEPT ![r] = rec] /\ req'[r] = rec
  BY DEF PresentPat, PatInv, TypeOK, bar
<1>5. UNCHANGED <<row, timer, clock, refused, issued, acked, orphans, lost>>
  BY DEF PresentPat
<1> HIDE DEF rec
<1>6. RequestInv(r)'
  BY <1>1, <1>2, <1>3, <1>4, <1>5 DEF RequestInv, NewInv, TargetInv, RetireInv
<1>7. QED
  BY <1>2, <1>3, <1>4, <1>5, <1>6, Takes

\* A request that carries no PAT is answered and nothing else changes.
LEMMA Answered ==
    ASSUME PatInv, NEW r \in Requests, req[r].new = NoPat, Finish(r),
           UNCHANGED <<row, timer, clock, refused, issued, acked, orphans, lost>>
    PROVE  PatInv'
<1>1. Idle \in Request /\ Idle.new = NoPat
  BY DEF Idle
<1>2. req' = [req EXCEPT ![r] = Idle] /\ req'[r] = Idle
  BY DEF Finish, PatInv, TypeOK
<1>3. RequestInv(r)'
  BY <1>2 DEF RequestInv, NewInv, TargetInv, RetireInv, Idle
<1>4. QED
  BY <1>1, <1>2, <1>3, Takes

\* The same when it goes on under another label.
LEMMA Relabelled ==
    ASSUME PatInv, NEW r \in Requests, NEW label \in Pc, Goto(r, label),
           UNCHANGED <<row, timer, clock, refused, issued, acked, orphans, lost>>,
           RequestInv(r)'
    PROVE  PatInv'
<1>1. /\ req' \in [Requests -> Request] /\ req'[r] = [req[r] EXCEPT !.pc = label]
      /\ \A s \in Requests : s # r => req'[s] = req[s]
  BY GotoFacts DEF PatInv
<1>2. Moves(r)
  BY <1>1 DEF PatInv, TypeOK, Moves
<1>3. RowInv' /\ req'[r].new = req[r].new
  BY <1>1 DEF PatInv, TypeOK, RowInv
<1>4. QED
  BY <1>2, <1>3, GoesOn

\* The request is answered, and the answer may tell the owner of a revoked PAT
\* that it is gone.
LEMMA Told ==
    ASSUME PatInv, NEW r \in Requests, req[r].new = NoPat, req[r].pat \in Pats,
           Revoked(req[r].pat), Finish(r),
           acked \subseteq acked', acked' \subseteq acked \cup {req[r].pat},
           UNCHANGED <<row, timer, clock, refused, issued, orphans, lost>>
    PROVE  PatInv'
<1>1. /\ req' \in [Requests -> Request] /\ req'[r] = Idle
      /\ \A s \in Requests : s # r => req'[s] = req[s]
  BY FinishFacts DEF PatInv
<1>2. Moves(r)
  BY <1>1 DEF PatInv, TypeOK, Moves
<1>3. RowInv' /\ NoPat \notin issued'
  BY DEF PatInv, TypeOK, RowInv
<1>4. QED
  BY <1>1, <1>2, <1>3, Ends

LEMMA CheckRevokeStep ==
    ASSUME PatInv, NEW r \in Requests, CheckRevoke(r)
    PROVE  PatInv'
<1>1. /\ req[r].new = NoPat /\ RequestInv(r) /\ req[r] \in Request /\ row \in [Pats -> Row]
      /\ req[r].pc = "checkRevoke" /\ req[r].pat \in Pats
      /\ UNCHANGED <<row, timer, clock, refused, issued, orphans, lost>>
  BY DEF CheckRevoke, PatInv, TypeOK, RequestInv, NewInv, TargetInv
<1>2. CASE req[r].pat \in Listed(req[r].user) /\ Goto(r, "revoke") /\ UNCHANGED acked
  <2>1. req'[r] = [req[r] EXCEPT !.pc = "revoke"]
    BY <1>2, GotoFacts DEF PatInv
  <2>2. RequestInv(r)'
    BY <1>1, <1>2, <2>1 DEF RequestInv, NewInv, TargetInv, RetireInv, Listed
  <2>3. QED
    BY <1>1, <1>2, <2>2, Relabelled
<1>3. CASE Finish(r) /\ UNCHANGED acked
  BY <1>1, <1>3, Answered
<1>4. CASE /\ req[r].pat \notin Listed(req[r].user) /\ Finish(r)
           /\ row[req[r].pat].owner = req[r].user /\ acked' = acked \cup {req[r].pat}
  <2>1. Revoked(req[r].pat)
    BY <1>1, <1>4 DEF Listed
  <2>2. QED
    BY <1>1, <1>4, <2>1, Told
<1>5. QED
  BY <1>2, <1>3, <1>4 DEF CheckRevoke

LEMMA CheckRotateStep ==
    ASSUME PatInv, NEW r \in Requests, CheckRotate(r)
    PROVE  PatInv'
<1>1. /\ req[r].new = NoPat /\ RequestInv(r) /\ req[r] \in Request /\ row \in [Pats -> Row]
      /\ clock + DefaultExpiry \in Nat
  BY DEF CheckRotate, PatInv, TypeOK, RequestInv, NewInv
<1>2. CASE /\ req[r].pat \in Listed(req[r].user)
           /\ req' = [req EXCEPT ![r].pc = "find", ![r].at = clock + DefaultExpiry]
  <2> DEFINE rec == [req[r] EXCEPT !.pc = "find", !.at = clock + DefaultExpiry]
  <2>1. /\ rec \in Request /\ rec.pc = "find" /\ rec.user = req[r].user
        /\ rec.pat = req[r].pat /\ rec.new = NoPat /\ rec.barred = req[r].barred
    BY <1>1
  <2>2. req' = [req EXCEPT ![r] = rec] /\ req'[r] = rec
    BY <1>2 DEF CheckRotate, PatInv, TypeOK
  <2>3. UNCHANGED <<row, timer, clock, refused, issued, acked, orphans, lost>>
    BY DEF CheckRotate
  <2>4. req[r].barred = NoPat
    BY <1>1, <1>2 DEF CheckRotate, RequestInv, TargetInv, PatInv, RowInv, Listed
  <2> HIDE DEF rec
  <2>5. RequestInv(r)'
    BY <1>1, <1>2, <2>1, <2>2, <2>3, <2>4
    DEF CheckRotate, RequestInv, NewInv, TargetInv, RetireInv, Listed
  <2>6. QED
    BY <1>1, <2>1, <2>2, <2>3, <2>5, Takes
<1>3. CASE Finish(r)
  BY <1>1, <1>3, Answered DEF CheckRotate
<1>4. QED
  BY <1>2, <1>3 DEF CheckRotate

LEMMA RotateFindStep ==
    ASSUME PatInv, NEW r \in Requests, NEW n \in Pats, RotateFind(r, n)
    PROVE  PatInv'
<1>1. req[r].new = NoPat /\ RequestInv(r) /\ req[r] \in Request /\ row \in [Pats -> Row]
  BY DEF RotateFind, PatInv, TypeOK, RequestInv, NewInv
<1>2. CASE /\ req[r].pat \in Listed(req[r].user)
           /\ Fresh(n)
           /\ req' = [req EXCEPT ![r].pc = "rotate", ![r].new = n]
  <2> DEFINE rec == [req[r] EXCEPT !.pc = "rotate", !.new = n]
  <2>1. /\ rec \in Request /\ rec.pc = "rotate" /\ rec.user = req[r].user
        /\ rec.pat = req[r].pat /\ rec.new = n /\ rec.barred = req[r].barred
    BY <1>1
  <2>2. req' = [req EXCEPT ![r] = rec] /\ req'[r] = rec /\ Fresh(n)
    BY <1>2 DEF RotateFind, PatInv, TypeOK
  <2>3. UNCHANGED <<row, timer, clock, refused, issued, acked, orphans, lost>>
    BY DEF RotateFind
  <2> HIDE DEF rec
  <2>4. RequestInv(r)'
    BY <1>1, <1>2, <2>1, <2>2, <2>3
    DEF RotateFind, RequestInv, NewInv, TargetInv, RetireInv, Listed, Fresh
  <2>5. QED
    BY <1>1, <2>1, <2>2, <2>3, <2>4, Takes
<1>3. CASE Finish(r)
  BY <1>1, <1>3, Answered DEF RotateFind
<1>4. QED
  BY <1>2, <1>3 DEF RotateFind

LEMMA FindPatByHashStep ==
    ASSUME PatInv, NEW r \in Requests, FindPatByHash(r)
    PROVE  PatInv'
<1>1. /\ req[r].pc = "lookup" /\ req[r].new = NoPat /\ RequestInv(r)
      /\ req[r] \in Request /\ row \in [Pats -> Row] /\ req[r].pat \in Pats
  BY DEF FindPatByHash, PatInv, TypeOK, RequestInv, NewInv, TargetInv
<1>2. CASE StoreFinds(req[r].pat) /\ Goto(r, "found")
  <2>1. req'[r] = [req[r] EXCEPT !.pc = "found"]
    BY <1>2, GotoFacts DEF PatInv
  <2>2. req[r].barred = NoPat
    BY <1>1, <1>2 DEF StoreFinds, RequestInv, TargetInv, PatInv, RowInv
  <2>3. RequestInv(r)'
    BY <1>1, <2>1, <2>2 DEF FindPatByHash, RequestInv, NewInv, TargetInv, RetireInv
  <2>4. QED
    BY <1>2, <2>3, Relabelled DEF FindPatByHash
<1>3. CASE Finish(r)
  BY <1>1, <1>3, Answered DEF FindPatByHash
<1>4. QED
  BY <1>2, <1>3 DEF FindPatByHash

LEMMA ConfirmRowStep ==
    ASSUME PatInv, NEW r \in Requests, ConfirmRow(r)
    PROVE  PatInv'
<1>1. /\ req[r].pc = "found" /\ req[r].new = NoPat /\ RequestInv(r)
      /\ req[r] \in Request /\ row \in [Pats -> Row] /\ clock \in Nat
      /\ UNCHANGED <<row, timer, clock, refused, issued, acked, orphans, lost>>
  BY DEF ConfirmRow, PatInv, TypeOK, RequestInv, NewInv
<1>2. CASE /\ row[req[r].pat].expiresAt > clock
           /\ req' = [req EXCEPT ![r].pc = "scopes", ![r].at = clock]
  <2> DEFINE rec == [req[r] EXCEPT !.pc = "scopes", !.at = clock]
  <2>1. /\ rec \in Request /\ rec.pc = "scopes" /\ rec.at = clock /\ rec.user = req[r].user
        /\ rec.pat = req[r].pat /\ rec.new = NoPat /\ rec.barred = req[r].barred
    BY <1>1
  <2>2. req' = [req EXCEPT ![r] = rec] /\ req'[r] = rec
    BY <1>2 DEF PatInv, TypeOK
  <2> HIDE DEF rec
  <2>3. RequestInv(r)'
    BY <1>1, <1>2, <2>1, <2>2 DEF RequestInv, NewInv, TargetInv, RetireInv
  <2>4. QED
    BY <1>1, <2>1, <2>2, <2>3, Takes
<1>3. CASE Finish(r)
  BY <1>1, <1>3, Answered
<1>4. QED
  BY <1>2, <1>3 DEF ConfirmRow

LEMMA ResolveScopesStep ==
    ASSUME PatInv, NEW r \in Requests, ResolveScopes(r)
    PROVE  PatInv'
<1>1. req[r].new = NoPat
  BY DEF ResolveScopes, PatInv, RequestInv, NewInv
<1>2. QED
  BY <1>1, Answered DEF ResolveScopes

-----------------------------------------------------------------------------
(* The steps that change rows, timers or what clients were told.           *)

LEMMA RevokeAuditStep ==
    ASSUME PatInv, NEW r \in Requests, RevokeAudit(r)
    PROVE  PatInv'
<1>1. /\ req[r].new = NoPat /\ req[r].pat \in Pats /\ Revoked(req[r].pat)
      /\ acked \subseteq acked' /\ acked' \subseteq acked \cup {req[r].pat}
  BY DEF RevokeAudit, PatInv, TypeOK, RequestInv, NewInv, TargetInv
<1>2. QED
  BY <1>1, Told DEF RevokeAudit

\* An insert, by createPat or store.rotatePat, keeps the rows in order.
LEMMA InsertedRows ==
    ASSUME PatInv, NEW n \in Pats, ~Stored(n), n \notin issued,
           row'[n].owner \in Users, row'[n].revokedAt = Never,
           \/ row'[n].pred = NoPat
           \/ row'[n].pred \in Pats /\ row[row'[n].pred].owner = row'[n].owner,
           \A q \in Pats : q # n => row'[q] = row[q],
           UNCHANGED <<timer, acked, issued>>
    PROVE  RowInv'
<1>1. /\ \A q \in Pats : Revoked(q) => q # n /\ Stored(q)
      /\ \A q \in Pats : row[q].pred \in Pats \cup {NoPat} /\ row[q].pred # n
      /\ acked \subseteq Pats /\ issued \subseteq Pats /\ n \notin acked
      /\ timer[n] = NoTimer /\ row'[n].pred # n
  BY DEF PatInv, TypeOK, RowInv
<1>2. /\ \A q \in Pats : Revoked(q)' => Stored(q)'
      /\ \A q \in acked' : Revoked(q)'
      /\ \A q \in issued' : Stored(q)'
  BY <1>1 DEF PatInv, RowInv
<1>3. ASSUME NEW q \in Pats, row'[q].pred # NoPat
      PROVE  /\ Stored(q)' /\ row'[q].pred \in Pats
             /\ row'[row'[q].pred].owner # NoUser
             /\ row'[row'[q].pred].owner = row'[q].owner
  BY <1>1, <1>3 DEF PatInv, RowInv
<1>4. \A q \in Pats : timer'[q] # NoTimer => row'[q].pred # NoPat
  BY <1>1 DEF PatInv, RowInv
<1>5. QED
  BY <1>2, <1>3, <1>4 DEF RowInv

\* So does store.revokePat, which revokes no row of nobody.
LEMMA RevokedRows ==
    ASSUME PatInv, NEW p \in Pats, NEW u, p \in Pats /\ u # NoUser,
           row' = RowsRevoked(p, u), UNCHANGED <<acked, issued>>,
           \A n \in Pats : timer'[n] # NoTimer => row[n].pred # NoPat
    PROVE  RowInv'
<1>1. /\ row' \in [Pats -> Row]
      /\ \A q \in Pats : /\ row'[q].owner = row[q].owner
                         /\ row'[q].pred = row[q].pred
                         /\ Revoked(q) => Revoked(q)'
      /\ \A q \in Pats : q # p \/ row[q].owner # u => row'[q] = row[q]
  BY RevokeFacts DEF PatInv
<1>2. /\ \A q \in Pats : Revoked(q) => Stored(q)
      /\ \A q \in Pats : row[q].pred \in Pats \cup {NoPat}
      /\ \A q \in acked : q \in Pats /\ Revoked(q)
      /\ \A q \in issued : q \in Pats /\ Stored(q)
  BY DEF PatInv, TypeOK, RowInv
<1>3. \A q \in Pats : Revoked(q)' => Stored(q)'
  BY <1>1, <1>2
<1>4. \A q \in acked' : Revoked(q)'
  BY <1>1, <1>2
<1>5. \A q \in issued' : Stored(q)'
  BY <1>1, <1>2
<1>6. ASSUME NEW n \in Pats, row'[n].pred # NoPat
      PROVE  /\ Stored(n)' /\ row'[n].pred \in Pats
             /\ row'[row'[n].pred].owner # NoUser
             /\ row'[row'[n].pred].owner = row'[n].owner
  BY <1>1, <1>2, <1>6 DEF PatInv, RowInv
<1>7. \A n \in Pats : timer'[n] # NoTimer => row'[n].pred # NoPat
  BY <1>1
<1>8. QED
  BY <1>3, <1>4, <1>5, <1>6, <1>7 DEF RowInv

LEMMA CreatePatStep ==
    ASSUME PatInv, NEW r \in Requests, NEW n, n = req[r].new, CreatePat(r)
    PROVE  PatInv'
<1>1. /\ RequestInv(r) /\ req[r] \in Request /\ req[r].pc = "create" /\ n \in Pats
      /\ ~Stored(n) /\ n \notin issued /\ req[r].user \in Users /\ req[r].at \in Nat
      /\ req[r].barred = NoPat
  BY DEF CreatePat, PatInv, TypeOK, RequestInv, NewInv
<1>2. /\ row[n].pred = NoPat /\ timer[n] = NoTimer /\ n \notin acked
      /\ \A q \in Pats : row[q].pred # n
  BY <1>1 DEF PatInv, TypeOK, RowInv
<1>3. UNCHANGED <<timer, clock, refused, issued, acked, lost>>
  BY DEF CreatePat
<1>4. ASSUME row' = [row EXCEPT ![n] = NewRow(r, NoPat)]
      PROVE  /\ row' \in [Pats -> Row] /\ \A q \in Pats : q # n => row'[q] = row[q]
             /\ row'[n].owner = req[r].user /\ row'[n].pred = NoPat
             /\ row'[n].revokedAt = Never
             /\ RowInv'
  <2>1. /\ row' \in [Pats -> Row] /\ \A q \in Pats : q # n => row'[q] = row[q]
        /\ row'[n] = NewRow(r, NoPat)
    BY <1>1, <1>4, InsertFacts DEF PatInv
  <2>2. /\ row'[n].owner = req[r].user /\ row'[n].pred = NoPat
        /\ row'[n].revokedAt = Never
    BY <2>1 DEF NewRow
  <2>3. QED
    BY <1>1, <1>3, <2>1, <2>2, InsertedRows
<1>5. CASE row' = [row EXCEPT ![n] = NewRow(r, NoPat)] /\ Goto(r, "mintAudit") /\ UNCHANGED orphans
  <2>1. /\ req' \in [Requests -> Request] /\ req'[r] = [req[r] EXCEPT !.pc = "mintAudit"]
        /\ \A s \in Requests : s # r => req'[s] = req[s]
    BY <1>5, GotoFacts DEF PatInv
  <2>2. Moves(r)
    BY <1>1, <1>3, <1>4, <1>5, <2>1 DEF PatInv, TypeOK, Moves
  <2>3. RequestInv(r)'
    BY <1>1, <1>3, <1>4, <1>5, <2>1 DEF RequestInv, NewInv, TargetInv, RetireInv
  <2>4. req'[r].new = req[r].new
    BY <1>1, <2>1
  <2>5. QED
    BY <1>3, <1>4, <1>5, <2>2, <2>3, <2>4, GoesOn
<1>6. CASE Finish(r) /\ UNCHANGED <<row, orphans>>
  <2>1. /\ req' \in [Requests -> Request] /\ req'[r] = Idle
        /\ \A s \in Requests : s # r => req'[s] = req[s]
    BY <1>6, FinishFacts DEF PatInv
  <2>2. Moves(r)
    BY <1>3, <1>6, <2>1 DEF PatInv, TypeOK, Moves
  <2>3. RowInv'
    BY <1>3, <1>6 DEF PatInv, RowInv
  <2>4. n \notin issued' /\ ~Live(n)'
    BY <1>1, <1>3, <1>6
  <2>5. QED
    BY <1>6, <2>1, <2>2, <2>3, <2>4, Ends
<1>7. CASE /\ row' = [row EXCEPT ![n] = NewRow(r, NoPat)]
           /\ orphans' = orphans \cup {n} /\ Finish(r)
  <2>1. /\ req' \in [Requests -> Request] /\ req'[r] = Idle
        /\ \A s \in Requests : s # r => req'[s] = req[s]
    BY <1>7, FinishFacts DEF PatInv
  <2>2. Moves(r)
    BY <1>1, <1>3, <1>4, <1>7, <2>1 DEF PatInv, TypeOK, Moves
  <2>3. n \in orphans' /\ n \notin issued' /\ orphans \subseteq orphans'
    BY <1>1, <1>3, <1>7
  <2>4. QED
    BY <1>4, <1>7, <2>1, <2>2, <2>3, Ends
<1>8. QED
  BY <1>5, <1>6, <1>7 DEF CreatePat

LEMMA MintAuditStep ==
    ASSUME PatInv, NEW r \in Requests, NEW n, n = req[r].new, MintAudit(r)
    PROVE  PatInv'
<1>1. /\ RequestInv(r) /\ req[r] \in Request /\ req[r].pc = "mintAudit" /\ n \in Pats
      /\ n \notin issued /\ req[r].user \in Users /\ Stored(n) /\ row[n].pred = NoPat
      /\ row \in [Pats -> Row]
  BY DEF MintAudit, PatInv, TypeOK, RequestInv, NewInv
<1>2. UNCHANGED <<row, timer, clock, refused, acked, orphans, lost>>
  BY DEF MintAudit
<1>3. CASE issued' = issued \cup {n} /\ Finish(r)
  <2>1. /\ req' \in [Requests -> Request] /\ req'[r] = Idle
        /\ \A s \in Requests : s # r => req'[s] = req[s]
    BY <1>3, FinishFacts DEF PatInv
  <2>2. Moves(r)
    BY <1>1, <1>2, <1>3, <2>1 DEF PatInv, TypeOK, Moves
  <2>3. RowInv'
    BY <1>1, <1>2, <1>3 DEF PatInv, RowInv
  <2>4. n \in issued' /\ row'[n].pred = NoPat
    BY <1>1, <1>2, <1>3
  <2>5. QED
    BY <1>2, <2>1, <2>2, <2>3, <2>4, Ends
<1>4. CASE UNCHANGED issued /\ Goto(r, "rollback")
  <2>1. /\ req' \in [Requests -> Request] /\ req'[r] = [req[r] EXCEPT !.pc = "rollback"]
        /\ \A s \in Requests : s # r => req'[s] = req[s]
    BY <1>4, GotoFacts DEF PatInv
  <2>2. RequestInv(r)'
    BY <1>1, <1>2, <1>4, <2>1 DEF RequestInv, NewInv, TargetInv, RetireInv
  <2>3. QED
    BY <1>2, <1>4, <2>2, Relabelled
<1>5. QED
  BY <1>3, <1>4 DEF MintAudit

LEMMA MintRollbackStep ==
    ASSUME PatInv, NEW r \in Requests, NEW n, n = req[r].new, MintRollback(r)
    PROVE  PatInv'
<1>1. /\ RequestInv(r) /\ req[r] \in Request /\ req[r].pc = "rollback" /\ n \in Pats
      /\ n \notin issued /\ req[r].user \in Users /\ row[n].pred = NoPat
      /\ row[n].owner = req[r].user
  BY DEF MintRollback, PatInv, TypeOK, RequestInv, NewInv
<1>2. /\ req' \in [Requests -> Request] /\ req'[r] = Idle
      /\ \A s \in Requests : s # r => req'[s] = req[s]
  BY FinishFacts DEF MintRollback, PatInv
<1>3. UNCHANGED <<timer, clock, refused, issued, acked, lost>>
  BY DEF MintRollback
<1>4. CASE row' = RowsRevoked(n, req[r].user) /\ UNCHANGED orphans
  <2>1. /\ row' \in [Pats -> Row] /\ Revoked(n)'
        /\ \A q \in Pats : /\ row'[q].owner = row[q].owner
                           /\ row'[q].pred = row[q].pred
                           /\ row'[q].expiresAt = row[q].expiresAt
                           /\ Revoked(q) => Revoked(q)'
        /\ \A q \in Pats : q # n => row'[q] = row[q]
    BY <1>1, <1>4, RevokeFacts DEF PatInv
  <2>2. RowInv'
    BY <1>1, <1>3, <1>4, RevokedRows DEF PatInv, RowInv
  <2>3. TypeOK'
    BY <1>2, <1>3, <1>4, <2>1 DEF PatInv, TypeOK
  <2>4. Moves(r)
    BY <1>1, <1>2, <1>3, <2>1, <2>3 DEF Moves
  <2>5. QED
    BY <1>1, <1>2, <1>3, <1>4, <2>1, <2>2, <2>4, Ends
<1>5. CASE orphans' = orphans \cup {n} /\ UNCHANGED row
  <2>1. Moves(r)
    BY <1>1, <1>2, <1>3, <1>5 DEF PatInv, TypeOK, Moves
  <2>2. RowInv'
    BY <1>3, <1>5 DEF PatInv, RowInv
  <2>3. n \in orphans' /\ orphans \subseteq orphans' /\ n \notin issued'
    BY <1>1, <1>3, <1>5
  <2>4. QED
    BY <1>2, <2>1, <2>2, <2>3, Ends
<1>6. QED
  BY <1>4, <1>5 DEF MintRollback

LEMMA RevokePatStep ==
    ASSUME PatInv, NEW r \in Requests, NEW p, p = req[r].pat, RevokePat(r)
    PROVE  PatInv'
<1>1. /\ RequestInv(r) /\ req[r] \in Request /\ req[r].pc = "revoke" /\ p \in Pats
      /\ req[r].new = NoPat /\ req[r].user \in Users /\ row[p].owner = req[r].user
      /\ NoPat \notin issued /\ req[r].barred = NoPat /\ Stored(p)
  BY DEF RevokePat, PatInv, TypeOK, RequestInv, NewInv, TargetInv
<1>2. UNCHANGED <<timer, clock, refused, issued, acked, orphans, lost>>
  BY DEF RevokePat
<1>3. ASSUME row' = RowsRevoked(p, req[r].user),
             req' \in [Requests -> Request],
             \A s \in Requests : s # r => req'[s] = req[s]
      PROVE  Revoked(p)' /\ row'[p].owner = row[p].owner /\ Moves(r) /\ RowInv'
  <2>1. /\ row' \in [Pats -> Row] /\ Revoked(p)'
        /\ \A q \in Pats : /\ row'[q].owner = row[q].owner
                           /\ row'[q].pred = row[q].pred
                           /\ row'[q].expiresAt = row[q].expiresAt
                           /\ Revoked(q) => Revoked(q)'
        /\ \A q \in Pats : q # p => row'[q] = row[q]
    BY <1>1, <1>3, RevokeFacts DEF PatInv
  <2>2. RowInv'
    BY <1>1, <1>2, <1>3, RevokedRows DEF PatInv, RowInv
  <2>3. TypeOK'
    BY <1>2, <1>3, <2>1 DEF PatInv, TypeOK
  <2>4. Moves(r)
    BY <1>1, <1>2, <1>3, <2>1, <2>3 DEF Moves
  <2>5. QED
    BY <1>1, <2>1, <2>2, <2>4
<1>4. CASE row' = RowsRevoked(p, req[r].user) /\ Goto(r, "revokeAudit")
  <2>1. /\ req' \in [Requests -> Request] /\ req'[r] = [req[r] EXCEPT !.pc = "revokeAudit"]
        /\ \A s \in Requests : s # r => req'[s] = req[s]
    BY <1>4, GotoFacts DEF PatInv
  <2>2. Revoked(p)' /\ row'[p].owner = row[p].owner /\ Moves(r) /\ RowInv'
    BY <1>3, <1>4, <2>1
  <2>3. RequestInv(r)' /\ req'[r].new = req[r].new
    BY <1>1, <1>2, <2>1, <2>2 DEF RequestInv, NewInv, TargetInv, RetireInv
  <2>4. QED
    BY <1>2, <2>2, <2>3, GoesOn
<1>5. CASE row' = RowsRevoked(p, req[r].user) /\ Finish(r)
  <2>1. /\ req' \in [Requests -> Request] /\ req'[r] = Idle
        /\ \A s \in Requests : s # r => req'[s] = req[s]
    BY <1>5, FinishFacts DEF PatInv
  <2>2. Moves(r) /\ RowInv'
    BY <1>3, <1>5, <2>1
  <2>3. QED
    BY <1>1, <1>2, <2>1, <2>2, Ends
<1>6. CASE UNCHANGED row /\ Finish(r)
  BY <1>1, <1>2, <1>6, Answered
<1>7. QED
  BY <1>4, <1>5, <1>6 DEF RevokePat

LEMMA RotatePatStep ==
    ASSUME PatInv, NEW r \in Requests, NEW n, n = req[r].new,
           NEW p, p = req[r].pat, RotatePat(r)
    PROVE  PatInv'
<1>1. /\ RequestInv(r) /\ req[r] \in Request /\ req[r].pc = "rotate" /\ n \in Pats /\ p \in Pats
      /\ ~Stored(n) /\ n \notin issued /\ req[r].user \in Users /\ req[r].barred = NoPat
      /\ row[p].owner = req[r].user /\ p # n /\ Stored(p)
  BY DEF RotatePat, PatInv, TypeOK, RequestInv, NewInv, TargetInv
<1>2. UNCHANGED <<timer, clock, refused, issued, acked, lost>>
  BY DEF RotatePat
<1>3. ASSUME row' = [row EXCEPT ![n] = NewRow(r, p)]
      PROVE  /\ row' \in [Pats -> Row] /\ \A q \in Pats : q # n => row'[q] = row[q]
             /\ row'[n].owner = req[r].user /\ row'[n].pred = p /\ RowInv'
  <2>1. /\ row' \in [Pats -> Row] /\ \A q \in Pats : q # n => row'[q] = row[q]
        /\ row'[n] = NewRow(r, p)
    BY <1>1, <1>3, InsertFacts DEF PatInv
  <2>2. /\ row'[n].owner = req[r].user /\ row'[n].pred = p
        /\ row'[n].revokedAt = Never
    BY <2>1 DEF NewRow
  <2>3. QED
    BY <1>1, <1>2, <2>1, <2>2, InsertedRows
<1>4. CASE row' = [row EXCEPT ![n] = NewRow(r, p)] /\ Goto(r, "retire") /\ UNCHANGED orphans
  <2>1. /\ req' \in [Requests -> Request] /\ req'[r] = [req[r] EXCEPT !.pc = "retire"]
        /\ \A s \in Requests : s # r => req'[s] = req[s]
    BY <1>4, GotoFacts DEF PatInv
  <2>2. Moves(r)
    BY <1>1, <1>2, <1>3, <1>4, <2>1 DEF PatInv, TypeOK, Moves
  <2>3. RequestInv(r)' /\ req'[r].new = req[r].new
    BY <1>1, <1>2, <1>3, <1>4, <2>1 DEF RequestInv, NewInv, TargetInv, RetireInv
  <2>4. QED
    BY <1>2, <1>3, <1>4, <2>2, <2>3, GoesOn
<1>5. CASE Finish(r) /\ UNCHANGED <<row, orphans>>
  <2>1. /\ req' \in [Requests -> Request] /\ req'[r] = Idle
        /\ \A s \in Requests : s # r => req'[s] = req[s]
    BY <1>5, FinishFacts DEF PatInv
  <2>2. Moves(r)
    BY <1>2, <1>5, <2>1 DEF PatInv, TypeOK, Moves
  <2>3. RowInv'
    BY <1>2, <1>5 DEF PatInv, RowInv
  <2>4. n \notin issued' /\ ~Live(n)'
    BY <1>1, <1>2, <1>5
  <2>5. QED
    BY <1>5, <2>1, <2>2, <2>3, <2>4, Ends
<1>6. CASE /\ row' = [row EXCEPT ![n] = NewRow(r, p)]
           /\ orphans' = orphans \cup {n} /\ Finish(r)
  <2>1. /\ req' \in [Requests -> Request] /\ req'[r] = Idle
        /\ \A s \in Requests : s # r => req'[s] = req[s]
    BY <1>6, FinishFacts DEF PatInv
  <2>2. Moves(r)
    BY <1>1, <1>2, <1>3, <1>6, <2>1 DEF PatInv, TypeOK, Moves
  <2>3. n \in orphans' /\ n \notin issued' /\ orphans \subseteq orphans'
    BY <1>1, <1>2, <1>6
  <2>4. QED
    BY <1>3, <1>6, <2>1, <2>2, <2>3, Ends
<1>7. QED
  BY <1>4, <1>5, <1>6 DEF RotatePat

\* With no grace period the predecessor is revoked, with one its timer armed.
LEMMA RetireStep ==
    ASSUME PatInv, NEW r \in Requests, NEW n, n = req[r].new,
           NEW p, p = req[r].pat, Retire(r)
    PROVE  PatInv'
<1>1. /\ RequestInv(r) /\ req[r] \in Request /\ req[r].pc = "retire" /\ n \in Pats /\ p \in Pats
      /\ n \notin issued /\ req[r].user \in Users /\ req[r].barred = NoPat
      /\ row[p].owner = req[r].user /\ Stored(n) /\ row[n].pred = p /\ Stored(p)
  BY DEF Retire, PatInv, TypeOK, RequestInv, NewInv, TargetInv
<1>2. UNCHANGED <<clock, refused, issued, acked, lost>>
  BY DEF Retire
<1>3. ASSUME row' = RowsRevoked(p, req[r].user), UNCHANGED timer,
             orphans' = orphans \/ orphans' = orphans \cup {n},
             req' \in [Requests -> Request],
             \A s \in Requests : s # r => req'[s] = req[s]
      PROVE  /\ Revoked(p)' /\ row'[n].pred = p /\ Moves(r) /\ RowInv'
             /\ row'[p].owner = row[p].owner /\ row'[n].owner = row[n].owner
  <2>1. /\ row' \in [Pats -> Row] /\ Revoked(p)'
        /\ \A q \in Pats : /\ row'[q].owner = row[q].owner
                           /\ row'[q].pred = row[q].pred
                           /\ row'[q].expiresAt = row[q].expiresAt
                           /\ Revoked(q) => Revoked(q)'
        /\ \A q \in Pats : q # p => row'[q] = row[q]
    BY <1>1, <1>3, RevokeFacts DEF PatInv
  <2>2. RowInv'
    BY <1>1, <1>2, <1>3, RevokedRows DEF PatInv, RowInv
  <2>3. TypeOK'
    BY <1>1, <1>2, <1>3, <2>1 DEF PatInv, TypeOK
  <2>4. Moves(r)
    BY <1>1, <1>2, <1>3, <2>1, <2>3 DEF Moves
  <2>5. QED
    BY <1>1, <2>1, <2>2, <2>4
<1>4. CASE /\ row' = RowsRevoked(p, req[r].user) /\ Goto(r, "rotateAudit")
           /\ UNCHANGED <<orphans, timer>>
  <2>1. /\ req' \in [Requests -> Request] /\ req'[r] = [req[r] EXCEPT !.pc = "rotateAudit"]
        /\ \A s \in Requests : s # r => req'[s] = req[s]
    BY <1>4, GotoFacts DEF PatInv
  <2>2. /\ Revoked(p)' /\ row'[n].pred = p /\ Moves(r) /\ RowInv'
        /\ row'[p].owner = row[p].owner /\ row'[n].owner = row[n].owner
    BY <1>3, <1>4, <2>1
  <2>3. RequestInv(r)' /\ req'[r].new = req[r].new
    BY <1>1, <1>2, <2>1, <2>2 DEF RequestInv, NewInv, TargetInv, RetireInv
  <2>4. QED
    BY <1>2, <1>4, <2>2, <2>3, GoesOn
<1>5. CASE orphans' = orphans \cup {n} /\ Finish(r) /\ UNCHANGED <<row, timer>>
  <2>1. /\ req' \in [Requests -> Request] /\ req'[r] = Idle
        /\ \A s \in Requests : s # r => req'[s] = req[s]
    BY <1>5, FinishFacts DEF PatInv
  <2>2. Moves(r)
    BY <1>1, <1>2, <1>5, <2>1 DEF PatInv, TypeOK, Moves
  <2>3. RowInv' /\ n \notin issued' /\ n \in orphans' /\ orphans \subseteq orphans'
    BY <1>1, <1>2, <1>5 DEF PatInv, RowInv
  <2>4. QED
    BY <2>1, <2>2, <2>3, Ends
<1>6. CASE /\ row' = RowsRevoked(p, req[r].user) /\ orphans' = orphans \cup {n}
           /\ Finish(r) /\ UNCHANGED timer
  <2>1. /\ req' \in [Requests -> Request] /\ req'[r] = Idle
        /\ \A s \in Requests : s # r => req'[s] = req[s]
    BY <1>6, FinishFacts DEF PatInv
  <2>2. Moves(r) /\ RowInv'
    BY <1>3, <1>6, <2>1
  <2>3. n \notin issued' /\ n \in orphans' /\ orphans \subseteq orphans'
    BY <1>1, <1>2, <1>6
  <2>4. QED
    BY <2>1, <2>2, <2>3, Ends
<1>7. CASE /\ timer' = [timer EXCEPT ![n] = TimerDelay] /\ Goto(r, "rotateAudit")
           /\ UNCHANGED <<row, orphans>>
  <2>1. /\ req' \in [Requests -> Request] /\ req'[r] = [req[r] EXCEPT !.pc = "rotateAudit"]
        /\ \A s \in Requests : s # r => req'[s] = req[s]
    BY <1>7, GotoFacts DEF PatInv
  <2>2. TimerDelay \in Nat
    BY DEF TimerDelay
  <2>3. /\ timer' \in [Pats -> Nat \cup {NoTimer}] /\ timer'[n] # NoTimer
        /\ \A q \in Pats : q # n => timer'[q] = timer[q]
    BY <1>1, <1>7, <2>2 DEF PatInv, TypeOK
  <2>4. Moves(r)
    BY <1>1, <1>2, <1>7, <2>1, <2>3 DEF PatInv, TypeOK, Moves
  <2>5. RowInv'
    BY <1>1, <1>2, <1>7, <2>3 DEF PatInv, RowInv
  <2>6. RequestInv(r)' /\ req'[r].new = req[r].new
    BY <1>1, <1>2, <1>7, <2>1, <2>3 DEF RequestInv, NewInv, TargetInv, RetireInv
  <2>7. QED
    BY <1>2, <1>7, <2>4, <2>5, <2>6, GoesOn
<1>8. QED
  BY <1>4, <1>5, <1>6, <1>7 DEF Retire

LEMMA RotateAuditStep ==
    ASSUME PatInv, NEW r \in Requests, NEW n, n = req[r].new,
           NEW p, p = req[r].pat, RotateAudit(r)
    PROVE  PatInv'
<1>1. /\ RequestInv(r) /\ req[r] \in Request /\ req[r].pc = "rotateAudit" /\ n \in Pats /\ p \in Pats
      /\ Stored(n) /\ row[n].pred = p /\ row \in [Pats -> Row]
      /\ Revoked(p) \/ timer[n] # NoTimer \/ p \in lost
  BY DEF RotateAudit, PatInv, TypeOK, RequestInv, NewInv, TargetInv, RetireInv
<1>2. /\ req' \in [Requests -> Request] /\ req'[r] = Idle
      /\ \A s \in Requests : s # r => req'[s] = req[s]
  BY FinishFacts DEF RotateAudit, PatInv
<1>3. /\ issued \subseteq issued' /\ issued' \subseteq issued \cup {n}
      /\ refused' \subseteq refused \cup {n}
      /\ UNCHANGED <<row, timer, clock, acked, orphans, lost>>
  BY DEF RotateAudit
<1>4. Moves(r)
  BY <1>1, <1>2, <1>3 DEF PatInv, TypeOK, Moves
<1>5. RowInv'
  BY <1>1, <1>3 DEF PatInv, RowInv
<1>6. row'[n].pred # NoPat /\ (Revoked(row[n].pred)' \/ timer'[n] # NoTimer \/ row'[n].pred \in lost')
  BY <1>1, <1>3
<1>7. QED
  BY <1>2, <1>3, <1>4, <1>5, <1>6, Ends

-----------------------------------------------------------------------------
(* Timers, time and restarts.                                              *)

\* The callback revokes the predecessor, or loses it for good.
LEMMA FireTimerStep ==
    ASSUME PatInv, NEW n \in Pats, NEW p, p = row[n].pred, FireTimer(n)
    PROVE  PatInv'
<1>1. /\ p \in Pats /\ Stored(p) /\ row[p].owner = row[n].owner /\ row[n].owner # NoUser
      /\ UNCHANGED <<req, clock, refused, issued, acked, orphans>>
  BY DEF FireTimer, PatInv, TypeOK, RowInv
<1>2. /\ timer' \in [Pats -> Nat \cup {NoTimer}] /\ timer'[n] = NoTimer
      /\ \A q \in Pats : q # n => timer'[q] = timer[q]
      /\ \A q \in Pats : timer'[q] # NoTimer => row[q].pred # NoPat
  BY DEF FireTimer, PatInv, TypeOK, RowInv
<1>3. /\ row' \in [Pats -> Row] /\ lost \subseteq lost' /\ lost' \subseteq Pats
      /\ \A q \in Pats : /\ row'[q].owner = row[q].owner
                         /\ row'[q].pred = row[q].pred
                         /\ row'[q].expiresAt = row[q].expiresAt
                         /\ Revoked(q) => Revoked(q)'
      /\ Revoked(p)' \/ p \in lost'
      /\ RowInv'
  <2>1. CASE row' = RowsRevoked(p, row[n].owner) /\ UNCHANGED lost
    <3>1. /\ row' \in [Pats -> Row] /\ Revoked(p)'
          /\ \A q \in Pats : /\ row'[q].owner = row[q].owner
                             /\ row'[q].pred = row[q].pred
                             /\ row'[q].expiresAt = row[q].expiresAt
                             /\ Revoked(q) => Revoked(q)'
      BY <1>1, <2>1, RevokeFacts DEF PatInv
    <3>2. RowInv'
      BY <1>1, <1>2, <2>1, RevokedRows
    <3>3. QED
      BY <2>1, <3>1, <3>2 DEF PatInv, TypeOK
  <2>2. CASE lost' = lost \cup {p} /\ UNCHANGED row
    BY <1>1, <1>2, <2>2 DEF PatInv, TypeOK, RowInv
  <2>3. QED
    BY <2>1, <2>2 DEF FireTimer
<1>4. TypeOK'
  BY <1>1, <1>2, <1>3 DEF PatInv, TypeOK
<1>5. NewUnique'
  BY <1>1 DEF PatInv, NewUnique
<1>6. ASSUME NEW s \in Requests PROVE RequestInv(s)'
  <2>1. RequestInv(s) /\ req'[s] = req[s] /\ req[s] \in Request /\ issued \subseteq Pats
    BY <1>1 DEF PatInv, TypeOK
  <2>2. NewInv(s)'
    BY <1>1, <1>3, <2>1 DEF RequestInv, NewInv
  <2>3. TargetInv(s)'
    BY <1>1, <1>3, <2>1 DEF RequestInv, TargetInv
  <2>4. RetireInv(s)'
    BY <1>1, <1>2, <1>3, <2>1 DEF RequestInv, RetireInv, TargetInv, NewInv
  <2>5. QED
    BY <1>1, <1>3, <2>1, <2>2, <2>3, <2>4 DEF RequestInv, TargetInv
<1>7. NoSilentOrphan'
  BY <1>1, <1>3 DEF PatInv, NoSilentOrphan
<1>8. RotationSupersedes'
  <2> SUFFICES ASSUME NEW m \in issued, row[m].pred # NoPat, m \in Pats, row[m].pred \in Pats
               PROVE  \/ Revoked(row[m].pred)' \/ timer'[m] # NoTimer
                      \/ row[m].pred \in lost'
    BY <1>1, <1>3 DEF RotationSupersedes, PatInv, TypeOK
  <2>1. Revoked(row[m].pred) \/ timer[m] # NoTimer \/ row[m].pred \in lost
    BY DEF PatInv, RotationSupersedes
  <2>2. QED
    BY <1>1, <1>2, <1>3, <2>1
<1>9. QED
  BY <1>3, <1>4, <1>5, <1>6, <1>7, <1>8 DEF PatInv

LEMMA TickStep == PatInv /\ Tick => PatInv'
<1> SUFFICES ASSUME PatInv, Tick PROVE PatInv'
  OBVIOUS
<1>1. /\ timer' \in [Pats -> Nat \cup {NoTimer}]
      /\ \A n \in Pats : timer'[n] # NoTimer <=> timer[n] # NoTimer
      /\ clock' \in Nat /\ clock <= clock'
      /\ UNCHANGED <<row, req, refused, issued, acked, orphans, lost>>
  BY DEF Tick, PatInv, TypeOK
<1>2. TypeOK' /\ RowInv' /\ NewUnique'
  BY <1>1 DEF PatInv, TypeOK, RowInv, NewUnique
<1>3. ASSUME NEW s \in Requests PROVE RequestInv(s)'
  <2>1. RequestInv(s) /\ req[s] \in Request /\ clock \in Nat
    BY DEF PatInv, TypeOK
  <2>2. NewInv(s)' /\ TargetInv(s)'
    BY <1>1, <2>1 DEF RequestInv, NewInv, TargetInv
  <2>3. RetireInv(s)'
    BY <1>1, <2>1 DEF RequestInv, NewInv, RetireInv
  <2>4. QED
    BY <1>1, <2>1, <2>2, <2>3 DEF RequestInv
<1>4. NoSilentOrphan' /\ RotationSupersedes'
  BY <1>1 DEF PatInv, TypeOK, NoSilentOrphan, RotationSupersedes
<1>5. QED
  BY <1>2, <1>3, <1>4 DEF PatInv

\* What was in flight becomes an orphan or a lost revocation.
LEMMA RestartStep == PatInv /\ Restart => PatInv'
<1> SUFFICES ASSUME PatInv, Restart PROVE PatInv'
  OBVIOUS
<1>1. /\ req' \in [Requests -> Request] /\ \A s \in Requests : req'[s] = Idle
      /\ timer' \in [Pats -> Nat \cup {NoTimer}] /\ \A n \in Pats : timer'[n] = NoTimer
      /\ lost \subseteq lost' /\ lost' \subseteq Pats
      /\ \A n \in Pats : timer[n] # NoTimer /\ row[n].pred \in Pats => row[n].pred \in lost'
      /\ orphans \subseteq orphans' /\ orphans' \subseteq Pats
      /\ \A n \in Pats : Stored(n) /\ (\E s \in Requests : req[s].new = n) => n \in orphans'
      /\ UNCHANGED <<row, clock, refused, issued, acked>>
  BY DEF Restart, PatInv, TypeOK, Idle
<1>2. TypeOK' /\ RowInv' /\ NewUnique'
  BY <1>1 DEF PatInv, TypeOK, RowInv, NewUnique, Idle
<1>3. ASSUME NEW s \in Requests PROVE RequestInv(s)'
  BY <1>1 DEF RequestInv, NewInv, TargetInv, RetireInv, Idle
<1>4. NoSilentOrphan'
  BY <1>1 DEF PatInv, NoSilentOrphan
<1>5. RotationSupersedes'
  BY <1>1 DEF PatInv, TypeOK, RotationSupersedes
<1>6. QED
  BY <1>2, <1>3, <1>4, <1>5 DEF PatInv

-----------------------------------------------------------------------------
(* The theorems.                                                           *)

LEMMA ArriveStep ==
    ASSUME PatInv, NEW r \in Requests, Arrive(r)
    PROVE  PatInv'
  BY HandleCreateStep, HandleRevokeStep, HandleRotateStep, PresentPatStep DEF Arrive

LEMMA RequestStepStep ==
    ASSUME PatInv, NEW r \in Requests, RequestStep(r)
    PROVE  PatInv'
<1>1. CASE CreatePat(r) \/ MintAudit(r) \/ MintRollback(r)
  BY <1>1, CreatePatStep, MintAuditStep, MintRollbackStep
<1>2. CASE CheckRevoke(r) \/ RevokePat(r) \/ RevokeAudit(r)
  BY <1>2, CheckRevokeStep, RevokePatStep, RevokeAuditStep
<1>3. CASE CheckRotate(r) \/ (\E n \in Pats : RotateFind(r, n))
  BY <1>3, CheckRotateStep, RotateFindStep
<1>4. CASE RotatePat(r) \/ Retire(r) \/ RotateAudit(r)
  BY <1>4, RotatePatStep, RetireStep, RotateAuditStep
<1>5. CASE FindPatByHash(r) \/ ConfirmRow(r) \/ ResolveScopes(r)
  BY <1>5, FindPatByHashStep, ConfirmRowStep, ResolveScopesStep
<1>6. QED
  BY <1>1, <1>2, <1>3, <1>4, <1>5 DEF RequestStep

LEMMA NextStep == PatInv /\ [Next]_vars => PatInv'
<1> SUFFICES ASSUME PatInv, [Next]_vars PROVE PatInv'
  OBVIOUS
<1>1. ASSUME NEW r \in Requests, Arrive(r) PROVE PatInv'
  BY <1>1, ArriveStep
<1>2. ASSUME NEW r \in Requests, RequestStep(r) PROVE PatInv'
  BY <1>2, RequestStepStep
<1>3. ASSUME NEW n \in Pats, FireTimer(n) PROVE PatInv'
  BY <1>3, FireTimerStep
<1>4. CASE Tick \/ Restart
  BY <1>4, TickStep, RestartStep
<1>5. CASE UNCHANGED vars
  BY <1>5 DEF vars, PatInv, TypeOK, RowInv, NewUnique, RequestInv, NewInv, TargetInv,
              RetireInv, NoSilentOrphan, RotationSupersedes
<1>6. QED
  BY <1>1, <1>2, <1>3, <1>4, <1>5 DEF Next

\* PatInv holds in every reachable state, for every value of the constants.
THEOREM PatInvariant == Spec => []PatInv
  BY InitPatInv, NextStep, PTL DEF Spec

\* Every variable keeps its type, the timers' delays included (setTimeout).
THEOREM TypeCorrect == Spec => []TypeOK
<1>1. PatInv => TypeOK
  BY DEF PatInv
<1>2. QED
  BY <1>1, PatInvariant, PTL

\* Once the owner of a PAT was told that it is gone, by a 204 or by the 404 of a
\* retry, it is so for every request that comes after, whatever races, failures
\* and restarts come between (revokePat, handleRevoke).
THEOREM RevocationIsFinal == Spec => []RevocationFinal
<1>1. PatInv => RevocationFinal
  BY DEF PatInv, RequestInv, RevocationFinal
<1>2. QED
  BY <1>1, PatInvariant, PTL

\* No PAT authenticates a request that had expired when the store's answer came,
\* although the clock runs on after the store's own test (findPatByHash).
THEOREM GrantsBeforeExpiry == Spec => []GrantBeforeExpiry
<1>1. PatInv => GrantBeforeExpiry
  BY DEF PatInv, RequestInv, GrantBeforeExpiry
<1>2. QED
  BY <1>1, PatInvariant, PTL

\* A rejected or failing audit hook leaves no live PAT that nobody holds
\* (createPat's rollback).
THEOREM NoSilentOrphans == Spec => []NoSilentOrphan
<1>1. PatInv => NoSilentOrphan
  BY DEF PatInv
<1>2. QED
  BY <1>1, PatInvariant, PTL

\* A rotation whose successor went out has its predecessor revoked, or due to
\* be by a timer of this process, or recorded as lost (rotatePat).
THEOREM RotationsSupersede == Spec => []RotationSupersedes
<1>1. PatInv => RotationSupersedes
  BY DEF PatInv
<1>2. QED
  BY <1>1, PatInvariant, PTL
-----------------------------------------------------------------------------
(* The grace period.  A successor's expiry tells when its rotation began,  *)
(* and a timer never has less left than the grace period has from then.    *)

\* When the timer of n is due, Grace has passed, or the clock has stopped.
Mature(n) ==
    clock = MaxTime \/ clock + timer[n] >= row[n].expiresAt - DefaultExpiry + Grace

\* A rotation computes the successor's expiry from a clock that was read before.
Punctual(r) ==
    /\ req[r].pc \in {"find", "rotate"} => req[r].at <= clock + DefaultExpiry
    /\ req[r].pc = "retire" => row[req[r].new].expiresAt <= clock + DefaultExpiry

GraceInv ==
    /\ clock <= MaxTime
    /\ \A r \in Requests : Punctual(r)
    /\ \A n \in Pats : timer[n] # NoTimer => Mature(n)

\* Nobody is revoked too early by this step.
InTime == \A p \in Pats : Live(p) /\ ~Live(p)' => RevokedBy(p)

\* What a step of request r has to respect.
LEMMA GraceKept ==
    ASSUME PatInv, GraceInv, NEW r \in Requests, clock' = clock,
           \A s \in Requests : s # r => req'[s] = req[s],
           \A q \in Pats : Stored(q) => row'[q].expiresAt = row[q].expiresAt,
           Punctual(r)',
           \A n \in Pats : timer'[n] = timer[n] \/ Mature(n)'
    PROVE  GraceInv'
<1>1. ASSUME NEW s \in Requests, s # r  PROVE Punctual(s)'
  <2>1. req'[s] = req[s] /\ req[s] \in Request /\ NewInv(s) /\ Punctual(s)
    BY <1>1 DEF PatInv, TypeOK, RequestInv, GraceInv
  <2>2. req[s].pc = "retire" => req[s].new \in Pats /\ Stored(req[s].new)
    BY <2>1 DEF NewInv
  <2> QED  BY <2>1, <2>2 DEF Punctual
<1>2. ASSUME NEW n \in Pats, timer'[n] # NoTimer  PROVE Mature(n)'
  <2>1. timer'[n] = timer[n] => Stored(n) /\ Mature(n)
    BY <1>2 DEF PatInv, RowInv, GraceInv
  <2> QED  BY <1>2, <2>1 DEF Mature
<1> QED  BY <1>1, <1>2 DEF GraceInv

\* A step that touches neither rows nor timers.
LEMMA PlainGrace ==
    ASSUME PatInv, GraceInv, NEW r \in Requests, UNCHANGED <<clock, row, timer>>,
           \A s \in Requests : s # r => req'[s] = req[s],
           Punctual(r)'
    PROVE  GraceInv' /\ InTime
<1>1. InTime
  BY DEF InTime
<1> QED  BY <1>1, GraceKept

LEMMA ArriveGrace ==
    ASSUME PatInv, GraceInv, NEW r \in Requests, Arrive(r)
    PROVE  GraceInv' /\ InTime
<1>1. UNCHANGED <<clock, row, timer>>
  BY DEF Arrive, HandleCreate, HandleRevoke, HandleRotate, PresentPat
<1>2. \A s \in Requests : s # r => req'[s] = req[s]
  BY DEF Arrive, HandleCreate, HandleRevoke, HandleRotate, PresentPat, PatInv, TypeOK
<1>3. req'[r].pc \in {"create", "checkRevoke", "checkRotate", "lookup"}
  <2>1. req \in [Requests -> Request]
    BY DEF PatInv, TypeOK
  <2>2. ASSUME NEW u, NEW p, HandleRevoke(r, u, p)  PROVE req'[r].pc = "checkRevoke"
    BY <2>1, <2>2 DEF HandleRevoke, Idle
  <2>3. ASSUME NEW u, NEW p, HandleRotate(r, u, p)  PROVE req'[r].pc = "checkRotate"
    BY <2>1, <2>3 DEF HandleRotate, Idle
  <2>4. ASSUME NEW p, PresentPat(r, p)  PROVE req'[r].pc = "lookup"
    BY <2>1, <2>4 DEF PresentPat, Idle
  <2>5. ASSUME NEW u, NEW d, NEW n, HandleCreate(r, u, d, n)  PROVE req'[r].pc = "create"
    BY <2>1, <2>5 DEF HandleCreate, Idle
  <2> QED  BY <2>2, <2>3, <2>4, <2>5 DEF Arrive
<1>4. Punctual(r)'
  BY <1>3 DEF Punctual
<1> QED  BY <1>1, <1>2, <1>4, PlainGrace

\* The request's clock is read when the rotation starts, and only then.
LEMMA ReadGrace ==
    ASSUME PatInv, GraceInv, NEW r \in Requests,
           \/ MintAudit(r) \/ CheckRevoke(r) \/ RevokeAudit(r) \/ CheckRotate(r)
           \/ RotateAudit(r) \/ FindPatByHash(r) \/ ConfirmRow(r) \/ ResolveScopes(r)
           \/ \E n \in Pats : RotateFind(r, n)
    PROVE  GraceInv' /\ InTime
<1>0. req \in [Requests -> Request] /\ clock \in Nat
  BY DEF PatInv, TypeOK
<1>1. UNCHANGED <<clock, row, timer>>
  BY DEF MintAudit, CheckRevoke, RevokeAudit, CheckRotate, RotateAudit, FindPatByHash,
         ConfirmRow, ResolveScopes, RotateFind
<1>2. ASSUME NEW l \in Pc \ {"find", "rotate", "retire"}, Goto(r, l) \/ Finish(r)
      PROVE  GraceInv' /\ InTime
  <2>1. \A s \in Requests : s # r => req'[s] = req[s]
    BY <1>0, <1>2 DEF Goto, Finish
  <2>2. req'[r].pc \notin {"find", "rotate", "retire"}
    BY <1>0, <1>2 DEF Goto, Finish, Idle
  <2>3. Punctual(r)'
    BY <2>2 DEF Punctual
  <2> QED  BY <1>1, <2>1, <2>3, PlainGrace
<1>3. ASSUME req' = [req EXCEPT ![r].pc = "find", ![r].at = clock + DefaultExpiry]
      PROVE  GraceInv' /\ InTime
  <2>1. \A s \in Requests : s # r => req'[s] = req[s]
    BY <1>0, <1>3
  <2>2. req'[r].pc = "find" /\ req'[r].at = clock + DefaultExpiry
    BY <1>0, <1>3
  <2>3. Punctual(r)'
    BY <1>0, <1>1, <2>2 DEF Punctual
  <2> QED  BY <1>1, <2>1, <2>3, PlainGrace
<1>4. ASSUME NEW n \in Pats, req[r].pc = "find", req' = [req EXCEPT ![r].pc = "rotate", ![r].new = n]
      PROVE  GraceInv' /\ InTime
  <2>1. \A s \in Requests : s # r => req'[s] = req[s]
    BY <1>0, <1>4
  <2>2. req'[r].pc = "rotate" /\ req'[r].at = req[r].at
    BY <1>0, <1>4
  <2>3. Punctual(r)'
    BY <1>1, <1>4, <2>2 DEF Punctual, GraceInv
  <2> QED  BY <1>1, <2>1, <2>3, PlainGrace
<1>5. MintAudit(r) => Goto(r, "rollback") \/ Finish(r)
  BY DEF MintAudit
<1>6. CheckRevoke(r) => Goto(r, "revoke") \/ Finish(r)
  BY DEF CheckRevoke
<1>7. RevokeAudit(r) \/ RotateAudit(r) \/ ResolveScopes(r) => Finish(r)
  BY DEF RevokeAudit, RotateAudit, ResolveScopes
<1>8. FindPatByHash(r) => Goto(r, "found") \/ Finish(r)
  BY DEF FindPatByHash
<1>11. ASSUME req' = [req EXCEPT ![r].pc = "scopes", ![r].at = clock]
       PROVE  GraceInv' /\ InTime
  <2>1. (\A s \in Requests : s # r => req'[s] = req[s]) /\ req'[r].pc = "scopes"
    BY <1>0, <1>11
  <2>2. Punctual(r)'
    BY <2>1 DEF Punctual
  <2> QED  BY <1>1, <2>1, <2>2, PlainGrace
<1>12. ConfirmRow(r) => \/ req' = [req EXCEPT ![r].pc = "scopes", ![r].at = clock]
                        \/ Finish(r)
  BY DEF ConfirmRow
<1>9. CheckRotate(r) => \/ req' = [req EXCEPT ![r].pc = "find", ![r].at = clock + DefaultExpiry]
                        \/ Finish(r)
  BY DEF CheckRotate
<1>10. ASSUME NEW n \in Pats, RotateFind(r, n)
       PROVE  \/ req[r].pc = "find" /\ req' = [req EXCEPT ![r].pc = "rotate", ![r].new = n]
              \/ Finish(r)
  BY <1>10 DEF RotateFind
<1> QED  BY <1>2, <1>3, <1>4, <1>5, <1>6, <1>7, <1>8, <1>9, <1>10, <1>11, <1>12

\* A new row is nobody's loss; a rotation's says when it began.
LEMMA InsertGrace ==
    ASSUME PatInv, GraceInv, NEW r \in Requests, CreatePat(r) \/ RotatePat(r)
    PROVE  GraceInv' /\ InTime
<1>1. /\ req \in [Requests -> Request] /\ clock \in Nat /\ row \in [Pats -> Row] /\ TypeOK
      /\ req[r].pc \in {"create", "rotate"} /\ UNCHANGED <<clock, timer>>
  BY DEF PatInv, TypeOK, CreatePat, RotatePat
<1>2. /\ req[r].new \in Pats /\ req[r].user \in Users /\ ~Stored(req[r].new)
      /\ req[r].pat \in Pats \cup {NoPat}
  <2>1. NewInv(r) /\ req[r] \in Request
    BY <1>1 DEF PatInv, RequestInv
  <2> QED  BY <1>1, <2>1 DEF NewInv
<1>3. ASSUME Finish(r), UNCHANGED row  PROVE GraceInv' /\ InTime
  <2>1. Punctual(r)' /\ \A s \in Requests : s # r => req'[s] = req[s]
    BY <1>1, <1>3 DEF Finish, Punctual, Idle
  <2> QED  BY <1>1, <1>3, <2>1, PlainGrace
<1>4. ASSUME NEW p \in Pats \cup {NoPat}, row' = [row EXCEPT ![req[r].new] = NewRow(r, p)],
             \/ Finish(r)
             \/ req[r].pc = "create" /\ Goto(r, "mintAudit")
             \/ req[r].pc = "rotate" /\ Goto(r, "retire")
      PROVE  GraceInv' /\ InTime
  <2>1. /\ \A q \in Pats : q # req[r].new => row'[q] = row[q]
        /\ row'[req[r].new] = NewRow(r, p)
    BY <1>1, <1>2, <1>4, InsertFacts
  <2>2. InTime
    BY <1>2, <2>1 DEF InTime
  <2>3. \A s \in Requests : s # r => req'[s] = req[s]
    BY <1>1, <1>4 DEF Finish, Goto
  <2>4. Punctual(r)'
    <3>1. CASE Finish(r)
      BY <1>1, <3>1 DEF Finish, Punctual, Idle
    <3>2. CASE Goto(r, "mintAudit")
      BY <1>1, <3>2 DEF Goto, Punctual
    <3>3. CASE req[r].pc = "rotate" /\ Goto(r, "retire")
      <4>1. req'[r].pc = "retire" /\ req'[r].new = req[r].new
        BY <1>1, <3>3 DEF Goto
      <4>2. row'[req[r].new].expiresAt = req[r].at /\ req[r].at <= clock + DefaultExpiry
        BY <2>1, <3>3 DEF NewRow, GraceInv, Punctual
      <4> QED  BY <1>1, <4>1, <4>2 DEF Punctual
    <3> QED  BY <1>4, <3>1, <3>2, <3>3
  <2>5. \A q \in Pats : Stored(q) => row'[q].expiresAt = row[q].expiresAt
    BY <1>2, <2>1
  <2> QED  BY <1>1, <2>2, <2>3, <2>4, <2>5, GraceKept
<1> QED  BY <1>2, <1>3, <1>4 DEF CreatePat, RotatePat

\* A revocation that request r, or the timer, may make.
LEMMA RevokeGrace ==
    ASSUME PatInv, NEW p \in Pats, NEW u, row' = RowsRevoked(p, u),
           row[p].owner = u => RevokedBy(p)
    PROVE  /\ InTime
           /\ \A q \in Pats : row'[q].expiresAt = row[q].expiresAt
<1>1. /\ \A q \in Pats : q # p \/ row[q].owner # u => row'[q] = row[q]
      /\ \A q \in Pats : row'[q].expiresAt = row[q].expiresAt
  BY RevokeFacts DEF PatInv
<1> QED  BY <1>1 DEF InTime

LEMMA RevokePatGrace ==
    ASSUME PatInv, GraceInv, NEW r \in Requests, RevokePat(r) \/ MintRollback(r)
    PROVE  GraceInv' /\ InTime
<1>1. /\ req \in [Requests -> Request] /\ req[r].pc \in {"revoke", "rollback"}
      /\ UNCHANGED <<clock, timer>> /\ NewInv(r) /\ TargetInv(r)
  BY DEF PatInv, TypeOK, RequestInv, RevokePat, MintRollback
<1>2. Finish(r) \/ Goto(r, "revokeAudit")
  BY DEF RevokePat, MintRollback
<1>3. Punctual(r)' /\ \A s \in Requests : s # r => req'[s] = req[s]
  BY <1>1, <1>2 DEF Finish, Goto, Punctual, Idle
<1>4. CASE UNCHANGED row
  BY <1>1, <1>3, <1>4, PlainGrace
<1>5. ASSUME NEW p \in Pats, row' = RowsRevoked(p, req[r].user),
             row[p].owner = req[r].user => RevokedBy(p)
      PROVE  GraceInv' /\ InTime
  BY <1>1, <1>3, <1>5, RevokeGrace, GraceKept
<1>6. CASE RevokePat(r)
  <2>1. req[r].pc = "revoke" /\ req[r].pat \in Pats
    BY <1>1, <1>6 DEF RevokePat, TargetInv
  <2>2. row[req[r].pat].owner = req[r].user => RevokedBy(req[r].pat)
    BY <2>1 DEF RevokedBy
  <2> QED  BY <1>4, <1>5, <1>6, <2>1, <2>2 DEF RevokePat
<1>7. CASE MintRollback(r)
  <2>1. req[r].pc = "rollback" /\ req[r].new \in Pats
    BY <1>1, <1>7 DEF MintRollback, NewInv
  <2>2. RevokedBy(req[r].new)
    BY <2>1 DEF RevokedBy
  <2> QED  BY <1>4, <1>5, <1>7, <2>1, <2>2 DEF MintRollback
<1> QED  BY <1>6, <1>7

\* Without grace the predecessor goes at once; with it, its timer has it all.
LEMMA RetireGrace ==
    ASSUME PatInv, GraceInv, Grace <= TimerMax, NEW r \in Requests, Retire(r)
    PROVE  GraceInv' /\ InTime
<1>1. /\ req \in [Requests -> Request] /\ row \in [Pats -> Row] /\ timer \in [Pats -> Nat \cup {NoTimer}]
      /\ clock \in Nat
      /\ req[r].pc = "retire" /\ clock' = clock /\ NewInv(r) /\ TargetInv(r) /\ Punctual(r)
  BY DEF PatInv, TypeOK, RequestInv, Retire, GraceInv
<1>2. /\ req[r].new \in Pats /\ req[r].pat \in Pats /\ Stored(req[r].new)
      /\ row[req[r].new].pred = req[r].pat
      /\ row[req[r].new].expiresAt <= clock + DefaultExpiry /\ row[req[r].new].expiresAt \in Nat
  BY <1>1 DEF NewInv, TargetInv, Punctual
<1>3. Finish(r) \/ Goto(r, "rotateAudit")
  BY DEF Retire
<1>4. Punctual(r)' /\ \A s \in Requests : s # r => req'[s] = req[s]
  BY <1>1, <1>3 DEF Finish, Goto, Punctual, Idle
<1>5. CASE Grace = 0
  <2>1. RevokedBy(req[r].pat)
    <3>1. clock >= row[req[r].new].expiresAt - DefaultExpiry + Grace
      BY <1>1, <1>2, <1>5
    <3> QED  BY <1>2, <3>1 DEF RevokedBy
  <2>2. timer' = timer /\ (UNCHANGED row \/ row' = RowsRevoked(req[r].pat, req[r].user))
    BY <1>5 DEF Retire
  <2>3. CASE UNCHANGED row
    BY <1>1, <1>4, <2>2, <2>3, PlainGrace
  <2>4. CASE row' = RowsRevoked(req[r].pat, req[r].user)
    BY <1>1, <1>2, <1>4, <2>1, <2>2, <2>4, RevokeGrace, GraceKept
  <2> QED  BY <2>2, <2>3, <2>4
<1>6. CASE Grace # 0
  <2>1. row' = row /\ timer' = [timer EXCEPT ![req[r].new] = Grace]
    BY <1>6 DEF Retire, TimerDelay
  <2>2. \A n \in Pats : timer'[n] = timer[n] \/ Mature(n)'
    <3> PICK m \in Pats : m = req[r].new
      BY <1>2
    <3>1. timer'[m] = Grace /\ \A n \in Pats : n # m => timer'[n] = timer[n]
      BY <1>1, <2>1
    <3>2. Mature(m)'
      BY <1>1, <1>2, <2>1, <3>1 DEF Mature
    <3>3. ASSUME NEW n \in Pats, n = m  PROVE Mature(n)'
      BY <3>2, <3>3
    <3> QED  BY <3>1, <3>3
  <2>3. InTime
    BY <2>1 DEF InTime
  <2> QED  BY <1>1, <1>4, <2>1, <2>2, <2>3, GraceKept
<1> QED  BY <1>5, <1>6

LEMMA FireTimerGrace ==
    ASSUME PatInv, GraceInv, NEW n \in Pats, FireTimer(n)
    PROVE  GraceInv' /\ InTime
<1>1. /\ timer[n] = 0 /\ timer' = [timer EXCEPT ![n] = NoTimer] /\ UNCHANGED <<req, clock>>
      /\ row \in [Pats -> Row] /\ timer \in [Pats -> Nat \cup {NoTimer}] /\ clock \in Nat
      /\ UNCHANGED row \/ row' = RowsRevoked(row[n].pred, row[n].owner)
  BY DEF FireTimer, PatInv, TypeOK
<1>2. row[n].pred \in Pats /\ Mature(n)
  BY <1>1 DEF PatInv, RowInv, GraceInv
<1>3. RevokedBy(row[n].pred)
  BY <1>1, <1>2 DEF Mature, RevokedBy
<1>4. InTime /\ \A q \in Pats : row'[q].expiresAt = row[q].expiresAt
  <2>1. CASE UNCHANGED row
    BY <2>1 DEF InTime
  <2>2. CASE row' = RowsRevoked(row[n].pred, row[n].owner)
    BY <1>2, <1>3, <2>2, RevokeGrace
  <2> QED  BY <1>1, <2>1, <2>2
<1>5. \A m \in Pats : timer'[m] # NoTimer => timer'[m] = timer[m]
  BY <1>1
<1>6. ASSUME NEW s \in Requests  PROVE Punctual(s)'
  <2>1. NewInv(s) /\ Punctual(s)
    BY DEF PatInv, RequestInv, GraceInv
  <2>2. req[s].pc = "retire" => req[s].new \in Pats
    BY <2>1 DEF NewInv, PatInv, TypeOK
  <2> QED  BY <1>1, <1>4, <2>1, <2>2 DEF Punctual
<1>7. \A m \in Pats : timer'[m] # NoTimer => Mature(m)'
  BY <1>1, <1>4, <1>5 DEF GraceInv, Mature
<1> QED  BY <1>1, <1>4, <1>6, <1>7 DEF GraceInv

\* A timer runs with the clock; neither a tick nor a restart revokes anybody.
LEMMA TimeGrace ==
    ASSUME PatInv, GraceInv, Tick \/ Restart
    PROVE  GraceInv' /\ InTime
<1>1. /\ row' = row /\ clock' \in Nat /\ clock \in Nat /\ row \in [Pats -> Row]
      /\ timer \in [Pats -> Nat \cup {NoTimer}] /\ clock <= clock' /\ clock' <= MaxTime
  BY DEF Tick, Restart, PatInv, TypeOK, GraceInv
<1>2. InTime
  BY <1>1 DEF InTime
<1>3. CASE Tick
  <2>1. \A n \in Pats : timer'[n] # NoTimer => Mature(n)'
    <3>1. ASSUME NEW n \in Pats, timer'[n] # NoTimer  PROVE Mature(n)'
      <4>1. timer[n] \in Nat /\ Mature(n) /\ row[n].expiresAt \in Nat
        BY <1>1, <1>3, <3>1 DEF Tick, GraceInv
      <4>2. timer'[n] = IF timer[n] > 0 THEN timer[n] - 1 ELSE timer[n]
        BY <1>3 DEF Tick
      <4>3. clock' = IF clock < MaxTime THEN clock + 1 ELSE clock
        BY <1>3 DEF Tick
      <4>4. clock <= MaxTime
        BY DEF GraceInv
      <4> QED  BY <1>1, <4>1, <4>2, <4>3, <4>4 DEF Mature
    <3> QED  BY <3>1
  <2>2. \A s \in Requests : Punctual(s)'
    <3>1. ASSUME NEW s \in Requests  PROVE Punctual(s)'
      <4>1. req'[s] = req[s] /\ req[s].at \in Nat /\ NewInv(s) /\ Punctual(s)
        BY <1>3 DEF Tick, PatInv, TypeOK, RequestInv, GraceInv
      <4>2. req[s].pc = "retire" => row[req[s].new].expiresAt \in Nat
        BY <1>1, <4>1 DEF NewInv, PatInv, TypeOK
      <4> QED  BY <1>1, <4>1, <4>2 DEF Punctual
    <3> QED  BY <3>1
  <2> QED  BY <1>1, <1>2, <2>1, <2>2 DEF GraceInv
<1>4. CASE Restart
  <2>1. \A n \in Pats : timer'[n] = NoTimer
    BY <1>4 DEF Restart
  <2>2. \A s \in Requests : req'[s].pc = "idle"
    BY <1>4 DEF Restart, Idle
  <2> QED  BY <1>1, <1>2, <2>1, <2>2 DEF GraceInv, Punctual
<1> QED  BY <1>3, <1>4

LEMMA GraceNext == Grace <= TimerMax /\ PatInv /\ GraceInv /\ [Next]_vars => GraceInv' /\ InTime
<1> SUFFICES ASSUME Grace <= TimerMax, PatInv, GraceInv, [Next]_vars  PROVE GraceInv' /\ InTime
  OBVIOUS
<1>1. ASSUME NEW r \in Requests, RequestStep(r)  PROVE GraceInv' /\ InTime
  BY <1>1, ReadGrace, InsertGrace, RevokePatGrace, RetireGrace DEF RequestStep
<1>2. ASSUME NEW r \in Requests, Arrive(r)  PROVE GraceInv' /\ InTime
  BY <1>2, ArriveGrace
<1>3. ASSUME NEW n \in Pats, FireTimer(n)  PROVE GraceInv' /\ InTime
  BY <1>3, FireTimerGrace
<1>4. CASE UNCHANGED vars
  BY <1>4 DEF vars, GraceInv, Punctual, Mature, InTime
<1> QED  BY <1>1, <1>2, <1>3, <1>4, TimeGrace DEF Next

LEMMA GraceInit == Init => GraceInv
  BY DEF Init, GraceInv, Punctual, Idle

\* A rotation leaves its predecessor valid for the grace period, unless its owner
\* revokes it or its own mint is rolled back; where setTimeout keeps the delay
\* (rotatePat).  A longer one fires at once, hence the hypothesis.
THEOREM GraceIsHonoured == Grace <= TimerMax => (Spec => GraceHonoured)
<1> SUFFICES ASSUME Grace <= TimerMax  PROVE Spec => GraceHonoured
  OBVIOUS
<1>1. PatInv /\ GraceInv /\ [Next]_vars => GraceInv'
  BY GraceNext
<1>2. PatInv /\ GraceInv /\ [Next]_vars =>
        [\A p \in Pats : Live(p) /\ ~Live(p)' => RevokedBy(p)]_vars
  BY GraceNext DEF InTime
<1> QED  BY GraceInit, PatInvariant, <1>1, <1>2, PTL DEF Spec, GraceHonoured
=============================================================================
