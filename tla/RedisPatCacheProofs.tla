------------------------- MODULE RedisPatCacheProofs -------------------------
(***************************************************************************)
(* Proofs about RedisPatCache, for any number of PATs, processes and       *)
(* requests, any TTLs and any failures: outside the named races an         *)
(* answered revocation is final and the cache agrees with the store, and   *)
(* no request is granted after the expiry of its PAT.                      *)
(*                                                                         *)
(* The invariant says why the id key is enough: an entry it does not cover *)
(* belongs to a lookup under way, or to one that was cut short.            *)
(***************************************************************************)
EXTENDS RedisPatCache, TLAPS

Positive(p) == entry[p].kind = "positive"

FillPc == {"setPositive", "setIndex"}
LookupPc == {"get", "find", "setNegative", "granted"} \cup FillPc
RevokedPc == {"getIndex", "delKeys", "revokeDone"}
RotatePc == {"rotate", "getOldIndex", "delOldKeys"}
InsertPc == {"create", "rotate"}
InsertedPc == {"delNew", "mintDone", "getOldIndex", "delOldKeys"}

\* The PATs a request names are where its pc says they are.
NamesInv(r) ==
    LET q == req[r] IN
    /\ q.pc \in LookupPc \cup RevokedPc \cup RotatePc \cup {"revoke"} =>
           q.pat \in Pats /\ row[q.pat] # "absent"
    /\ q.pc \in RevokedPc => row[q.pat] = "revoked"
    /\ q.pc \in InsertPc => q.new \in Pats /\ row[q.new] = "absent"
    /\ q.pc \notin InsertPc /\ q.new \in Pats => row[q.new] # "absent"
    /\ q.pc \in InsertedPc => q.new \in Pats

\* What a lookup that came too late, or was sent after the revocation's answer,
\* can still reach.
LookupInv(r) ==
    LET q == req[r] IN
    /\ q.late \/ q.barred => q.pc \in LookupPc
    /\ q.late => life[q.pat] = 0 /\ q.pc # "granted"
    /\ q.barred => q.pat \in acked
    /\ q.barred /\ q.pat \notin raced => q.pc \in {"get", "find", "setNegative"}

\* A lookup about to write a revoked row is a race; a revocation that goes
\* without the hash key found nothing there to drop.
WriterInv(r) ==
    LET q == req[r] IN
    /\ q.pc \in FillPc => row[q.pat] = "live" \/ q.pat \in raced
    /\ q.pc = "delKeys" /\ ~q.indexed /\ q.pat \notin raced => ~Positive(q.pat)
    /\ q.pc = "revokeDone" /\ q.pat \notin raced => ~Positive(q.pat)

ReqInv(r) == NamesInv(r) /\ LookupInv(r) /\ WriterInv(r)

\* An entry that outlives its id key belongs to a lookup at its second SET or
\* to one that never got there, or a race left it.
Explained(p) ==
    \/ p \in cut \cup raced
    \/ \E r \in Requests : req[r].pat = p /\ req[r].pc = "setIndex"

KeyInv(p) ==
    /\ Positive(p) => entry[p].ttl \in 1..Ttl
    /\ Unindexed(p) => Explained(p)
    /\ row[p] = "revoked" /\ p \notin raced => ~Unindexed(p)
    /\ row[p] = "absent" => ~Positive(p) /\ p \notin issued
    /\ p \in acked => row[p] = "revoked"
    /\ p \in acked /\ p \notin raced => ~Positive(p)

\* No two requests insert the same PAT.
NewDistinct == \A r, s \in Requests : r # s /\ req[r].new \in Pats => req[s].new # req[r].new

RedisInv ==
    /\ TypeOK /\ NewDistinct
    /\ \A r \in Requests : ReqInv(r)
    /\ \A p \in Pats : KeyInv(p)

LEMMA RedisInvInit == Init => RedisInv
<1> SUFFICES ASSUME Init  PROVE RedisInv
  OBVIOUS
<1> USE DEF Init
<1>1. TypeOK
  BY DEF TypeOK, NoEntry, Entry, Idle, Request, Pc
<1>2. NewDistinct
  BY SentinelAssumption DEF NewDistinct, Idle
<1>3. \A r \in Requests : ReqInv(r)
  BY SentinelAssumption DEF ReqInv, NamesInv, LookupInv, WriterInv, Idle, LookupPc, FillPc,
     RevokedPc, RotatePc, InsertPc, InsertedPc
<1>4. \A p \in Pats : KeyInv(p)
  BY DEF KeyInv, Positive, Unindexed, NoEntry
<1> QED  BY <1>1, <1>2, <1>3, <1>4 DEF RedisInv
-----------------------------------------------------------------------------
(* What a request slot becomes                                             *)

LEMMA Continues ==
    ASSUME TypeOK, NEW r \in Requests, NEW l \in Pc, req' = [req EXCEPT ![r].pc = l]
    PROVE  /\ req' \in [Requests -> Request]
           /\ req'[r].pc = l /\ req'[r].pat = req[r].pat /\ req'[r].new = req[r].new
           /\ req'[r].proc = req[r].proc /\ req'[r].indexed = req[r].indexed
           /\ req'[r].late = req[r].late /\ req'[r].barred = req[r].barred
           /\ \A s \in Requests : s # r => req'[s] = req[s]
<1>1. req \in [Requests -> Request]
  BY DEF TypeOK
<1>2. [req[r] EXCEPT !.pc = l] \in Request
  BY <1>1 DEF Request
<1> QED  BY <1>1, <1>2 DEF Request

LEMMA Ends ==
    ASSUME TypeOK, NEW r \in Requests, Answered(r)
    PROVE  /\ req' \in [Requests -> Request] /\ req'[r] = Idle
           /\ \A s \in Requests : s # r => req'[s] = req[s]
<1>1. req \in [Requests -> Request] /\ Idle \in Request
  BY DEF TypeOK, Idle, Request, Pc
<1> QED  BY <1>1 DEF Answered

LEMMA Begins ==
    ASSUME TypeOK, NEW r \in Requests, NEW b \in Request, req' = [req EXCEPT ![r] = b]
    PROVE  /\ req' \in [Requests -> Request] /\ req'[r] = b
           /\ \A s \in Requests : s # r => req'[s] = req[s]
  BY DEF TypeOK

LEMMA IdleKeeps == ASSUME NEW r \in Requests, req'[r] = Idle  PROVE ReqInv(r)'
  BY SentinelAssumption DEF ReqInv, NamesInv, LookupInv, WriterInv, Idle, LookupPc, FillPc,
     RevokedPc, RotatePc, InsertPc, InsertedPc
-----------------------------------------------------------------------------
(* What a step does to the requests it does not move                       *)

\* Rows, answers and races only go forward; an entry turns positive only for
\* a row that is live or raced; whoever revokes under a running lookup says so.
Onward ==
    /\ \A p \in Pats : row[p] # "absent" =>
           row'[p] # "absent" /\ (life[p] = 0 => life'[p] = 0)
    /\ \A p \in Pats : row[p] = "revoked" => row'[p] = "revoked"
    /\ acked \subseteq acked' /\ raced \subseteq raced'
    /\ \A p \in Pats : Positive(p)' => Positive(p) \/ row[p] # "revoked" \/ p \in raced
    /\ \A p \in Pats : row[p] = "live" /\ row'[p] # "live" /\ Filling(p) => p \in raced'

\* Only r inserts a row, that of its own new PAT.
InsertsOwn(r) == \A p \in Pats : row[p] = "absent" /\ row'[p] # "absent" => p = req[r].new

LEMMA SparedKeeps ==
    ASSUME RedisInv, Onward, NEW s \in Requests, req'[s] = req[s],
           \A p \in Pats : row[p] = "absent" /\ row'[p] # "absent" => p # req[s].new
    PROVE  ReqInv(s)'
<1> DEFINE q == req[s]
<1>1. NamesInv(s) /\ LookupInv(s) /\ WriterInv(s)
  BY DEF RedisInv, ReqInv
<1>2. NamesInv(s)'
  BY <1>1 DEF NamesInv, Onward, InsertPc
<1>3. LookupInv(s)'
  <2>1. q.pc \in LookupPc => q.pat \in Pats /\ row[q.pat] # "absent"
    BY <1>1 DEF NamesInv
  <2> QED  BY <1>1, <2>1 DEF LookupInv, Onward
<1>4. WriterInv(s)'
  <2>1. q.pc \in FillPc => q.pat \in Pats /\ Filling(q.pat)
    BY <1>1 DEF NamesInv, LookupPc, FillPc, Filling
  <2>2. q.pc \in {"delKeys", "revokeDone"} => q.pat \in Pats /\ row[q.pat] = "revoked"
    BY <1>1 DEF NamesInv, RevokedPc
  <2> QED  BY <1>1, <2>1, <2>2 DEF WriterInv, Onward
<1> QED  BY <1>2, <1>3, <1>4 DEF ReqInv

\* A step of request r.
LEMMA StepKeeps ==
    ASSUME RedisInv, NEW r \in Requests, TypeOK', Onward, InsertsOwn(r),
           \A s \in Requests : s # r => req'[s] = req[s],
           req'[r].new \in {req[r].new, NoPat} \/ Fresh(req'[r].new),
           ReqInv(r)', \A p \in Pats : KeyInv(p)'
    PROVE  RedisInv'
<1>1. NewDistinct'
  BY SentinelAssumption DEF RedisInv, NewDistinct, Fresh
<1>2. ASSUME NEW s \in Requests, s # r  PROVE ReqInv(s)'
  <2>1. \A p \in Pats : row[p] = "absent" /\ row'[p] # "absent" => p # req[s].new
    BY <1>2 DEF RedisInv, NewDistinct, InsertsOwn
  <2> QED  BY <1>2, <2>1, SparedKeeps
<1> QED  BY <1>1, <1>2 DEF RedisInv

\* A step that only moves r, and that does not leave an entry without its id key.
LEMMA QuietKeeps ==
    ASSUME RedisInv, NEW r \in Requests, req' \in [Requests -> Request],
           UNCHANGED <<row, life, entry, index, issued, acked, raced, cut>>,
           \A s \in Requests : s # r => req'[s] = req[s],
           req[r].pc # "setIndex",
           req'[r].new \in {req[r].new, NoPat} \/ Fresh(req'[r].new),
           ReqInv(r)'
    PROVE  RedisInv'
<1>1. TypeOK' /\ Onward /\ InsertsOwn(r)
  BY DEF RedisInv, TypeOK, Onward, InsertsOwn, Positive
<1>2. ASSUME NEW p \in Pats  PROVE KeyInv(p)'
  <2>1. KeyInv(p) /\ (Explained(p) => Explained(p)')
    BY DEF RedisInv, Explained
  <2> QED  BY <2>1 DEF KeyInv, Positive, Unindexed
<1> QED  BY <1>1, <1>2, StepKeeps
-----------------------------------------------------------------------------
(* The steps that write nothing                                            *)

\* A lookup as it starts out.
LEMMA Asked ==
    ASSUME NEW q \in Procs, NEW p \in Pats, NEW late \in BOOLEAN, NEW barred \in BOOLEAN
    PROVE  [Idle EXCEPT !.pc = "get", !.proc = q, !.pat = p, !.late = late, !.barred = barred]
               \in Request
  BY DEF Idle, Request, Pc

\* A request begins.
LEMMA ArriveKeeps ==
    ASSUME RedisInv, NEW r \in Requests, Arrive(r)
    PROVE  RedisInv'
<1>1. PICK q \in Procs :
          \/ \E p \in Pats : Present(r, q, p) \/ Revoke(r, q, p) \/ Create(r, q, p)
          \/ \E p, n \in Pats : Rotate(r, q, p, n)
  BY DEF Arrive
<1>2. TypeOK /\ \A p \in Pats : KeyInv(p)
  BY DEF RedisInv
<1>3. ASSUME NEW p \in Pats, Present(r, q, p)  PROVE RedisInv'
  <2> DEFINE b == [Idle EXCEPT !.pc = "get", !.proc = q, !.pat = p,
                               !.late = (life[p] = 0), !.barred = p \in acked]
  <2>1. b \in Request /\ req' = [req EXCEPT ![r] = b]
    <3>1. (life[p] = 0) \in BOOLEAN /\ (p \in acked) \in BOOLEAN
      OBVIOUS
    <3>2. b \in Request
      BY <3>1, Asked
    <3> QED  BY <1>3, <3>2 DEF Present
  <2>2. req' \in [Requests -> Request] /\ req'[r] = b /\ \A s \in Requests : s # r => req'[s] = req[s]
    BY <1>2, <2>1, Begins
  <2>3. /\ req'[r].pc = "get" /\ req'[r].pat = p /\ req'[r].new = NoPat
        /\ req'[r].late = (life[p] = 0) /\ req'[r].barred = (p \in acked)
    BY <2>2 DEF Idle
  <2>4. UNCHANGED <<row, life, entry, index, issued, acked, raced, cut>> /\ row[p] # "absent"
    BY <1>2, <1>3 DEF Present, KeyInv
  <2>5. ReqInv(r)'
    BY <2>3, <2>4, SentinelAssumption DEF ReqInv, NamesInv, LookupInv, WriterInv, LookupPc, FillPc,
       RevokedPc, RotatePc, InsertPc, InsertedPc
  <2>6. req[r].pc # "setIndex"
    BY <1>3 DEF Present
  <2> QED  BY <2>2, <2>3, <2>4, <2>5, <2>6, QuietKeeps
<1>4. ASSUME NEW p \in Pats, Revoke(r, q, p)  PROVE RedisInv'
  <2> DEFINE b == [Idle EXCEPT !.pc = "revoke", !.proc = q, !.pat = p]
  <2>1. b \in Request /\ req' = [req EXCEPT ![r] = b]
    BY <1>4 DEF Revoke, Idle, Request, Pc
  <2>2. req' \in [Requests -> Request] /\ req'[r] = b /\ \A s \in Requests : s # r => req'[s] = req[s]
    BY <1>2, <2>1, Begins
  <2>3. /\ req'[r].pc = "revoke" /\ req'[r].pat = p /\ req'[r].new = NoPat
        /\ ~req'[r].late /\ ~req'[r].barred
    BY <2>2 DEF Idle
  <2>4. UNCHANGED <<row, life, entry, index, issued, acked, raced, cut>> /\ row[p] = "live"
    BY <1>4 DEF Revoke
  <2>5. ReqInv(r)'
    BY <2>3, <2>4, SentinelAssumption DEF ReqInv, NamesInv, LookupInv, WriterInv, LookupPc, FillPc,
       RevokedPc, RotatePc, InsertPc, InsertedPc
  <2>6. req[r].pc # "setIndex"
    BY <1>4 DEF Revoke
  <2> QED  BY <2>2, <2>3, <2>4, <2>5, <2>6, QuietKeeps
<1>5. ASSUME NEW n \in Pats, Create(r, q, n)  PROVE RedisInv'
  <2> DEFINE b == [Idle EXCEPT !.pc = "create", !.proc = q, !.new = n]
  <2>1. b \in Request /\ req' = [req EXCEPT ![r] = b]
    BY <1>5 DEF Create, Idle, Request, Pc
  <2>2. req' \in [Requests -> Request] /\ req'[r] = b /\ \A s \in Requests : s # r => req'[s] = req[s]
    BY <1>2, <2>1, Begins
  <2>3. /\ req'[r].pc = "create" /\ req'[r].new = n
        /\ ~req'[r].late /\ ~req'[r].barred
    BY <2>2 DEF Idle
  <2>4. /\ UNCHANGED <<row, life, entry, index, issued, acked, raced, cut>>
        /\ Fresh(n) /\ row[n] = "absent"
    BY <1>5 DEF Create, Fresh
  <2>5. ReqInv(r)'
    BY <2>3, <2>4 DEF ReqInv, NamesInv, LookupInv, WriterInv, LookupPc, FillPc,
       RevokedPc, RotatePc, InsertPc, InsertedPc
  <2>6. req[r].pc # "setIndex"
    BY <1>5 DEF Create
  <2> QED  BY <2>2, <2>3, <2>4, <2>5, <2>6, QuietKeeps
<1>6. ASSUME NEW p \in Pats, NEW n \in Pats, Rotate(r, q, p, n)  PROVE RedisInv'
  <2> DEFINE b == [Idle EXCEPT !.pc = "rotate", !.proc = q, !.pat = p, !.new = n]
  <2>1. b \in Request /\ req' = [req EXCEPT ![r] = b]
    BY <1>6 DEF Rotate, Idle, Request, Pc
  <2>2. req' \in [Requests -> Request] /\ req'[r] = b /\ \A s \in Requests : s # r => req'[s] = req[s]
    BY <1>2, <2>1, Begins
  <2>3. /\ req'[r].pc = "rotate" /\ req'[r].pat = p /\ req'[r].new = n
        /\ ~req'[r].late /\ ~req'[r].barred
    BY <2>2 DEF Idle
  <2>4. /\ UNCHANGED <<row, life, entry, index, issued, acked, raced, cut>>
        /\ row[p] = "live" /\ Fresh(n) /\ row[n] = "absent"
    BY <1>6 DEF Rotate, Fresh
  <2>5. ReqInv(r)'
    BY <2>3, <2>4 DEF ReqInv, NamesInv, LookupInv, WriterInv, LookupPc, FillPc,
       RevokedPc, RotatePc, InsertPc, InsertedPc
  <2>6. req[r].pc # "setIndex"
    BY <1>6 DEF Rotate
  <2> QED  BY <2>2, <2>3, <2>4, <2>5, <2>6, QuietKeeps
<1> QED  BY <1>1, <1>3, <1>4, <1>5, <1>6

\* A request that writes nothing and ends here.
LEMMA EndKeeps ==
    ASSUME RedisInv, NEW r \in Requests, Answered(r), req[r].pc # "setIndex",
           UNCHANGED <<row, life, entry, index, issued, acked, raced, cut>>
    PROVE  RedisInv'
<1>1. req' \in [Requests -> Request] /\ req'[r] = Idle /\ \A s \in Requests : s # r => req'[s] = req[s]
  BY Ends DEF RedisInv
<1>2. req'[r].new = NoPat /\ ReqInv(r)'
  BY <1>1, IdleKeeps DEF Idle
<1> QED  BY <1>1, <1>2, QuietKeeps

\* A request that writes nothing and goes on.
LEMMA GoOnKeeps ==
    ASSUME RedisInv, NEW r \in Requests, NEW l \in Pc, req' = [req EXCEPT ![r].pc = l],
           req[r].pc # "setIndex",
           UNCHANGED <<row, life, entry, index, issued, acked, raced, cut>>,
           ReqInv(r)'
    PROVE  RedisInv'
<1>1. TypeOK
  BY DEF RedisInv
<1> QED  BY <1>1, Continues, QuietKeeps

\* Whoever is granted came in time, and not after an answered revocation
\* unless that one raced.
LEMMA GrantIsSound ==
    ASSUME RedisInv, NEW r \in Requests, Resume(r), req[r].pc \in {"get", "setIndex"},
           req[r].pc = "get" => Positive(req[r].pat),
           UNCHANGED <<row, life, acked, raced>>
    PROVE  /\ req' \in [Requests -> Request]
           /\ req'[r].new \in {req[r].new, NoPat}
           /\ \A s \in Requests : s # r => req'[s] = req[s]
           /\ ReqInv(r)'
<1>1. TypeOK /\ ReqInv(r)
  BY DEF RedisInv
<1>2. CASE Answered(r)
  <2>1. req' \in [Requests -> Request] /\ req'[r] = Idle /\ \A s \in Requests : s # r => req'[s] = req[s]
    BY <1>1, <1>2, Ends
  <2> QED  BY <2>1, IdleKeeps DEF Idle
<1>3. CASE ~Answered(r)
  <2> DEFINE q == req[r]
  <2>1. life[q.pat] > 0 /\ req' = [req EXCEPT ![r].pc = "granted"]
    BY <1>3 DEF Resume, Decided
  <2>2. /\ req' \in [Requests -> Request]
        /\ req'[r].pc = "granted" /\ req'[r].pat = q.pat /\ req'[r].new = q.new
        /\ req'[r].late = q.late /\ req'[r].barred = q.barred
        /\ \A s \in Requests : s # r => req'[s] = req[s]
    BY <1>1, <2>1, Continues DEF Pc
  <2>3. q.pat \in Pats /\ row[q.pat] # "absent" /\ (q.new \in Pats => row[q.new] # "absent")
    BY <1>1 DEF ReqInv, NamesInv, LookupPc, FillPc, InsertPc
  <2>4. ~q.late
    BY <1>1, <2>1, <2>3 DEF ReqInv, LookupInv
  <2>5. ~(q.barred /\ q.pat \notin raced)
    <3> SUFFICES ASSUME q.barred, q.pat \notin raced  PROVE FALSE
      OBVIOUS
    <3>1. q.pc = "get" /\ q.pat \in acked
      BY <1>1 DEF ReqInv, LookupInv
    <3>2. ~Positive(q.pat)
      BY <2>3, <3>1 DEF RedisInv, KeyInv
    <3> QED  BY <3>1, <3>2
  <2>6. NamesInv(r)'
    BY <2>2, <2>3 DEF NamesInv, LookupPc, FillPc, RevokedPc, RotatePc, InsertPc, InsertedPc
  <2>7. LookupInv(r)'
    BY <1>1, <2>2, <2>4, <2>5 DEF ReqInv, LookupInv, LookupPc
  <2>8. WriterInv(r)'
    BY <2>2 DEF WriterInv, FillPc
  <2> QED  BY <2>2, <2>6, <2>7, <2>8 DEF ReqInv
<1> QED  BY <1>2, <1>3

LEMMA GetEntryKeeps == ASSUME RedisInv, NEW r \in Requests, GetEntry(r)  PROVE RedisInv'
<1> DEFINE q == req[r]
<1>1. TypeOK /\ ReqInv(r) /\ q.pc = "get" /\ q.pc # "setIndex"
  BY DEF RedisInv, GetEntry
<1>2. UNCHANGED <<row, life, entry, index, issued, acked, raced, cut>>
  BY DEF GetEntry
<1>3. CASE req' = [req EXCEPT ![r].pc = "find"]
  <2>1. /\ req'[r].pc = "find" /\ req'[r].pat = q.pat /\ req'[r].new = q.new
        /\ req'[r].late = q.late /\ req'[r].barred = q.barred
    BY <1>1, <1>3, Continues DEF Pc
  <2>2. ReqInv(r)'
    BY <1>1, <1>2, <2>1 DEF ReqInv, NamesInv, LookupInv, WriterInv, LookupPc, FillPc,
       RevokedPc, RotatePc, InsertPc, InsertedPc
  <2> QED  BY <1>1, <1>2, <1>3, <2>2, GoOnKeeps DEF Pc
<1>4. CASE Answered(r)
  BY <1>1, <1>2, <1>4, EndKeeps
<1>5. CASE Positive(q.pat) /\ Resume(r)
  <2>1. /\ req' \in [Requests -> Request]
        /\ req'[r].new \in {req[r].new, NoPat}
        /\ \A s \in Requests : s # r => req'[s] = req[s]
        /\ ReqInv(r)'
    BY <1>1, <1>2, <1>5, GrantIsSound
  <2> QED  BY <1>1, <1>2, <2>1, QuietKeeps
<1> QED  BY <1>3, <1>4, <1>5 DEF GetEntry, Positive

LEMMA FindInnerKeeps == ASSUME RedisInv, NEW r \in Requests, FindInner(r)  PROVE RedisInv'
<1> DEFINE q == req[r]
<1>1. TypeOK /\ ReqInv(r) /\ q.pc = "find" /\ q.pc # "setIndex" /\ q.pat \in Pats
  BY DEF RedisInv, FindInner, ReqInv, NamesInv, LookupPc
<1>2. UNCHANGED <<row, life, entry, index, issued, acked, raced, cut>>
  BY DEF FindInner
<1>3. CASE row[q.pat] = "live" /\ req' = [req EXCEPT ![r].pc = "setPositive"]
  <2>1. /\ req'[r].pc = "setPositive" /\ req'[r].pat = q.pat /\ req'[r].new = q.new
        /\ req'[r].late = q.late /\ req'[r].barred = q.barred
    BY <1>1, <1>3, Continues DEF Pc
  <2>2. ~q.barred
    BY <1>1, <1>3 DEF RedisInv, KeyInv, ReqInv, LookupInv
  <2>3. ReqInv(r)'
    BY <1>1, <1>2, <1>3, <2>1, <2>2 DEF ReqInv, NamesInv, LookupInv, WriterInv, LookupPc, FillPc,
       RevokedPc, RotatePc, InsertPc, InsertedPc
  <2> QED  BY <1>1, <1>2, <1>3, <2>3, GoOnKeeps DEF Pc
<1>4. CASE req' = [req EXCEPT ![r].pc = "setNegative"]
  <2>1. /\ req'[r].pc = "setNegative" /\ req'[r].pat = q.pat /\ req'[r].new = q.new
        /\ req'[r].late = q.late /\ req'[r].barred = q.barred
    BY <1>1, <1>4, Continues DEF Pc
  <2>2. ReqInv(r)'
    BY <1>1, <1>2, <2>1 DEF ReqInv, NamesInv, LookupInv, WriterInv, LookupPc, FillPc,
       RevokedPc, RotatePc, InsertPc, InsertedPc
  <2> QED  BY <1>1, <1>2, <1>4, <2>2, GoOnKeeps DEF Pc
<1>5. CASE Answered(r)
  BY <1>1, <1>2, <1>5, EndKeeps
<1> QED  BY <1>3, <1>4, <1>5 DEF FindInner
-----------------------------------------------------------------------------
(* The steps that write                                                    *)

\* A request goes on or its reply was lost.
LEMMA ReturnsTo ==
    ASSUME TypeOK, NEW r \in Requests, NEW l \in Pc, Returns(r, l)
    PROVE  /\ req' \in [Requests -> Request]
           /\ \A s \in Requests : s # r => req'[s] = req[s]
           /\ req'[r].new \in {req[r].new, NoPat}
           /\ \/ req'[r] = Idle
              \/ /\ req'[r].pc = l /\ req'[r].pat = req[r].pat /\ req'[r].new = req[r].new
                 /\ req'[r].late = req[r].late /\ req'[r].barred = req[r].barred
                 /\ req'[r].indexed = req[r].indexed
<1>1. CASE req' = [req EXCEPT ![r].pc = l]
  BY <1>1, Continues
<1>2. CASE req' = [req EXCEPT ![r] = Idle]
  BY <1>2, Ends DEF Answered, Idle
<1> QED  BY <1>1, <1>2 DEF Returns

\* A key nobody touched, whose filling lookups are still there.
LEMMA OtherKeyKeeps ==
    ASSUME RedisInv, NEW r \in Requests, NEW p \in Pats,
           req[r].pat # p \/ req[r].pc # "setIndex",
           \A s \in Requests : s # r => req'[s] = req[s],
           entry'[p] = entry[p], index'[p] = index[p], row'[p] = row[p],
           p \in acked' => p \in acked, p \in issued' => p \in issued,
           cut \subseteq cut', raced \subseteq raced'
    PROVE  KeyInv(p)'
<1>1. KeyInv(p)
  BY DEF RedisInv
<1>2. Explained(p) => Explained(p)'
  BY DEF Explained
<1> QED  BY <1>1, <1>2 DEF KeyInv, Positive, Unindexed

\* A key that holds no row is fine whatever its index says.
LEMMA DroppedKey ==
    ASSUME NEW p \in Pats, ~Positive(p)',
           row'[p] = "absent" => p \notin issued',
           p \in acked' => row'[p] = "revoked"
    PROVE  KeyInv(p)'
  BY DEF KeyInv, Positive, Unindexed

LEMMA SetNegativeKeeps == ASSUME RedisInv, NEW r \in Requests, SetNegative(r)  PROVE RedisInv'
<1> PICK p : p = req[r].pat
  OBVIOUS
<1>1. TypeOK /\ p \in Pats /\ KeyInv(p)
  BY DEF RedisInv, ReqInv, NamesInv, LookupPc, SetNegative
<1>2. Encoded(r, "negative", NegativeTtl) \in Entry
  BY <1>1, TimeAssumption DEF Encoded, Entry, NoEntry, TypeOK, Request
<1>3. /\ req' \in [Requests -> Request] /\ req'[r] = Idle
      /\ \A s \in Requests : s # r => req'[s] = req[s]
  BY <1>1, Ends DEF SetNegative
<1>4. TypeOK'
  BY <1>1, <1>2, <1>3 DEF TypeOK, SetNegative
<1>5. ~Positive(p)' /\ \A o \in Pats : o # p => entry'[o] = entry[o]
  BY <1>1 DEF SetNegative, Positive, Encoded, NoEntry, TypeOK
<1>6. Onward /\ InsertsOwn(r)
  BY <1>5 DEF Onward, InsertsOwn, SetNegative, Positive
<1>7. \A o \in Pats : KeyInv(o)'
  <2>1. KeyInv(p)'
    BY <1>1, <1>5, DroppedKey DEF SetNegative, KeyInv
  <2>2. ASSUME NEW o \in Pats, o # p  PROVE KeyInv(o)'
    BY <1>3, <1>5, <2>2, OtherKeyKeeps DEF SetNegative
  <2> QED  BY <2>1, <2>2
<1>8. ReqInv(r)' /\ req'[r].new = NoPat
  BY <1>3, IdleKeeps DEF Idle
<1> QED  BY <1>3, <1>4, <1>6, <1>7, <1>8, StepKeeps

LEMMA SetPositiveKeeps == ASSUME RedisInv, NEW r \in Requests, SetPositive(r)  PROVE RedisInv'
<1> PICK p : p = req[r].pat
  OBVIOUS
<1>1. TypeOK /\ p \in Pats /\ KeyInv(p) /\ ReqInv(r) /\ req[r].pc = "setPositive"
  BY DEF RedisInv, ReqInv, NamesInv, LookupPc, FillPc, SetPositive
<1>2. row[p] = "live" \/ p \in raced
  BY <1>1 DEF ReqInv, WriterInv, FillPc
<1>3. Encoded(r, "positive", Ttl) = [kind |-> "positive", tag |-> req[r].proc, ttl |-> Ttl]
  BY TimeAssumption DEF Encoded
<1>4. /\ Positive(p)' /\ entry'[p].ttl = Ttl
      /\ \A o \in Pats : o # p => entry'[o] = entry[o]
  BY <1>1, <1>3 DEF SetPositive, Positive, TypeOK
<1>5. entry' \in [Pats -> Entry]
  <2>1. Encoded(r, "positive", Ttl) \in Entry
    BY <1>1, <1>3, TimeAssumption DEF Entry, TypeOK, Request
  <2> QED  BY <1>1, <2>1 DEF SetPositive, TypeOK
<1>6. /\ req' \in [Requests -> Request]
      /\ req'[r].new \in {req[r].new, NoPat}
      /\ \A s \in Requests : s # r => req'[s] = req[s]
      /\ \/ /\ req'[r].pc = "setIndex" /\ req'[r].pat = p /\ req'[r].new = req[r].new
            /\ req'[r].late = req[r].late /\ req'[r].barred = req[r].barred
            /\ cut' = cut
         \/ req'[r] = Idle /\ cut' = cut \cup {p}
  <2>1. CASE req' = [req EXCEPT ![r].pc = "setIndex"] /\ cut' = cut
    BY <1>1, <2>1, Continues DEF Pc
  <2>2. CASE Answered(r) /\ cut' = cut \cup {p}
    <3>1. /\ req' \in [Requests -> Request] /\ req'[r] = Idle
          /\ \A s \in Requests : s # r => req'[s] = req[s]
      BY <1>1, <2>2, Ends
    <3> QED  BY <2>2, <3>1 DEF Idle
  <2> QED  BY <2>1, <2>2 DEF SetPositive
<1>7. TypeOK'
  BY <1>1, <1>5, <1>6 DEF TypeOK, SetPositive
<1>8. Onward /\ InsertsOwn(r)
  BY <1>2, <1>4 DEF Onward, InsertsOwn, SetPositive, Positive
<1>9. \A o \in Pats : KeyInv(o)'
  <2>1. KeyInv(p)'
    <3>1. Explained(p)'
      BY <1>6 DEF Explained
    <3> QED  BY <1>1, <1>2, <1>4, <3>1, TimeAssumption DEF KeyInv, SetPositive, ReqInv, NamesInv, LookupPc, FillPc
  <2>2. ASSUME NEW o \in Pats, o # p  PROVE KeyInv(o)'
    BY <1>4, <1>6, <2>2, OtherKeyKeeps DEF SetPositive
  <2> QED  BY <2>1, <2>2
<1>10. ReqInv(r)'
  <2>1. CASE req'[r] = Idle
    BY <2>1, IdleKeeps
  <2>2. CASE req'[r].pc = "setIndex" /\ req'[r].pat = p /\ req'[r].new = req[r].new
             /\ req'[r].late = req[r].late /\ req'[r].barred = req[r].barred
    BY <1>1, <1>2, <2>2 DEF SetPositive, ReqInv, NamesInv, LookupInv, WriterInv, LookupPc, FillPc,
       RevokedPc, RotatePc, InsertPc, InsertedPc
  <2> QED  BY <1>6, <2>1, <2>2
<1> QED  BY <1>6, <1>7, <1>8, <1>9, <1>10, StepKeeps

LEMMA SetIndexKeeps == ASSUME RedisInv, NEW r \in Requests, SetIndex(r)  PROVE RedisInv'
<1> PICK p : p = req[r].pat
  OBVIOUS
<1>1. TypeOK /\ p \in Pats /\ KeyInv(p)
  BY DEF RedisInv, ReqInv, NamesInv, LookupPc, FillPc, SetIndex
<1>2. /\ req' \in [Requests -> Request]
      /\ req'[r].new \in {req[r].new, NoPat}
      /\ \A s \in Requests : s # r => req'[s] = req[s]
      /\ ReqInv(r)'
  <2>1. CASE Resume(r)
    BY <2>1, GrantIsSound DEF SetIndex
  <2>2. CASE Answered(r)
    <3>1. /\ req' \in [Requests -> Request] /\ req'[r] = Idle
          /\ \A s \in Requests : s # r => req'[s] = req[s]
      BY <1>1, <2>2, Ends
    <3> QED  BY <3>1, IdleKeeps DEF Idle
  <2> QED  BY <2>1, <2>2 DEF SetIndex
<1>3. index' \in [Pats -> Nat] /\ index'[p] = Ttl /\ \A o \in Pats : o # p => index'[o] = index[o]
  BY <1>1, TimeAssumption DEF SetIndex, TypeOK
<1>4. TypeOK'
  BY <1>1, <1>2, <1>3 DEF TypeOK, SetIndex
<1>5. Onward /\ InsertsOwn(r)
  BY DEF Onward, InsertsOwn, SetIndex, Positive
<1>6. \A o \in Pats : KeyInv(o)'
  <2>1. ~Unindexed(p)'
    BY <1>1, <1>3, TimeAssumption DEF KeyInv, Positive, Unindexed, SetIndex
  <2>2. KeyInv(p)'
    BY <1>1, <2>1 DEF KeyInv, Positive, SetIndex
  <2>3. ASSUME NEW o \in Pats, o # p  PROVE KeyInv(o)'
    BY <1>2, <1>3, <2>3, OtherKeyKeeps DEF SetIndex
  <2> QED  BY <2>2, <2>3
<1> QED  BY <1>2, <1>4, <1>5, <1>6, StepKeeps

LEMMA InsertKeeps ==
    ASSUME RedisInv, NEW r \in Requests, CreateInner(r) \/ RotateInner(r)
    PROVE  RedisInv'
<1> PICK n : n = req[r].new
  OBVIOUS
<1>1. TypeOK /\ ReqInv(r) /\ req[r].pc \in {"create", "rotate"}
  BY DEF RedisInv, CreateInner, RotateInner
<1>2. n \in Pats /\ row[n] = "absent" /\ KeyInv(n)
  BY <1>1 DEF RedisInv, ReqInv, NamesInv, InsertPc
<1>3. /\ Inserted(n) /\ UNCHANGED <<entry, index, issued, acked, raced, cut>>
      /\ \/ req[r].pc = "create" /\ Returns(r, "delNew")
         \/ req[r].pc = "rotate" /\ Returns(r, "getOldIndex")
  BY DEF CreateInner, RotateInner
<1>4. /\ row'[n] = "live"
      /\ \A o \in Pats : o # n => row'[o] = row[o] /\ life'[o] = life[o]
      /\ row' \in [Pats -> {"absent", "live", "revoked"}] /\ life' \in [Pats -> Nat]
  BY <1>1, <1>2, <1>3, TimeAssumption DEF Inserted, TypeOK
<1>5. /\ req' \in [Requests -> Request]
      /\ req'[r].new \in {n, NoPat}
      /\ \A s \in Requests : s # r => req'[s] = req[s]
      /\ \/ req'[r] = Idle
         \/ /\ \/ req[r].pc = "create" /\ req'[r].pc = "delNew"
               \/ req[r].pc = "rotate" /\ req'[r].pc = "getOldIndex"
            /\ req'[r].pat = req[r].pat /\ req'[r].new = n
            /\ req'[r].late = req[r].late /\ req'[r].barred = req[r].barred
  BY <1>1, <1>3, ReturnsTo DEF Pc
<1>6. TypeOK'
  BY <1>1, <1>3, <1>4, <1>5 DEF TypeOK
<1>7. Onward /\ InsertsOwn(r)
  BY <1>2, <1>3, <1>4 DEF Onward, InsertsOwn, Positive
<1>8. \A o \in Pats : KeyInv(o)'
  <2>1. KeyInv(n)'
    BY <1>2, <1>3, <1>4, DroppedKey DEF KeyInv, Positive
  <2>2. ASSUME NEW o \in Pats, o # n  PROVE KeyInv(o)'
    BY <1>1, <1>3, <1>4, <1>5, <2>2, OtherKeyKeeps
  <2> QED  BY <2>1, <2>2
<1>9. ReqInv(r)'
  <2>1. CASE req'[r] = Idle
    BY <2>1, IdleKeeps
  <2>2. CASE /\ \/ req[r].pc = "create" /\ req'[r].pc = "delNew"
                \/ req[r].pc = "rotate" /\ req'[r].pc = "getOldIndex"
             /\ req'[r].pat = req[r].pat /\ req'[r].new = n
             /\ req'[r].late = req[r].late /\ req'[r].barred = req[r].barred
    <3>1. ~req[r].late /\ ~req[r].barred
      BY <1>1 DEF ReqInv, LookupInv, LookupPc, FillPc
    <3>2. req[r].pc = "rotate" => req[r].pat \in Pats /\ row'[req[r].pat] # "absent"
      BY <1>1, <1>2, <1>4 DEF ReqInv, NamesInv, RotatePc
    <3> QED  BY <1>2, <1>4, <2>2, <3>1, <3>2 DEF ReqInv, NamesInv, LookupInv, WriterInv, LookupPc,
             FillPc, RevokedPc, RotatePc, InsertPc, InsertedPc
  <2> QED  BY <1>5, <2>1, <2>2
<1> QED  BY <1>5, <1>6, <1>7, <1>8, <1>9, StepKeeps

LEMMA DropNewKeeps == ASSUME RedisInv, NEW r \in Requests, DropNew(r)  PROVE RedisInv'
<1> PICK n : n = req[r].new
  OBVIOUS
<1>1. TypeOK /\ ReqInv(r) /\ req[r].pc = "delNew" /\ n \in Pats /\ row[n] # "absent"
  BY DEF RedisInv, DropNew, ReqInv, NamesInv, InsertedPc, InsertPc
<1>2. /\ req' \in [Requests -> Request]
      /\ req'[r].new \in {n, NoPat}
      /\ \A s \in Requests : s # r => req'[s] = req[s]
      /\ \/ req'[r] = Idle
         \/ /\ req'[r].pc = "mintDone" /\ req'[r].pat = req[r].pat /\ req'[r].new = n
            /\ req'[r].late = req[r].late /\ req'[r].barred = req[r].barred
  BY <1>1, ReturnsTo DEF DropNew, Pc
<1>3. /\ entry' \in [Pats -> Entry]
      /\ ~Positive(n)' /\ \A o \in Pats : o # n => entry'[o] = entry[o]
  BY <1>1 DEF DropNew, Positive, NoEntry, TypeOK, Entry
<1>4. TypeOK'
  BY <1>1, <1>2, <1>3 DEF TypeOK, DropNew
<1>5. Onward /\ InsertsOwn(r)
  BY <1>3 DEF Onward, InsertsOwn, DropNew, Positive
<1>6. \A o \in Pats : KeyInv(o)'
  <2>1. KeyInv(n)'
    BY <1>1, <1>3, DroppedKey DEF DropNew, RedisInv, KeyInv
  <2>2. ASSUME NEW o \in Pats, o # n  PROVE KeyInv(o)'
    BY <1>1, <1>2, <1>3, <2>2, OtherKeyKeeps DEF DropNew
  <2> QED  BY <2>1, <2>2
<1>7. ReqInv(r)'
  <2>1. CASE req'[r] = Idle
    BY <2>1, IdleKeeps
  <2>2. CASE req'[r].pc = "mintDone" /\ req'[r].new = n
             /\ req'[r].late = req[r].late /\ req'[r].barred = req[r].barred
    BY <1>1, <2>2 DEF DropNew, ReqInv, NamesInv, LookupInv, WriterInv, LookupPc, FillPc,
       RevokedPc, RotatePc, InsertPc, InsertedPc
  <2> QED  BY <1>2, <2>1, <2>2
<1> QED  BY <1>2, <1>4, <1>5, <1>6, <1>7, StepKeeps

LEMMA AnswerMintKeeps == ASSUME RedisInv, NEW r \in Requests, AnswerMint(r)  PROVE RedisInv'
<1> PICK n : n = req[r].new
  OBVIOUS
<1>1. TypeOK /\ req[r].pc = "mintDone" /\ n \in Pats /\ row[n] # "absent"
  BY DEF RedisInv, AnswerMint, ReqInv, NamesInv, InsertedPc, InsertPc
<1>2. /\ req' \in [Requests -> Request] /\ req'[r] = Idle
      /\ \A s \in Requests : s # r => req'[s] = req[s]
  BY <1>1, Ends DEF AnswerMint
<1>3. TypeOK'
  BY <1>1, <1>2 DEF TypeOK, AnswerMint
<1>4. Onward /\ InsertsOwn(r)
  BY DEF Onward, InsertsOwn, AnswerMint, Positive
<1>5. \A o \in Pats : KeyInv(o)'
  <2>1. KeyInv(n)'
    <3>1. KeyInv(n) /\ (Explained(n) => Explained(n)')
      BY <1>1, <1>2 DEF RedisInv, Explained, AnswerMint
    <3> QED  BY <1>1, <3>1 DEF KeyInv, AnswerMint, Positive, Unindexed
  <2>2. ASSUME NEW o \in Pats, o # n  PROVE KeyInv(o)'
    BY <1>1, <1>2, <2>2, OtherKeyKeeps DEF AnswerMint
  <2> QED  BY <2>1, <2>2
<1>6. ReqInv(r)' /\ req'[r].new = NoPat
  BY <1>2, IdleKeeps DEF Idle
<1> QED  BY <1>2, <1>3, <1>4, <1>5, <1>6, StepKeeps

\* The row is revoked first: an entry without its id key is then a race.
LEMMA RevokeInnerKeeps == ASSUME RedisInv, NEW r \in Requests, RevokeInner(r)  PROVE RedisInv'
<1> PICK p : p = req[r].pat
  OBVIOUS
<1>1. /\ TypeOK /\ ReqInv(r) /\ req[r].pc = "revoke"
      /\ p \in Pats /\ row[p] # "absent" /\ KeyInv(p)
  BY DEF RedisInv, RevokeInner, ReqInv, NamesInv
<1>2. /\ row'[p] = "revoked" /\ row' \in [Pats -> {"absent", "live", "revoked"}]
      /\ \A o \in Pats : o # p => row'[o] = row[o]
      /\ raced' = IF row[p] = "live" /\ Unfollowed(p) THEN raced \cup {p} ELSE raced
      /\ UNCHANGED <<life, entry, index, issued, acked, cut>>
  BY <1>1 DEF RevokeInner, TypeOK
<1>3. /\ req' \in [Requests -> Request]
      /\ req'[r].new \in {req[r].new, NoPat}
      /\ \A s \in Requests : s # r => req'[s] = req[s]
      /\ \/ req'[r] = Idle
         \/ /\ req'[r].pc = "getIndex" /\ req'[r].pat = p /\ req'[r].new = req[r].new
            /\ req'[r].late = req[r].late /\ req'[r].barred = req[r].barred
  BY <1>1, ReturnsTo DEF RevokeInner, Pc
<1>4. TypeOK'
  BY <1>1, <1>2, <1>3 DEF TypeOK
<1>5. raced \subseteq raced' /\ (row[p] = "live" /\ Unfollowed(p) => p \in raced')
  BY <1>2
<1>6. Onward /\ InsertsOwn(r)
  <2>1. \A o \in Pats : row[o] = "live" /\ row'[o] # "live" /\ Filling(o) => o \in raced'
    BY <1>2, <1>5 DEF Unfollowed
  <2> QED  BY <1>1, <1>2, <1>5, <2>1 DEF Onward, InsertsOwn, Positive
<1>7. \A o \in Pats : KeyInv(o)'
  <2>1. ASSUME NEW o \in Pats, o # p  PROVE KeyInv(o)'
    BY <1>1, <1>2, <1>3, <1>5, <2>1, OtherKeyKeeps
  <2>2. Explained(p) => Explained(p)'
    BY <1>1, <1>2, <1>3, <1>5 DEF Explained
  <2>3. ASSUME p \notin raced'  PROVE ~Unindexed(p)
    <3>1. p \notin raced
      BY <1>5, <2>3
    <3>2. CASE row[p] = "revoked"
      BY <1>1, <3>1, <3>2 DEF KeyInv
    <3>3. CASE row[p] = "live"
      <4>1. ~Unfollowed(p)
        BY <1>5, <2>3, <3>3
      <4>2. Explained(p) => p \in cut \/ Filling(p)
        BY <3>1 DEF Explained, Filling
      <4> QED  BY <1>1, <4>1, <4>2 DEF KeyInv, Unfollowed
    <3> QED  BY <1>1, <3>2, <3>3 DEF TypeOK
  <2>4. KeyInv(p)'
    BY <1>1, <1>2, <1>5, <2>2, <2>3 DEF KeyInv, Positive, Unindexed
  <2> QED  BY <2>1, <2>4
<1>8. ReqInv(r)'
  <2>1. CASE req'[r] = Idle
    BY <2>1, IdleKeeps
  <2>2. CASE req'[r].pc = "getIndex" /\ req'[r].pat = p /\ req'[r].new = req[r].new
             /\ req'[r].late = req[r].late /\ req'[r].barred = req[r].barred
    BY <1>1, <1>2, <2>2 DEF ReqInv, NamesInv, LookupInv, WriterInv, LookupPc, FillPc,
       RevokedPc, RotatePc, InsertPc, InsertedPc
  <2> QED  BY <1>3, <2>1, <2>2
<1> QED  BY <1>3, <1>4, <1>6, <1>7, <1>8, StepKeeps

\* A GET of the id key: it may be gone, and then nothing is behind it.
LEMMA GetsIndexKeeps ==
    ASSUME RedisInv, NEW r \in Requests, GetIndex(r) \/ GetOldIndex(r)
    PROVE  RedisInv'
<1> PICK p : p = req[r].pat
  OBVIOUS
<1> DEFINE l == IF req[r].pc = "getIndex" THEN "delKeys" ELSE "delOldKeys"
           found == index[p] > 0
<1>1. /\ TypeOK /\ ReqInv(r) /\ req[r].pc \in {"getIndex", "getOldIndex"}
      /\ p \in Pats /\ row[p] # "absent" /\ KeyInv(p)
  BY DEF RedisInv, GetIndex, GetOldIndex, ReqInv, NamesInv, RevokedPc, RotatePc
<1>2. found \in BOOLEAN /\ (~found => ~(index[p] > 0))
  OBVIOUS
<1>3. /\ req' = [req EXCEPT ![r].pc = l, ![r].indexed = found]
      /\ UNCHANGED <<row, life, entry, index, issued, acked, raced, cut>>
  BY DEF GetIndex, GetOldIndex
<1> HIDE DEF found
<1>4. /\ req' \in [Requests -> Request]
      /\ \A s \in Requests : s # r => req'[s] = req[s]
      /\ req'[r].pc = l /\ req'[r].indexed = found
      /\ req'[r].pat = p /\ req'[r].new = req[r].new
      /\ req'[r].late = req[r].late /\ req'[r].barred = req[r].barred
  <2>1. req \in [Requests -> Request] /\ l \in Pc
    BY <1>1 DEF TypeOK, Pc
  <2>2. [req[r] EXCEPT !.pc = l, !.indexed = found] \in Request
    BY <1>2, <2>1 DEF Request
  <2> HIDE DEF l
  <2> QED  BY <1>3, <2>1, <2>2 DEF Request
<1>5. ~req[r].late /\ ~req[r].barred
  BY <1>1 DEF ReqInv, LookupInv, LookupPc, FillPc
<1>6. NamesInv(r)' /\ LookupInv(r)'
  BY <1>1, <1>3, <1>4, <1>5 DEF ReqInv, NamesInv, LookupInv, LookupPc, FillPc,
     RevokedPc, RotatePc, InsertPc, InsertedPc
<1>7. WriterInv(r)'
  <2>1. ASSUME req[r].pc = "getIndex", ~found, p \notin raced  PROVE ~Positive(p)
    <3>1. row[p] = "revoked" /\ index[p] = 0
      BY <1>1, <1>2, <2>1 DEF ReqInv, NamesInv, RevokedPc, TypeOK
    <3>2. ~Unindexed(p)
      BY <1>1, <2>1, <3>1 DEF KeyInv
    <3> QED  BY <1>1, <3>1, <3>2, TimeAssumption DEF KeyInv, Unindexed, Positive
  <2> QED  BY <1>1, <1>3, <1>4, <2>1 DEF WriterInv, FillPc, Positive
<1> HIDE DEF l
<1> QED  BY <1>1, <1>3, <1>4, <1>6, <1>7, QuietKeeps DEF ReqInv

LEMMA DelKeysKeeps == ASSUME RedisInv, NEW r \in Requests, DelKeys(r)  PROVE RedisInv'
<1> PICK p : p = req[r].pat
  OBVIOUS
<1>1. /\ TypeOK /\ ReqInv(r) /\ req[r].pc = "delKeys"
      /\ p \in Pats /\ row[p] = "revoked" /\ KeyInv(p)
  BY DEF RedisInv, DelKeys, ReqInv, NamesInv, RevokedPc
<1>2. /\ req' \in [Requests -> Request]
      /\ req'[r].new \in {req[r].new, NoPat}
      /\ \A s \in Requests : s # r => req'[s] = req[s]
      /\ \/ req'[r] = Idle
         \/ /\ req'[r].pc = "revokeDone" /\ req'[r].pat = p /\ req'[r].new = req[r].new
            /\ req'[r].late = req[r].late /\ req'[r].barred = req[r].barred
  BY <1>1, ReturnsTo DEF DelKeys, Pc
<1>3. /\ index' \in [Pats -> Nat] /\ index'[p] = 0
      /\ \A o \in Pats : o # p => index'[o] = index[o]
      /\ UNCHANGED <<row, life, issued, acked, raced, cut>>
  BY <1>1 DEF DelKeys, TypeOK
<1>4. /\ entry' \in [Pats -> Entry]
      /\ ~Positive(p)' \/ entry'[p] = entry[p]
      /\ p \notin raced => ~Positive(p)'
      /\ \A o \in Pats : o # p => entry'[o] = entry[o]
  <2>1. CASE req[r].indexed
    BY <1>1, <2>1 DEF DelKeys, Positive, NoEntry, TypeOK, Entry
  <2>2. CASE ~req[r].indexed
    BY <1>1, <2>2 DEF DelKeys, Positive, TypeOK, ReqInv, WriterInv
  <2> QED  BY <2>1, <2>2
<1>5. TypeOK'
  BY <1>1, <1>2, <1>3, <1>4 DEF TypeOK
<1>6. Onward /\ InsertsOwn(r)
  BY <1>3, <1>4 DEF Onward, InsertsOwn, Positive
<1>7. \A o \in Pats : KeyInv(o)'
  <2>1. ASSUME NEW o \in Pats, o # p  PROVE KeyInv(o)'
    BY <1>2, <1>3, <1>4, <2>1, OtherKeyKeeps
  <2>2. CASE ~Positive(p)'
    BY <1>1, <1>3, <2>1, <2>2, DroppedKey DEF KeyInv
  <2>3. CASE entry'[p] = entry[p] /\ p \in raced
    <3>1. Explained(p)'
      BY <1>3, <2>3 DEF Explained
    <3>2. KeyInv(p)'
      BY <1>1, <1>3, <2>3, <3>1 DEF KeyInv, Positive
    <3> QED  BY <2>1, <3>2
  <2> QED  BY <1>4, <2>2, <2>3
<1>8. ReqInv(r)'
  <2>1. CASE req'[r] = Idle
    BY <2>1, IdleKeeps
  <2>2. CASE req'[r].pc = "revokeDone" /\ req'[r].pat = p /\ req'[r].new = req[r].new
             /\ req'[r].late = req[r].late /\ req'[r].barred = req[r].barred
    BY <1>1, <1>3, <1>4, <2>2 DEF ReqInv, NamesInv, LookupInv, WriterInv, LookupPc, FillPc,
       RevokedPc, RotatePc, InsertPc, InsertedPc, Positive
  <2> QED  BY <1>2, <2>1, <2>2
<1> QED  BY <1>2, <1>5, <1>6, <1>7, <1>8, StepKeeps

LEMMA AnswerRevokeKeeps == ASSUME RedisInv, NEW r \in Requests, AnswerRevoke(r)  PROVE RedisInv'
<1> PICK p : p = req[r].pat
  OBVIOUS
<1>1. /\ TypeOK /\ ReqInv(r) /\ req[r].pc = "revokeDone"
      /\ p \in Pats /\ row[p] = "revoked" /\ KeyInv(p)
  BY DEF RedisInv, AnswerRevoke, ReqInv, NamesInv, RevokedPc
<1>2. /\ acked' = acked \cup {p} /\ UNCHANGED <<row, life, entry, index, raced, cut>>
      /\ issued' = issued \cup ({req[r].new} \cap Pats)
      /\ \A o \in issued' : o \in issued \/ row[o] # "absent"
  BY <1>1 DEF AnswerRevoke, ReqInv, NamesInv, InsertPc
<1>3. /\ req' \in [Requests -> Request] /\ req'[r] = Idle
      /\ \A s \in Requests : s # r => req'[s] = req[s]
  BY <1>1, Ends DEF AnswerRevoke
<1>4. TypeOK'
  BY <1>1, <1>2, <1>3 DEF TypeOK
<1>5. Onward /\ InsertsOwn(r)
  BY <1>2 DEF Onward, InsertsOwn, Positive
<1>6. \A o \in Pats : KeyInv(o)'
  <2> SUFFICES ASSUME NEW o \in Pats  PROVE KeyInv(o)'
    OBVIOUS
  <2>1. KeyInv(o) /\ (Explained(o) => Explained(o)')
    BY <1>1, <1>2, <1>3 DEF RedisInv, Explained
  <2>2. o = p /\ o \notin raced => ~Positive(o)
    BY <1>1 DEF ReqInv, WriterInv
  <2> QED  BY <1>1, <1>2, <2>1, <2>2 DEF KeyInv, Positive, Unindexed
<1>7. ReqInv(r)' /\ req'[r].new = NoPat
  BY <1>3, IdleKeeps DEF Idle
<1> QED  BY <1>3, <1>4, <1>5, <1>6, <1>7, StepKeeps

\* A rotation that found no id key, and drops one that appeared since, leaves
\* the entry behind: a race.
LEMMA DelOldKeysKeeps == ASSUME RedisInv, NEW r \in Requests, DelOldKeys(r)  PROVE RedisInv'
<1> PICK p, n, dropped : /\ p = req[r].pat /\ n = req[r].new
                         /\ dropped = {n} \cup (IF req[r].indexed THEN {p} ELSE {})
  OBVIOUS
<1>1. /\ TypeOK /\ ReqInv(r) /\ req[r].pc = "delOldKeys"
      /\ p \in Pats /\ row[p] # "absent" /\ n \in Pats /\ row[n] # "absent"
  BY DEF RedisInv, DelOldKeys, ReqInv, NamesInv, RotatePc, InsertedPc, InsertPc
<1>2. /\ req' \in [Requests -> Request]
      /\ req'[r].new \in {n, NoPat}
      /\ \A s \in Requests : s # r => req'[s] = req[s]
      /\ \/ req'[r] = Idle
         \/ /\ req'[r].pc = "revoke" /\ req'[r].pat = p /\ req'[r].new = n
            /\ req'[r].late = req[r].late /\ req'[r].barred = req[r].barred
  BY <1>1, ReturnsTo DEF DelOldKeys, Pc
<1>3. /\ index' = [index EXCEPT ![p] = 0]
      /\ entry' = [o \in Pats |-> IF o \in dropped THEN NoEntry ELSE entry[o]]
      /\ raced' = IF ~req[r].indexed /\ index[p] > 0 THEN raced \cup {p} ELSE raced
      /\ UNCHANGED <<row, life, issued, acked, cut>>
  BY DEF DelOldKeys
<1>4. /\ \A o \in dropped \cap Pats : ~Positive(o)'
      /\ \A o \in Pats \ dropped : entry'[o] = entry[o]
      /\ entry' \in [Pats -> Entry]
  BY <1>1, <1>3 DEF Positive, NoEntry, TypeOK, Entry
<1>5. /\ index'[p] = 0 /\ index' \in [Pats -> Nat]
      /\ \A o \in Pats : o # p => index'[o] = index[o]
      /\ raced \subseteq raced' /\ raced' \subseteq Pats
      /\ p \notin dropped /\ index[p] # 0 => p \in raced'
  BY <1>1, <1>3 DEF TypeOK
<1>6. TypeOK'
  BY <1>1, <1>2, <1>3, <1>4, <1>5 DEF TypeOK
<1>7. Onward /\ InsertsOwn(r)
  BY <1>3, <1>4, <1>5 DEF Onward, InsertsOwn, Positive
<1>8. \A o \in Pats : KeyInv(o)'
  <2> SUFFICES ASSUME NEW o \in Pats  PROVE KeyInv(o)'
    OBVIOUS
  <2>1. KeyInv(o)
    BY DEF RedisInv
  <2>2. CASE o \in dropped
    BY <1>3, <1>4, <2>1, <2>2, DroppedKey DEF KeyInv
  <2>3. CASE o \notin dropped /\ (o # p \/ index[p] = 0)
    <3>1. index'[o] = index[o] /\ entry'[o] = entry[o]
      BY <1>4, <1>5, <2>3
    <3> QED  BY <1>1, <1>2, <1>3, <1>5, <3>1, OtherKeyKeeps
  <2>4. CASE o \notin dropped /\ o = p /\ index[p] # 0
    <3>1. o \in raced' /\ Explained(o)' /\ entry'[o] = entry[o]
      BY <1>4, <1>5, <2>4 DEF Explained
    <3> QED  BY <1>3, <2>1, <3>1 DEF KeyInv, Positive
  <2> QED  BY <2>2, <2>3, <2>4
<1>9. ReqInv(r)'
  <2>1. CASE req'[r] = Idle
    BY <2>1, IdleKeeps
  <2>2. CASE req'[r].pc = "revoke" /\ req'[r].pat = p /\ req'[r].new = n
             /\ req'[r].late = req[r].late /\ req'[r].barred = req[r].barred
    BY <1>1, <1>3, <2>2 DEF ReqInv, NamesInv, LookupInv, WriterInv, LookupPc, FillPc,
       RevokedPc, RotatePc, InsertPc, InsertedPc
  <2> QED  BY <1>2, <2>1, <2>2
<1> QED  BY <1>2, <1>6, <1>7, <1>8, <1>9, StepKeeps
-----------------------------------------------------------------------------
(* Failures, restarts and time                                             *)

LEMMA CallFailsKeeps == ASSUME RedisInv, NEW r \in Requests, CallFails(r)  PROVE RedisInv'
<1>1. TypeOK /\ ReqInv(r)
  BY DEF RedisInv
<1>2. /\ req' \in [Requests -> Request] /\ req'[r] = Idle
      /\ \A s \in Requests : s # r => req'[s] = req[s]
  BY <1>1, Ends DEF CallFails
<1>3. /\ UNCHANGED <<row, life, entry, index, issued, acked, raced>>
      /\ cut \subseteq cut'
      /\ req[r].pc = "setIndex" => req[r].pat \in cut'
      /\ cut' \subseteq Pats
  BY <1>1 DEF CallFails, TypeOK, ReqInv, NamesInv, LookupPc, FillPc
<1>4. TypeOK' /\ Onward /\ InsertsOwn(r)
  BY <1>1, <1>2, <1>3 DEF TypeOK, Onward, InsertsOwn, Positive
<1>5. ASSUME NEW p \in Pats  PROVE KeyInv(p)'
  <2>1. KeyInv(p) /\ (Explained(p) => Explained(p)')
    BY <1>2, <1>3 DEF RedisInv, Explained
  <2> QED  BY <1>3, <2>1 DEF KeyInv, Positive, Unindexed
<1>6. ReqInv(r)' /\ req'[r].new = NoPat
  BY <1>2, IdleKeeps DEF Idle
<1> QED  BY <1>2, <1>4, <1>5, <1>6, StepKeeps

LEMMA RestartKeeps == ASSUME RedisInv, NEW q \in Procs, Restart(q)  PROVE RedisInv'
<1>1. TypeOK
  BY DEF RedisInv
<1>2. /\ UNCHANGED <<row, life, index, issued, acked, raced>>
      /\ cut' = cut \cup {req[r].pat : r \in {s \in Requests : req[s].proc = q /\ req[s].pc = "setIndex"}}
      /\ \A r \in Requests : req'[r] = IF req[r].proc = q THEN Idle ELSE req[r]
  BY DEF Restart
<1>3. cut' \subseteq Pats
  BY <1>1, <1>2 DEF TypeOK, RedisInv, ReqInv, NamesInv, LookupPc, FillPc
<1>4. req' \in [Requests -> Request]
  <2>1. Idle \in Request
    BY DEF Idle, Request, Pc
  <2> QED  BY <1>1, <2>1 DEF Restart, TypeOK
<1>5. /\ entry' \in [Pats -> Entry]
      /\ \A p \in Pats : entry'[p].kind = entry[p].kind /\ entry'[p].ttl = entry[p].ttl
  <2>1. \A p \in Pats : entry[p] \in Entry
    BY <1>1 DEF TypeOK
  <2>2. \A p \in Pats : [entry[p] EXCEPT !.tag = NoProc] \in Entry
    BY <2>1 DEF Entry
  <2>3. \A p \in Pats : [entry[p] EXCEPT !.tag = NoProc].kind = entry[p].kind
                        /\ [entry[p] EXCEPT !.tag = NoProc].ttl = entry[p].ttl
    BY <2>1 DEF Entry
  <2> QED  BY <2>1, <2>2, <2>3 DEF Restart
<1>6. TypeOK'
  BY <1>1, <1>2, <1>3, <1>4, <1>5 DEF TypeOK
<1>7. Onward
  BY <1>2, <1>5 DEF Onward, Positive
<1>8. ASSUME NEW s \in Requests  PROVE ReqInv(s)'
  <2>1. CASE req'[s] = Idle
    BY <2>1, IdleKeeps
  <2>2. CASE req'[s] = req[s]
    BY <1>2, <1>7, <2>2, SparedKeeps
  <2> QED  BY <1>2, <2>1, <2>2
<1>9. NewDistinct'
  BY <1>2, SentinelAssumption DEF RedisInv, NewDistinct, Idle
<1>10. ASSUME NEW p \in Pats  PROVE KeyInv(p)'
  <2>1. KeyInv(p)
    BY DEF RedisInv
  <2>2. Explained(p) => Explained(p)'
    BY <1>2 DEF Explained
  <2> QED  BY <1>2, <1>5, <2>1, <2>2 DEF KeyInv, Positive, Unindexed
<1> QED  BY <1>6, <1>8, <1>9, <1>10 DEF RedisInv

\* An entry and its id key age together: neither comes to outlive the other.
LEMMA TickKeeps == ASSUME RedisInv, Tick  PROVE RedisInv'
<1>1. TypeOK /\ UNCHANGED <<row, req, issued, acked, raced, cut>>
  BY DEF RedisInv, Tick
<1>2. /\ life' \in [Pats -> Nat]
      /\ \A p \in Pats : life[p] = 0 => life'[p] = 0
  BY <1>1 DEF Tick, TypeOK, Less
<1>3. index' \in [Pats -> Nat] /\ \A p \in Pats : index'[p] = Less(index[p])
  BY <1>1 DEF Tick, TypeOK, Less
<1>4. /\ entry' \in [Pats -> Entry]
      /\ \A p \in Pats : Positive(p)' =>
             Positive(p) /\ entry[p].ttl > 1 /\ entry'[p].ttl = entry[p].ttl - 1
  <2>1. \A p \in Pats : entry[p] \in Entry
    BY <1>1 DEF TypeOK
  <2>2. ASSUME NEW p \in Pats
        PROVE  /\ Aged(entry[p]) \in Entry
               /\ Aged(entry[p]).kind = "positive" =>
                      /\ entry[p].kind = "positive" /\ entry[p].ttl > 1
                      /\ Aged(entry[p]).ttl = entry[p].ttl - 1
    <3>1. CASE entry[p].ttl <= 1
      BY <3>1 DEF Aged, NoEntry, Entry
    <3>2. CASE ~(entry[p].ttl <= 1)
      BY <2>1, <3>2 DEF Aged, Entry
    <3> QED  BY <3>1, <3>2
  <2> QED  BY <2>2 DEF Tick, Positive
<1>5. TypeOK'
  BY <1>1, <1>2, <1>3, <1>4 DEF TypeOK
<1>6. Onward
  BY <1>1, <1>2, <1>4 DEF Onward
<1>7. ASSUME NEW s \in Requests  PROVE ReqInv(s)'
  BY <1>1, <1>6, SparedKeeps
<1>8. NewDistinct'
  BY <1>1 DEF RedisInv, NewDistinct
<1>9. ASSUME NEW p \in Pats  PROVE KeyInv(p)'
  <2>1. KeyInv(p)
    BY DEF RedisInv
  <2>2. Explained(p) => Explained(p)'
    BY <1>1 DEF Explained
  <2>3. Unindexed(p)' => Unindexed(p)
    <3>1. index[p] \in Nat /\ entry[p].ttl \in Nat
      BY <1>1 DEF TypeOK, Entry
    <3> QED  BY <1>3, <1>4, <3>1 DEF Unindexed, Positive, Less
  <2>4. Positive(p)' => entry'[p].ttl \in 1..Ttl
    BY <1>4, <2>1, TimeAssumption DEF KeyInv
  <2> QED  BY <1>1, <1>4, <2>1, <2>2, <2>3, <2>4 DEF KeyInv
<1> QED  BY <1>5, <1>7, <1>8, <1>9 DEF RedisInv
-----------------------------------------------------------------------------
LEMMA RedisInvNext == RedisInv /\ [Next]_vars => RedisInv'
<1> SUFFICES ASSUME RedisInv, [Next]_vars  PROVE RedisInv'
  OBVIOUS
<1>1. ASSUME NEW r \in Requests, Arrive(r)  PROVE RedisInv'
  BY <1>1, ArriveKeeps
<1>2. ASSUME NEW r \in Requests, RequestStep(r)  PROVE RedisInv'
  <2>1. CASE GetEntry(r) \/ FindInner(r)
    BY <2>1, GetEntryKeeps, FindInnerKeeps
  <2>2. CASE SetNegative(r) \/ SetPositive(r) \/ SetIndex(r)
    BY <2>2, SetNegativeKeeps, SetPositiveKeeps, SetIndexKeeps
  <2>3. CASE Respond(r)
    BY <2>3, EndKeeps DEF Respond
  <2>4. CASE CreateInner(r) \/ RotateInner(r)
    BY <2>4, InsertKeeps
  <2>5. CASE DropNew(r) \/ AnswerMint(r)
    BY <2>5, DropNewKeeps, AnswerMintKeeps
  <2>6. CASE RevokeInner(r) \/ DelKeys(r) \/ AnswerRevoke(r)
    BY <2>6, RevokeInnerKeeps, DelKeysKeeps, AnswerRevokeKeeps
  <2>7. CASE GetIndex(r) \/ GetOldIndex(r)
    BY <2>7, GetsIndexKeeps
  <2>8. CASE DelOldKeys(r)
    BY <2>8, DelOldKeysKeeps
  <2> QED  BY <1>2, <2>1, <2>2, <2>3, <2>4, <2>5, <2>6, <2>7, <2>8 DEF RequestStep
<1>3. ASSUME NEW r \in Requests, CallFails(r)  PROVE RedisInv'
  BY <1>3, CallFailsKeeps
<1>4. ASSUME NEW q \in Procs, Restart(q)  PROVE RedisInv'
  BY <1>4, RestartKeeps
<1>5. CASE Tick
  BY <1>5, TickKeeps
<1>6. CASE UNCHANGED vars
  <2>1. TypeOK' /\ NewDistinct'
    BY <1>6 DEF RedisInv, TypeOK, NewDistinct, vars
  <2>2. Onward
    BY <1>6 DEF Onward, Positive, vars
  <2>3. ASSUME NEW s \in Requests  PROVE ReqInv(s)'
    BY <1>6, <2>2, SparedKeeps DEF vars
  <2>4. ASSUME NEW p \in Pats  PROVE KeyInv(p)'
    BY <1>6 DEF RedisInv, KeyInv, Explained, Positive, Unindexed, vars
  <2> QED  BY <2>1, <2>3, <2>4 DEF RedisInv
<1> QED  BY <1>1, <1>2, <1>3, <1>4, <1>5, <1>6 DEF Next

\* The inductive invariant holds of every behaviour.
THEOREM RedisInvariance == Spec => []RedisInv
BY RedisInvInit, RedisInvNext, PTL DEF Spec

\* Every variable of the decorator's PAT paths keeps its type.
THEOREM RedisTypeCorrect == Spec => []TypeOK
<1>1. RedisInv => TypeOK
  BY DEF RedisInv
<1> QED  BY <1>1, RedisInvariance, PTL

\* A request sent after a revocation was answered is never authenticated from
\* the cache, unless that revocation met a lookup that was filling it or an
\* entry its id key did not cover.
THEOREM RevocationsFinalUnlessRaced == Spec => []RevocationFinalUnlessRaced
<1>1. RedisInv => RevocationFinalUnlessRaced
  BY DEF RedisInv, ReqInv, LookupInv, RevocationFinalUnlessRaced
<1> QED  BY <1>1, RedisInvariance, PTL

\* Nobody who asks after a PAT expired is authenticated, whatever the TTL of
\* the entry that still holds it.
THEOREM CachedGrantsBeforeExpiry == Spec => []GrantBeforeExpiry
<1>1. RedisInv => GrantBeforeExpiry
  BY DEF RedisInv, ReqInv, LookupInv, GrantBeforeExpiry
<1> QED  BY <1>1, RedisInvariance, PTL

\* A positive entry stands for a live row, but for the races and the time
\* between the revocation's inner write and its answer.
THEOREM CacheCoheres == Spec => []CacheCoherent
<1>1. RedisInv => CacheCoherent
  <2> SUFFICES ASSUME RedisInv, NEW p \in Pats, Positive(p), row[p] # "live", p \notin raced
               PROVE  row[p] = "revoked" /\ p \notin acked
    BY DEF CacheCoherent, Positive
  <2> QED  BY DEF RedisInv, KeyInv, TypeOK
<1> QED  BY <1>1, RedisInvariance, PTL
=============================================================================
