------------------------- MODULE RefreshStoresProofs -------------------------
(***************************************************************************)
(* Proofs about RefreshStores, for any number of tokens, families, calls   *)
(* and processes: the deployment starts safely, nothing is left of a       *)
(* revoked family, and the cache says what the store says but for the      *)
(* excuses CacheFollows names.  First the parts it is made of: the rows    *)
(* (RefreshFamilies) and the start of the processes (Startup).             *)
(*                                                                         *)
(* Why a revocation's SMEMBERS is enough: an entry is in its family's set, *)
(* or its lookup has not come that far and excuses it.  And what is filled *)
(* between SMEMBERS and DEL is of a family already dead, hence stale.      *)
(***************************************************************************)
EXTENDS RefreshStores, TLAPS
-----------------------------------------------------------------------------
(* The rows.  OneValid needs to know that an unissued token is in no       *)
(* family, or the successor of one token could join the family of another. *)
(* FamilyRevoked needs Serial, or that revocations leave nothing as those  *)
(* of RefreshStores: without it a revocation may miss a successor.         *)

\* A token is in no family before its insertion, and in one ever after.
Unplaced == \A t \in Tokens : state[t] = "unissued" => family[t] = NoFamily
InFamily == \A t \in Tokens : state[t] # "unissued" => family[t] \in Families

FamInv == TypeOK /\ Unplaced /\ InFamily /\ OneValid

\* The invariant holds before the first login.
LEMMA FamInvInit == Init => FamInv
  BY DEF Init, FamInv, TypeOK, Unplaced, InFamily, OneValid

\* A login starts a family of its own, so it is alone in it.
LEMMA CreateKeeps ==
    ASSUME FamInv, NEW t \in Tokens, NEW f \in Families, CreateRefreshToken(t, f)
    PROVE  FamInv'
<1>1. TypeOK' /\ Unplaced' /\ InFamily'
  BY SentinelAssumption DEF FamInv, TypeOK, Unplaced, InFamily, CreateRefreshToken
<1>2. OneValid'
  BY DEF FamInv, TypeOK, Unplaced, OneValid, CreateRefreshToken
<1> QED  BY <1>1, <1>2 DEF FamInv

\* The successor is valid from the moment on in which its predecessor is not.
LEMMA SpendKeeps ==
    ASSUME FamInv, NEW t \in Tokens, NEW n \in Tokens, Spend(t, n)
    PROVE  FamInv'
<1>1. t # n /\ state[t] = "valid" /\ state[n] = "unissued" /\ family[t] \in Families
  BY DEF FamInv, InFamily, Spend, Spendable
<1>2. TypeOK' /\ Unplaced' /\ InFamily'
  BY <1>1, SentinelAssumption DEF FamInv, TypeOK, Unplaced, InFamily, Spend
<1>3. OneValid'
  BY <1>1 DEF FamInv, TypeOK, Unplaced, OneValid, Spend
<1> QED  BY <1>2, <1>3 DEF FamInv

\* Deleting rows makes no token valid.
LEMMA DeleteKeeps ==
    ASSUME FamInv, NEW f \in Families, NEW S \in SUBSET Tokens, Delete(f, S)
    PROVE  FamInv'
<1>1. \A t \in S : state[t] # "unissued"
  BY DEF Delete, Deletable, Members, Present
<1>2. TypeOK' /\ Unplaced' /\ InFamily'
  BY <1>1, SentinelAssumption DEF FamInv, TypeOK, Unplaced, InFamily, Delete
<1>3. OneValid'
  BY DEF FamInv, TypeOK, OneValid, Delete
<1> QED  BY <1>2, <1>3 DEF FamInv

LEMMA FamInvNext == FamInv /\ [Next]_vars => FamInv'
<1> SUFFICES ASSUME FamInv, [Next]_vars  PROVE FamInv'
  OBVIOUS
<1>1. ASSUME NEW t \in Tokens, NEW f \in Families, CreateRefreshToken(t, f)  PROVE FamInv'
  BY <1>1, CreateKeeps
<1>2. ASSUME NEW t \in Tokens, NEW n \in Tokens, Spend(t, n)  PROVE FamInv'
  BY <1>2, SpendKeeps
<1>3. ASSUME NEW t \in Tokens, NEW S \in SUBSET Tokens, Reuse(t, S)  PROVE FamInv'
  <2>1. family[t] \in Families /\ Delete(family[t], S)
    BY <1>3 DEF Reuse, FamInv, InFamily
  <2> QED  BY <2>1, DeleteKeeps
<1>4. ASSUME NEW f \in Families, NEW S \in SUBSET Tokens, RevokeRefreshTokenFamily(f, S)
      PROVE FamInv'
  BY <1>4, DeleteKeeps DEF RevokeRefreshTokenFamily
<1>5. CASE UNCHANGED vars
  BY <1>5 DEF vars, FamInv, TypeOK, Unplaced, InFamily, OneValid
<1> QED  BY <1>1, <1>2, <1>3, <1>4, <1>5 DEF Next

\* Every reachable state is well typed, with any number of tokens, whether or
\* not revocations are serial (the rows of a token store).
THEOREM FamiliesTypeCorrect == Spec => []TypeOK
<1>1. FamInv => TypeOK
  BY DEF FamInv
<1> QED  BY FamInvInit, FamInvNext, <1>1, PTL DEF Spec

\* A family never has two tokens that can be exchanged, also when a revocation
\* misses a successor (rotateRefreshToken of the SQL stores).
THEOREM OneValidToken == Spec => []OneValid
<1>1. FamInv => OneValid
  BY DEF FamInv
<1> QED  BY FamInvInit, FamInvNext, <1>1, PTL DEF Spec

\* With serial calls a revoked family stays empty: what is minted belongs to a
\* family that is not revoked.
LEMMA RevokedNext == Serial /\ FamInv /\ FamilyRevoked /\ [Next]_vars => FamilyRevoked'
<1> SUFFICES ASSUME Serial, FamInv, FamilyRevoked, [Next]_vars  PROVE FamilyRevoked'
  OBVIOUS
<1>1. ASSUME NEW t \in Tokens, NEW f \in Families, CreateRefreshToken(t, f)
      PROVE FamilyRevoked'
  BY <1>1 DEF CreateRefreshToken, FamInv, TypeOK, FamilyRevoked, Members, Present
<1>2. ASSUME NEW t \in Tokens, NEW n \in Tokens, Spend(t, n)  PROVE FamilyRevoked'
  BY <1>2 DEF Spend, Spendable, FamInv, TypeOK, InFamily, FamilyRevoked, Members, Present
<1>3. ASSUME NEW f \in Families, NEW S \in SUBSET Tokens, Delete(f, S)  PROVE FamilyRevoked'
  <2>1. S = Members(f)
    BY <1>3 DEF Delete, Deletable
  <2> QED  BY <1>3, <2>1 DEF Delete, FamInv, TypeOK, FamilyRevoked, Members, Present
<1>4. ASSUME NEW t \in Tokens, NEW S \in SUBSET Tokens, Reuse(t, S)  PROVE FamilyRevoked'
  <2>1. family[t] \in Families /\ Delete(family[t], S)
    BY <1>4 DEF Reuse, FamInv, InFamily
  <2> QED  BY <2>1, <1>3
<1>5. CASE UNCHANGED vars
  BY <1>5 DEF vars, FamilyRevoked, Members, Present
<1> QED  BY <1>1, <1>2, <1>3, <1>4, <1>5 DEF Next, RevokeRefreshTokenFamily

\* Nothing is left of a revoked family where every call is one transaction
\* (sqliteTokenStore).
THEOREM RevokedFamiliesEmpty == Serial => (Spec => []FamilyRevoked)
<1> SUFFICES ASSUME Serial  PROVE Spec => []FamilyRevoked
  OBVIOUS
<1>1. Init => FamilyRevoked
  BY DEF Init, FamilyRevoked
<1>2. FamInv /\ FamilyRevoked /\ [Next]_vars => FamilyRevoked'
  BY RevokedNext
<1> QED  BY FamInvInit, FamInvNext, <1>1, <1>2, PTL DEF Spec
-----------------------------------------------------------------------------
(* The start of a process.  Under the lock, what a process read of the     *)
(* migrations stays what is committed, so no INSERT meets a duplicate and  *)
(* COMMIT leaves every bundled migration applied.                          *)

InTx(p) == boot[p].pc \in {"read", "apply"}

\* Only the holder of the lock is past it.
LockInv == \A p \in Procs : InTx(p) => lock = p

\* What the holder read is what is committed; it writes none of that again.
ReadInv ==
    \A p \in Procs :
        /\ boot[p].pc = "apply" => boot[p].seen = applied /\ boot[p].wrote \cap applied = {}
        /\ boot[p].pc # "apply" => boot[p].wrote = {}

\* Who is through with init has the migrations of its release.
Migrated ==
    \A p \in Procs : boot[p].pc \in {"up", "create", "close"} /\ store # "memory" =>
        1..boot[p].bundle \subseteq applied

BootInv == BootTypeOK /\ LockInv /\ ReadInv /\ Migrated /\ clashed = {}

LEMMA AtRecord ==
    ASSUME NEW l \in BootPc, NEW role \in Roles, NEW n \in 1..Newest, NEW c \in Config, NEW code \in 0..3
    PROVE  At(l, role, n, c, code) \in BootRecord
  BY DEF At, BootRecord

LEMMA OffRecord == Off \in BootRecord /\ Off.pc = "off" /\ Off.wrote = {}
<1>1. 1 \in 1..Newest
  BY BootAssumption
<1>2. Off \in BootRecord
  BY <1>1, AtRecord DEF Off, BootPc, Roles, Config
<1>3. Off.pc = "off" /\ Off.wrote = {}
  BY DEF Off, At
<1> QED  BY <1>2, <1>3

LEMMA BootInvInit == BootInit => BootInv
<1> SUFFICES ASSUME BootInit  PROVE BootInv
  OBVIOUS
<1>1. boot \in [Procs -> BootRecord] /\ lock \notin Procs
  BY OffRecord, BootAssumption DEF BootInit
<1>3. starts \in 0..MaxStarts
  BY BootAssumption DEF BootInit
<1>4. BootTypeOK
  BY <1>1, <1>3 DEF BootInit, BootTypeOK
<1>2. LockInv /\ ReadInv /\ Migrated /\ clashed = {}
  BY DEF BootInit, LockInv, InTx, ReadInv, Migrated, Off, At
<1> QED  BY <1>2, <1>4 DEF BootInv
-----------------------------------------------------------------------------
(* What a step of process p that leaves it at record b has to respect      *)

\* The lock is taken when free and given up by its holder, and p is in its
\* transaction exactly when it holds it afterwards.
LockMoves(p, b) ==
    /\ \/ lock' = lock
       \/ lock = p /\ lock' = NoProc
       \/ lock = NoProc /\ lock' = p
    /\ b.pc \in {"read", "apply"} <=> lock' = p

\* Migrations are only added, and only under the lock.
ScopedWrite(p) ==
    /\ applied \subseteq applied' /\ applied' \subseteq 1..Newest
    /\ applied' # applied => lock = p

\* What p now knows and has is true of the database.
Truthful(b) ==
    /\ b.pc = "apply" => b.seen = applied' /\ b.wrote \cap applied' = {}
    /\ b.pc # "apply" => b.wrote = {}
    /\ b.pc \in {"up", "create", "close"} /\ store # "memory" => 1..b.bundle \subseteq applied'

LEMMA Keeps ==
    ASSUME BootInv, NEW p \in Procs, NEW b \in BootRecord,
           boot' = [boot EXCEPT ![p] = b],
           LockMoves(p, b), ScopedWrite(p), Truthful(b),
           store' = store, table' \in BOOLEAN, clashed' = {}, starts' \in 0..MaxStarts,
           touched' \subseteq Procs, minted' \subseteq Procs
    PROVE  BootInv'
<1>1. boot' \in [Procs -> BootRecord] /\ boot'[p] = b /\ \A q \in Procs : q # p => boot'[q] = boot[q]
  BY DEF BootInv, BootTypeOK
<1>2. lock' \in Procs \cup {NoProc}
  BY DEF BootInv, BootTypeOK, LockMoves
<1>3. \A q \in Procs : lock' = q => boot'[q].pc \in {"read", "apply"}
  BY <1>1, BootAssumption DEF BootInv, BootTypeOK, LockMoves
<1>4. BootTypeOK'
  BY <1>1, <1>2, <1>3 DEF BootInv, BootTypeOK, ScopedWrite
<1>5. LockInv'
  BY <1>1, BootAssumption DEF BootInv, LockInv, InTx, LockMoves
<1>6. ASSUME NEW q \in Procs, q # p, boot[q].pc = "apply"  PROVE applied' = applied
  BY <1>6 DEF BootInv, LockInv, InTx, ScopedWrite
<1>7. ReadInv'
  BY <1>1, <1>6 DEF BootInv, ReadInv, Truthful
<1>8. Migrated'
  BY <1>1 DEF BootInv, Migrated, Truthful, ScopedWrite
<1> QED  BY <1>4, <1>5, <1>7, <1>8 DEF BootInv

\* A process that ends, or is replaced, gives the lock back.
LEMMA EndKeeps ==
    ASSUME BootInv, NEW p \in Procs, NEW b \in BootRecord, b.pc \in {"off", "exit"}, b.wrote = {},
           boot' = [boot EXCEPT ![p] = b], Released(p),
           store' = store, table' = table, applied' = applied, clashed' = {},
           starts' \in 0..MaxStarts, touched' \subseteq Procs, minted' \subseteq Procs
    PROVE  BootInv'
<1>1. LockMoves(p, b)
  BY BootAssumption DEF LockMoves, Released
<1>2. ScopedWrite(p) /\ Truthful(b) /\ table' \in BOOLEAN
  BY DEF ScopedWrite, Truthful, BootInv, BootTypeOK
<1> QED  BY <1>1, <1>2, Keeps

\* Outside the transaction there is no lock to give back.
LEMMA NotHolder ==
    ASSUME BootInv, NEW p \in Procs, ~InTx(p), lock' = lock
    PROVE  Released(p) /\ lock # p
  BY DEF BootInv, BootTypeOK, InTx, Released

\* A step outside the transaction that changes where p stands, and not what is
\* in the database.
LEMMA WalkKeeps ==
    ASSUME BootInv, NEW p \in Procs, NEW b \in BootRecord, ~InTx(p),
           b.pc \notin {"read", "apply"}, b.wrote = {},
           b.pc \in {"up", "create", "close"} /\ store # "memory" => 1..b.bundle \subseteq applied,
           boot' = [boot EXCEPT ![p] = b], lock' = lock,
           store' = store, table' \in BOOLEAN, applied' = applied, clashed' = {},
           starts' \in 0..MaxStarts, touched' \subseteq Procs, minted' \subseteq Procs
    PROVE  BootInv'
<1>1. LockMoves(p, b)
  BY NotHolder DEF LockMoves
<1>2. ScopedWrite(p) /\ Truthful(b)
  BY DEF ScopedWrite, Truthful, BootInv, BootTypeOK
<1> QED  BY <1>1, <1>2, Keeps

\* A process that ends with code n.
LEMMA ExitKeeps ==
    ASSUME BootInv, NEW p \in Procs, NEW n \in 0..3, Exit(p, n), Released(p),
           store' = store, table' = table, applied' = applied, clashed' = {},
           starts' \in 0..MaxStarts, touched' \subseteq Procs, minted' \subseteq Procs
    PROVE  BootInv'
<1> DEFINE b == At("exit", boot[p].role, 1, boot[p].config, n)
<1>1. boot[p].role \in Roles /\ boot[p].config \in Config
  BY DEF BootInv, BootTypeOK, BootRecord
<1>2. "exit" \in BootPc /\ 1 \in 1..Newest
  BY BootAssumption DEF BootPc
<1>3. b \in BootRecord
  BY <1>1, <1>2, AtRecord
<1>4. b.pc = "exit" /\ b.wrote = {}
  BY DEF At
<1>5. boot' = [boot EXCEPT ![p] = b]
  BY DEF Exit
<1> HIDE DEF b
<1> QED  BY <1>3, <1>4, <1>5, EndKeeps

\* A process that goes on at another line, outside the transaction, with
\* nothing written.
LEMMA GotoKeeps ==
    ASSUME BootInv, NEW p \in Procs, NEW l \in BootPc \ {"read", "apply"}, ~InTx(p), Goto(p, l),
           l \in {"up", "create", "close"} /\ store # "memory" => 1..boot[p].bundle \subseteq applied,
           lock' = lock, store' = store, table' \in BOOLEAN, applied' = applied, clashed' = {},
           starts' = starts, touched' \subseteq Procs, minted' \subseteq Procs
    PROVE  BootInv'
<1> DEFINE b == [boot[p] EXCEPT !.pc = l]
<1>1. boot[p] \in BootRecord /\ boot[p].wrote = {}
  BY DEF BootInv, BootTypeOK, ReadInv, InTx
<1>2. b \in BootRecord /\ b.pc = l /\ b.wrote = {} /\ b.bundle = boot[p].bundle
  BY <1>1 DEF BootRecord
<1>3. boot' = [boot EXCEPT ![p] = b]
  BY DEF Goto
<1>4. starts' \in 0..MaxStarts
  BY DEF BootInv, BootTypeOK
<1> HIDE DEF b
<1> QED  BY <1>2, <1>3, <1>4, WalkKeeps
-----------------------------------------------------------------------------
(* The steps                                                               *)

LEMMA LoadSteps ==
    ASSUME BootInv, NEW p \in Procs,
           \/ \E role \in Roles, n \in 1..Newest, c \in Configs : Start(p, role, n, c)
           \/ ImportSettled(p) \/ TimedOut(p) \/ Drained(p)
    PROVE  BootInv'
<1>1. touched \subseteq Procs /\ minted \subseteq Procs /\ clashed = {} /\ table \in BOOLEAN
  BY DEF BootInv, BootTypeOK
<1>2. ASSUME NEW role \in Roles, NEW n \in 1..Newest, NEW c \in Configs, Start(p, role, n, c)
      PROVE  BootInv'
  <2> DEFINE b == CASE c = "badFlags" -> At("exit", role, 1, c, 1)
                    [] c = "refused" -> At("exit", role, 1, c, 2)
                    [] OTHER -> At("import", role, n, c, 0)
  <2>1. c \in Config /\ 1 \in 1..Newest
    BY BootAssumption
  <2>2. b \in BootRecord
    <3>1. At("exit", role, 1, c, 1) \in BootRecord
      BY <2>1, AtRecord DEF BootPc
    <3>2. At("exit", role, 1, c, 2) \in BootRecord
      BY <2>1, AtRecord DEF BootPc
    <3>3. At("import", role, n, c, 0) \in BootRecord
      BY <2>1, AtRecord DEF BootPc
    <3> QED  BY <3>1, <3>2, <3>3
  <2>3. b.wrote = {} /\ b.pc \in {"exit", "import"}
    <3>1. CASE c = "badFlags"
      BY <3>1 DEF At
    <3>2. CASE c = "refused"
      BY <3>2 DEF At
    <3>3. CASE c # "badFlags" /\ c # "refused"
      BY <3>3 DEF At
    <3> QED  BY <3>1, <3>2, <3>3
  <2>4. boot' = [boot EXCEPT ![p] = b] /\ ~InTx(p)
    BY <1>2 DEF Start, InTx
  <2>5. starts' \in 0..MaxStarts
    BY <1>2, BootAssumption DEF Start, BootInv, BootTypeOK
  <2>6. UNCHANGED <<store, table, applied, lock, clashed, touched, minted>>
    BY <1>2 DEF Start
  <2> HIDE DEF b
  <2> QED  BY <1>1, <2>2, <2>3, <2>4, <2>5, <2>6, WalkKeeps
<1>3. ASSUME boot[p].pc = "import", NEW n \in 0..3, Exit(p, n),
             UNCHANGED <<store, table, applied, lock, starts, clashed, touched, minted>>
      PROVE  BootInv'
  <2>1. Released(p)
    BY <1>3, NotHolder DEF InTx
  <2>2. starts' \in 0..MaxStarts
    BY <1>3 DEF BootInv, BootTypeOK
  <2> QED  BY <1>1, <1>3, <2>1, <2>2, ExitKeeps
<1>4. CASE ImportSettled(p)
  <2>1. boot[p].pc = "import" /\ UNCHANGED <<store, table, applied, lock, starts, clashed, minted>>
    BY <1>4 DEF ImportSettled
  <2>2. CASE Exit(p, 2) /\ UNCHANGED touched
    BY <1>3, <2>1, <2>2
  <2>3. CASE Exit(p, 0) /\ UNCHANGED touched
    BY <1>3, <2>1, <2>3
  <2>4. ASSUME touched' = touched \cup {p},
               NEW l \in {"bootstrap", "up", "create"}, Goto(p, l), l # "bootstrap" => store = "memory"
        PROVE  BootInv'
    <3>1. touched' \subseteq Procs /\ ~InTx(p) /\ l \in BootPc \ {"read", "apply"}
      BY <1>1, <2>1, <2>4 DEF InTx, BootPc
    <3> QED  BY <1>1, <2>1, <2>4, <3>1, GotoKeeps
  <2> QED  BY <1>4, <2>2, <2>3, <2>4 DEF ImportSettled
<1>5. CASE TimedOut(p)
  BY <1>3, <1>5 DEF TimedOut, TimerArmed
<1>6. CASE Drained(p)
  BY <1>3, <1>6 DEF Drained
<1> QED  BY <1>2, <1>4, <1>5, <1>6

LEMMA TableSteps ==
    ASSUME BootInv, NEW p \in Procs, Bootstrap(p) \/ CreateTable(p)
    PROVE  BootInv'
<1>1. touched \subseteq Procs /\ minted \subseteq Procs /\ clashed = {} /\ table \in BOOLEAN /\ starts \in 0..MaxStarts
  BY DEF BootInv, BootTypeOK
<1>2. UNCHANGED <<store, applied, lock, starts, clashed, touched, minted>> /\ table' \in BOOLEAN /\ ~InTx(p)
  BY <1>1 DEF Bootstrap, CreateTable, InTx
<1>3. ASSUME NEW l \in {"lock", "creating"}, Goto(p, l)  PROVE BootInv'
  <2>1. l \in BootPc \ {"read", "apply"} /\ l \notin {"up", "create", "close"}
    BY DEF BootPc
  <2> QED  BY <1>1, <1>2, <1>3, <2>1, GotoKeeps
<1>4. ASSUME Exit(p, 3), table' = table  PROVE BootInv'
  <2>1. Released(p)
    BY <1>2, NotHolder
  <2> QED  BY <1>1, <1>2, <1>4, <2>1, ExitKeeps
<1>5. Goto(p, "lock") \/ Goto(p, "creating") \/ (Exit(p, 3) /\ table' = table)
  BY DEF Bootstrap, CreateTable
<1> QED  BY <1>3, <1>4, <1>5

LEMMA TransactionSteps ==
    ASSUME BootInv, NEW p \in Procs, Lock(p) \/ Read(p) \/ Apply(p)
    PROVE  BootInv'
<1>1. /\ touched \subseteq Procs /\ minted \subseteq Procs /\ clashed = {} /\ table \in BOOLEAN
      /\ starts \in 0..MaxStarts /\ applied \subseteq 1..Newest /\ boot[p] \in BootRecord
      /\ boot[p].pc \in {"read", "apply"} => lock = p
  BY DEF BootInv, BootTypeOK, LockInv, InTx
<1>2. UNCHANGED <<store, table, applied, starts, clashed, touched, minted>>
  BY DEF Lock, Read, Apply
<1>3. ScopedWrite(p)
  BY <1>1, <1>2 DEF ScopedWrite
<1>4. ASSUME NEW b \in BootRecord, boot' = [boot EXCEPT ![p] = b], LockMoves(p, b), Truthful(b)
      PROVE  BootInv'
  BY <1>1, <1>2, <1>3, <1>4, Keeps
<1>5. CASE Lock(p)
  <2> DEFINE b == [boot[p] EXCEPT !.pc = "read"]
  <2>1. boot[p].wrote = {} /\ lock = NoProc /\ lock' = p /\ boot' = [boot EXCEPT ![p] = b]
    BY <1>5 DEF Lock, Lockable, Goto, BootInv, ReadInv
  <2>2. b \in BootRecord /\ b.pc = "read" /\ b.wrote = {}
    BY <1>1, <2>1 DEF BootRecord, BootPc
  <2> HIDE DEF b
  <2>3. LockMoves(p, b) /\ Truthful(b)
    BY <2>1, <2>2 DEF LockMoves, Truthful
  <2> QED  BY <1>4, <2>1, <2>2, <2>3
<1>6. CASE Read(p)
  <2> DEFINE b == [boot[p] EXCEPT !.pc = "apply", !.seen = applied]
  <2>1. boot[p].wrote = {} /\ lock = p /\ lock' = lock /\ boot' = [boot EXCEPT ![p] = b]
    BY <1>1, <1>6 DEF Read, BootInv, ReadInv
  <2>2. b \in BootRecord /\ b.pc = "apply" /\ b.seen = applied /\ b.wrote = {}
    BY <1>1, <2>1 DEF BootRecord, BootPc
  <2> HIDE DEF b
  <2>3. LockMoves(p, b) /\ Truthful(b)
    BY <1>2, <2>1, <2>2 DEF LockMoves, Truthful
  <2> QED  BY <1>4, <2>1, <2>2, <2>3
<1>7. CASE Apply(p)
  <2>1. PICK id \in ToApply(boot[p]) : boot' = [boot EXCEPT ![p].wrote = @ \cup {id}]
    BY <1>7 DEF Apply
  <2> DEFINE b == [boot[p] EXCEPT !.wrote = @ \cup {id}]
  <2>2. boot[p].pc = "apply" /\ lock = p /\ lock' = lock /\ boot[p].seen = applied /\ boot[p].wrote \cap applied = {}
    BY <1>1, <1>7 DEF Apply, BootInv, ReadInv
  <2>0. boot[p].bundle \in 1..Newest /\ Newest \in Nat
    BY <1>1, BootAssumption DEF BootRecord
  <2>3. id \in 1..Newest /\ id \notin applied
    BY <2>0, <2>1, <2>2 DEF ToApply
  <2>4. b \in BootRecord /\ b.pc = "apply" /\ b.seen = applied /\ b.wrote = boot[p].wrote \cup {id}
    BY <1>1, <2>2, <2>3 DEF BootRecord
  <2>5. boot' = [boot EXCEPT ![p] = b]
    BY <2>1
  <2> HIDE DEF b
  <2>6. LockMoves(p, b) /\ Truthful(b)
    BY <1>2, <2>2, <2>3, <2>4 DEF LockMoves, Truthful
  <2> QED  BY <1>4, <2>4, <2>5, <2>6
<1> QED  BY <1>5, <1>6, <1>7

\* No clash is possible: what the transaction wrote is disjoint from what is
\* committed.
LEMMA CommitStep ==
    ASSUME BootInv, NEW p \in Procs, Commit(p)
    PROVE  BootInv'
<1>1. /\ touched \subseteq Procs /\ minted \subseteq Procs /\ clashed = {} /\ table \in BOOLEAN
      /\ starts \in 0..MaxStarts /\ applied \subseteq 1..Newest /\ boot[p] \in BootRecord
  BY DEF BootInv, BootTypeOK
<1>2. boot[p].pc = "apply" /\ ToApply(boot[p]) = {} /\ Released(p)
  BY DEF Commit
<1>3. boot[p].seen = applied /\ boot[p].wrote \cap applied = {} /\ lock = p
  BY <1>2 DEF BootInv, ReadInv, LockInv, InTx
<1> DEFINE l == IF boot[p].role = "server" THEN "up" ELSE "create"
           b == At(l, boot[p].role, boot[p].bundle, boot[p].config, 0)
<1>4. applied' = applied \cup boot[p].wrote /\ boot' = [boot EXCEPT ![p] = b] /\ clashed' = {}
      /\ UNCHANGED <<store, table, starts, touched, minted>>
  BY <1>1, <1>3 DEF Commit
<1>5. boot[p].role \in Roles /\ boot[p].bundle \in 1..Newest /\ boot[p].config \in Config /\ boot[p].wrote \subseteq 1..Newest
  BY <1>1 DEF BootRecord
<1>6. l \in BootPc
  BY DEF BootPc
<1>7. b \in BootRecord
  BY <1>5, <1>6, AtRecord
<1>8. b.pc \in {"up", "create"} /\ b.wrote = {} /\ b.bundle = boot[p].bundle
  BY DEF At
<1>9. 1..boot[p].bundle \subseteq applied'
  BY <1>2, <1>3, <1>4 DEF ToApply
<1> HIDE DEF b, l
<1>10. LockMoves(p, b)
  BY <1>2, <1>3, <1>8, BootAssumption DEF LockMoves, Released
<1>11. ScopedWrite(p) /\ Truthful(b)
  BY <1>1, <1>3, <1>4, <1>5, <1>8, <1>9 DEF ScopedWrite, Truthful
<1> QED  BY <1>1, <1>4, <1>7, <1>10, <1>11, Keeps

LEMMA EndSteps ==
    ASSUME BootInv, NEW p \in Procs, InitFails(p) \/ Close(p) \/ Kill(p)
    PROVE  BootInv'
<1>1. /\ touched \subseteq Procs /\ minted \subseteq Procs /\ clashed = {} /\ boot[p] \in BootRecord
      /\ starts \in 0..MaxStarts
  BY DEF BootInv, BootTypeOK
<1>2. CASE InitFails(p)
  BY <1>1, <1>2, ExitKeeps DEF InitFails
<1>3. CASE Close(p)
  <2>1. ~InTx(p) /\ Exit(p, boot[p].code) /\ UNCHANGED <<store, table, applied, lock, starts, clashed, touched, minted>>
    BY <1>3 DEF Close, InTx
  <2>2. boot[p].code \in 0..3
    BY <1>1 DEF BootRecord
  <2>3. Released(p)
    BY <2>1, NotHolder
  <2> QED  BY <1>1, <2>1, <2>2, <2>3, ExitKeeps
<1>4. CASE Kill(p)
  BY <1>1, <1>4, OffRecord, EndKeeps DEF Kill
<1> QED  BY <1>2, <1>3, <1>4

LEMMA CreatePatStep ==
    ASSUME BootInv, NEW p \in Procs, CreatePat(p)
    PROVE  BootInv'
<1>1. /\ touched \subseteq Procs /\ minted \subseteq Procs /\ clashed = {} /\ table \in BOOLEAN
      /\ starts \in 0..MaxStarts /\ boot[p] \in BootRecord
  BY DEF BootInv, BootTypeOK
<1>2. PICK n \in {0, 3} : boot' = [boot EXCEPT ![p] = [boot[p] EXCEPT !.pc = "close", !.code = n]]
  <2>1. PICK ok \in BOOLEAN :
            boot' = [boot EXCEPT ![p].pc = "close", ![p].code = IF Stored(ok) THEN 0 ELSE 3]
    BY DEF CreatePat
  <2> DEFINE n == IF Stored(ok) THEN 0 ELSE 3
  <2>2. n \in {0, 3}
    OBVIOUS
  <2>3. boot' = [boot EXCEPT ![p].pc = "close", ![p].code = n]
    BY <2>1
  <2> HIDE DEF n
  <2>4. boot \in [Procs -> BootRecord]
    BY DEF BootInv, BootTypeOK
  <2>5. boot' = [boot EXCEPT ![p] = [boot[p] EXCEPT !.pc = "close", !.code = n]]
    BY <2>3, <2>4
  <2> QED  BY <2>2, <2>5
<1>3. minted' \subseteq Procs /\ UNCHANGED <<store, table, applied, lock, starts, clashed, touched>>
  BY <1>1 DEF CreatePat
<1>4. boot[p].pc = "create" /\ ~InTx(p) /\ boot[p].wrote = {}
  BY DEF CreatePat, InTx, BootInv, ReadInv
<1>5. store # "memory" => 1..boot[p].bundle \subseteq applied
  BY <1>4 DEF BootInv, Migrated
<1> DEFINE b == [boot[p] EXCEPT !.pc = "close", !.code = n]
<1>6. b \in BootRecord /\ b.pc = "close" /\ b.wrote = {} /\ b.bundle = boot[p].bundle
  <2>1. n \in 0..3 /\ "close" \in BootPc
    BY DEF BootPc
  <2>2. b.pc = "close" /\ b.wrote = {} /\ b.bundle = boot[p].bundle
    BY <1>1, <1>4 DEF BootRecord
  <2>3. b \in BootRecord
    BY <1>1, <2>1 DEF BootRecord
  <2> QED  BY <2>2, <2>3
<1>7. boot' = [boot EXCEPT ![p] = b]
  BY <1>2
<1> HIDE DEF b
<1> QED  BY <1>1, <1>3, <1>4, <1>5, <1>6, <1>7, WalkKeeps
-----------------------------------------------------------------------------
LEMMA BootInvNext == BootInv /\ [BootNext]_bootVars => BootInv'
<1> SUFFICES ASSUME BootInv, [BootNext]_bootVars  PROVE BootInv'
  OBVIOUS
<1>1. ASSUME NEW p \in Procs, Progress(p)  PROVE BootInv'
  BY <1>1, LoadSteps, TableSteps, TransactionSteps, CommitStep, EndSteps, CreatePatStep DEF Progress
<1>2. ASSUME NEW p \in Procs,
             (\E role \in Roles, n \in 1..Newest, c \in Configs : Start(p, role, n, c))
                \/ ImportSettled(p) \/ Drained(p)
      PROVE  BootInv'
  BY <1>2, LoadSteps
<1>3. ASSUME NEW p \in Procs, Kill(p)  PROVE BootInv'
  BY <1>3, EndSteps
<1>4. CASE UNCHANGED bootVars
  <2>1. BootTypeOK'
    BY <1>4 DEF bootVars, BootInv, BootTypeOK
  <2>2. LockInv' /\ ReadInv' /\ Migrated' /\ clashed' = {}
    BY <1>4 DEF bootVars, BootInv, LockInv, InTx, ReadInv, Migrated
  <2> QED  BY <2>1, <2>2 DEF BootInv
<1> QED  BY <1>1, <1>2, <1>3, <1>4 DEF BootNext

\* Every state of a starting deployment is well typed, with one process at a
\* time in the transaction of init.
THEOREM BootTypeCorrect == BootSpec => []BootTypeOK
<1>1. BootInv => BootTypeOK
  BY DEF BootInv
<1> QED  BY <1>1, BootInvInit, BootInvNext, PTL DEF BootSpec

\* Concurrent startups are safe: no init fails over a migration that another
\* process applied, and a process that is up has its release's tables.
THEOREM StartupsAreSerial == BootSpec => []StartupsSerialize
<1>1. BootInv => StartupsSerialize
  BY DEF BootInv, Migrated, StartupsSerialize
<1> QED  BY <1>1, BootInvInit, BootInvNext, PTL DEF BootSpec
-----------------------------------------------------------------------------
(* What the exit code tells                                                *)

\* What a process at record b of p owes to its exit code: nothing opened before
\* the import settled, and the code of success only for a stored row.
Accountable(p, b) ==
    /\ b.pc \in {"off", "import"} => p \notin touched
    /\ b.pc = "close" => b.code \in {0, 3} /\ (b.code = 0 => p \in minted)
    /\ b.pc = "exit" /\ b.config # "hangs" =>
           /\ b.code = 0 /\ b.role = "mintPat" => p \in minted
           /\ b.code \in {1, 2} => p \notin touched

HonestInv == \A p \in Procs : Accountable(p, boot[p])

LEMMA AccountOnly ==
    ASSUME BootTypeOK, HonestInv, NEW p \in Procs, NEW b, boot' = [boot EXCEPT ![p] = b],
           touched' \in {touched, touched \cup {p}, touched \ {p}},
           minted' \in {minted, minted \cup {p}, minted \ {p}},
           Accountable(p, b)'
    PROVE  HonestInv'
<1>1. boot'[p] = b /\ \A q \in Procs : q # p => boot'[q] = boot[q]
  BY DEF BootTypeOK
<1>2. \A q \in Procs : q # p => (q \in touched' <=> q \in touched) /\ (q \in minted' <=> q \in minted)
  OBVIOUS
<1>3. ASSUME NEW q \in Procs  PROVE Accountable(q, boot[q])'
  <2>1. CASE q = p
    BY <1>1, <2>1 DEF Accountable
  <2>2. CASE q # p
    BY <1>1, <1>2, <2>2 DEF Accountable, HonestInv
  <2> QED  BY <2>1, <2>2
<1> QED  BY <1>3 DEF HonestInv

\* A process that exits before the store was opened, or with the code for it.
LEMMA ExitAccounts ==
    ASSUME BootTypeOK, HonestInv, NEW p \in Procs, NEW n \in 0..3, Exit(p, n),
           UNCHANGED <<touched, minted>>,
           n = 0 /\ boot[p].role = "mintPat" /\ boot[p].config # "hangs" => p \in minted,
           n \in {1, 2} => p \notin touched
    PROVE  HonestInv'
<1>1. PICK b : b = At("exit", boot[p].role, 1, boot[p].config, n)
  OBVIOUS
<1>2. b.pc = "exit" /\ b.code = n /\ b.role = boot[p].role /\ b.config = boot[p].config
  BY <1>1 DEF At
<1>3. Accountable(p, b)'
  BY <1>2 DEF Accountable
<1> QED  BY <1>1, <1>3, AccountOnly DEF Exit

\* A process on its way through init.
LEMMA WalkAccounts ==
    ASSUME BootTypeOK, HonestInv, NEW p \in Procs, NEW b, boot' = [boot EXCEPT ![p] = b],
           b.pc \notin {"off", "import", "close", "exit"},
           touched' \in {touched, touched \cup {p}}, minted' = minted
    PROVE  HonestInv'
<1>1. Accountable(p, b)'
  BY DEF Accountable
<1> QED  BY <1>1, AccountOnly

LEMMA GotoAccounts ==
    ASSUME BootTypeOK, HonestInv, NEW p \in Procs, NEW l, Goto(p, l),
           l \notin {"off", "import", "close", "exit"},
           touched' \in {touched, touched \cup {p}}, minted' = minted
    PROVE  HonestInv'
<1>1. PICK b : b = [boot[p] EXCEPT !.pc = l]
  OBVIOUS
<1>2. b.pc = l
  BY <1>1 DEF BootTypeOK, BootRecord
<1>3. boot' = [boot EXCEPT ![p] = b]
  BY <1>1 DEF Goto, BootTypeOK
<1> QED  BY <1>2, <1>3, WalkAccounts

LEMMA HonestNext == BootTypeOK /\ HonestInv /\ [BootNext]_bootVars => HonestInv'
<1> SUFFICES ASSUME BootTypeOK, HonestInv, [BootNext]_bootVars  PROVE HonestInv'
  OBVIOUS
<1>1. ASSUME NEW p \in Procs  PROVE Accountable(p, boot[p]) /\ boot[p] \in BootRecord
  BY DEF HonestInv, BootTypeOK
<1>2. ASSUME NEW p \in Procs, NEW role \in Roles, NEW n \in 1..Newest, NEW c \in Configs,
             Start(p, role, n, c)
      PROVE  HonestInv'
  <2>1. PICK b : /\ b = CASE c = "badFlags" -> At("exit", role, 1, c, 1)
                          [] c = "refused" -> At("exit", role, 1, c, 2)
                          [] OTHER -> At("import", role, n, c, 0)
    OBVIOUS
  <2>2. b.pc = "import" \/ (b.pc = "exit" /\ b.code \in {1, 2})
    BY <2>1 DEF At
  <2>3. p \notin touched
    BY <1>1, <1>2 DEF Start, Accountable
  <2>4. UNCHANGED <<touched, minted>>
    BY <1>2 DEF Start
  <2>5. Accountable(p, b)'
    BY <2>2, <2>3, <2>4 DEF Accountable
  <2> QED  BY <1>2, <2>1, <2>4, <2>5, AccountOnly DEF Start
<1>3. ASSUME NEW p \in Procs, ImportSettled(p) \/ TimedOut(p) \/ Drained(p)  PROVE HonestInv'
  <2>1. boot[p].pc = "import" /\ p \notin touched /\ UNCHANGED minted
    BY <1>1, <1>3 DEF ImportSettled, TimedOut, TimerArmed, Drained, Accountable
  <2>2. CASE Exit(p, 2) /\ UNCHANGED touched
    BY <2>1, <2>2, ExitAccounts
  <2>3. CASE Exit(p, 0) /\ UNCHANGED touched /\ (boot[p].role = "verifyConfig" \/ boot[p].config = "hangs")
    BY <2>1, <2>3, ExitAccounts
  <2>4. ASSUME touched' = touched \cup {p}, NEW l \in {"bootstrap", "up", "create"}, Goto(p, l)
        PROVE  HonestInv'
    BY <2>1, <2>4, GotoAccounts
  <2> QED  BY <1>3, <2>2, <2>3, <2>4 DEF ImportSettled, TimedOut, Drained
<1>4. ASSUME NEW p \in Procs, Bootstrap(p) \/ CreateTable(p) \/ Lock(p) \/ InitFails(p)
      PROVE  HonestInv'
  <2>1. UNCHANGED <<touched, minted>>
    BY <1>4 DEF Bootstrap, CreateTable, Lock, InitFails
  <2>2. CASE Exit(p, 3)
    BY <2>1, <2>2, ExitAccounts
  <2>3. ASSUME NEW l \in {"lock", "creating", "read"}, Goto(p, l)  PROVE HonestInv'
    BY <2>1, <2>3, GotoAccounts
  <2> QED  BY <1>4, <2>2, <2>3 DEF Bootstrap, CreateTable, Lock, InitFails
<1>5. ASSUME NEW p \in Procs, Read(p) \/ Apply(p)  PROVE HonestInv'
  <2>1. UNCHANGED <<touched, minted>> /\ boot \in [Procs -> BootRecord]
    BY <1>5 DEF Read, Apply, BootTypeOK
  <2>2. PICK b : boot' = [boot EXCEPT ![p] = b] /\ b.pc = "apply"
    <3>1. CASE Read(p)
      <4>1. boot' = [boot EXCEPT ![p] = [boot[p] EXCEPT !.pc = "apply", !.seen = applied]]
        BY <2>1, <3>1 DEF Read
      <4>2. [boot[p] EXCEPT !.pc = "apply", !.seen = applied].pc = "apply"
        BY <1>1 DEF BootRecord
      <4> QED  BY <4>1, <4>2
    <3>2. CASE Apply(p)
      <4>1. PICK id : boot' = [boot EXCEPT ![p].wrote = @ \cup {id}]
        BY <3>2 DEF Apply
      <4>2. boot' = [boot EXCEPT ![p] = [boot[p] EXCEPT !.wrote = @ \cup {id}]]
        BY <2>1, <4>1
      <4>3. [boot[p] EXCEPT !.wrote = @ \cup {id}].pc = "apply"
        BY <1>1, <3>2 DEF BootRecord, Apply
      <4> QED  BY <4>2, <4>3
    <3> QED  BY <1>5, <3>1, <3>2
  <2> QED  BY <2>1, <2>2, WalkAccounts
<1>6. ASSUME NEW p \in Procs, Commit(p)  PROVE HonestInv'
  <2>1. UNCHANGED <<touched, minted>>
    BY <1>6 DEF Commit
  <2>2. CASE Exit(p, 3)
    BY <2>1, <2>2, ExitAccounts
  <2>3. ASSUME NEW l \in {"up", "create"},
               boot' = [boot EXCEPT ![p] = At(l, boot[p].role, boot[p].bundle, boot[p].config, 0)]
        PROVE  HonestInv'
    <3>1. At(l, boot[p].role, boot[p].bundle, boot[p].config, 0).pc = l
      BY DEF At
    <3> QED  BY <2>1, <2>3, <3>1, WalkAccounts
  <2> QED  BY <1>6, <2>2, <2>3 DEF Commit
<1>7. ASSUME NEW p \in Procs, CreatePat(p)  PROVE HonestInv'
  <2>1. PICK ok \in BOOLEAN, kept \in BOOLEAN :
            /\ ok => kept
            /\ minted' = IF kept THEN minted \cup {p} ELSE minted
            /\ boot' = [boot EXCEPT ![p].pc = "close", ![p].code = IF Stored(ok) THEN 0 ELSE 3]
    BY <1>7 DEF CreatePat
  <2>2. PICK n : n = IF Stored(ok) THEN 0 ELSE 3
    OBVIOUS
  <2>3. n \in {0, 3} /\ (n = 0 => p \in minted')
    BY <2>1, <2>2 DEF Stored
  <2>4. PICK b : b = [boot[p] EXCEPT !.pc = "close", !.code = n]
    OBVIOUS
  <2>5. boot' = [boot EXCEPT ![p] = b]
    BY <2>1, <2>2, <2>4 DEF BootTypeOK
  <2>6. b.pc = "close" /\ b.code = n
    BY <1>1, <2>4 DEF BootRecord
  <2>7. Accountable(p, b)'
    BY <2>3, <2>6 DEF Accountable
  <2>8. touched' = touched /\ minted' \in {minted, minted \cup {p}}
    BY <1>7, <2>1 DEF CreatePat
  <2> QED  BY <2>5, <2>7, <2>8, AccountOnly
<1>8. ASSUME NEW p \in Procs, Close(p)  PROVE HonestInv'
  <2>1. /\ boot[p].code \in {0, 3} /\ (boot[p].code = 0 => p \in minted)
        /\ Exit(p, boot[p].code) /\ UNCHANGED <<touched, minted>>
    BY <1>1, <1>8 DEF Close, Accountable
  <2>2. boot[p].code \in 0..3
    BY <2>1
  <2> QED  BY <2>1, <2>2, ExitAccounts
<1>9. ASSUME NEW p \in Procs, Kill(p)  PROVE HonestInv'
  <2>1. Off.pc = "off"
    BY DEF Off, At
  <2>2. touched' = touched \ {p} /\ minted' = minted \ {p} /\ boot' = [boot EXCEPT ![p] = Off]
    BY <1>9 DEF Kill
  <2>3. PICK b : b = Off
    OBVIOUS
  <2>4. Accountable(p, b)'
    BY <2>1, <2>2, <2>3 DEF Accountable
  <2> QED  BY <2>2, <2>3, <2>4, AccountOnly
<1>10. CASE UNCHANGED bootVars
  BY <1>10 DEF bootVars, HonestInv, Accountable
<1> QED  BY <1>2, <1>3, <1>4, <1>5, <1>6, <1>7, <1>8, <1>9, <1>10 DEF BootNext, Progress

LEMMA HonestInit == BootInit => HonestInv
<1> SUFFICES ASSUME BootInit, NEW p \in Procs  PROVE Accountable(p, boot[p])
  BY DEF HonestInv
<1>1. boot[p].pc = "off" /\ touched = {}
  BY DEF BootInit, Off, At
<1> QED  BY <1>1 DEF Accountable

\* A script can tell from mint-pat's exit code what became of the store, except
\* where the import hung.
THEOREM ExitCodesAreHonest == BootSpec => []ExitCodeHonest
<1>1. BootInv => BootTypeOK
  BY DEF BootInv
<1>2. HonestInv => ExitCodeHonest
  BY DEF HonestInv, Accountable, ExitCodeHonest
<1> QED  BY BootInvInit, BootInvNext, HonestInit, HonestNext, <1>1, <1>2, PTL DEF BootSpec
-----------------------------------------------------------------------------
(* The cache before the store                                              *)

CallRecord ==
    [pc: CallPc, token: Tokens \cup {NoToken}, new: Tokens \cup {NoToken},
     family: Families \cup {NoFamily},
     row: {"missing", "valid", "rotated"}, members: SUBSET Tokens]

KeyTypes ==
    /\ entry \in [Tokens -> {"none", "missing", "valid", "rotated"}]
    /\ index \in [Families -> SUBSET Tokens]
    /\ call \in [Calls -> CallRecord]
    /\ uncovered \subseteq Tokens /\ excused \subseteq Tokens
    /\ \A t \in Tokens : t \in uncovered => Cached(t)

RowsInv == TypeOK /\ Unplaced /\ InFamily /\ FamilyRevoked

\* An entry the store filled is in the set of its family, unless its lookup is
\* not that far or it is excused.
KeysInv ==
    \A t \in Tokens : Cached(t) =>
        state[t] # "unissued" /\ t \in uncovered \cup excused \cup index[family[t]]

CallInv(c) ==
    LET q == call[c] IN
    /\ q.pc \in {"find", "set", "sadd", "expire", "drop"} => q.token \in Tokens
    /\ q.pc = "drop" => q.new \in Tokens
    /\ q.pc \in {"sadd", "expire"} => q.row # "missing"
    /\ q.pc \in {"set", "sadd", "expire"} /\ q.row # "missing" => state[q.token] # "unissued"
    /\ q.pc \in {"smembers", "sweep"} => q.family \in dead
    /\ q.pc = "sweep" =>
         \A t \in Tokens : family[t] = q.family /\ Cached(t) => t \in excused \cup q.members

StoresInv ==
    /\ RowsInv /\ KeyTypes /\ KeysInv
    /\ \A c \in Calls : CallInv(c)
    /\ CacheFollows

LEMMA StoresInvInit == StoresInit => StoresInv
<1> SUFFICES ASSUME StoresInit  PROVE StoresInv
  OBVIOUS
<1> USE DEF StoresInit
<1>1. RowsInv
  BY DEF Init, RowsInv, TypeOK, Unplaced, InFamily, FamilyRevoked
<1>2. KeyTypes
  <2>1. IdleCall \in CallRecord
    BY DEF IdleCall, CallRecord, CallPc
  <2> QED  BY <2>1 DEF KeyTypes
<1>3. KeysInv
  BY DEF KeysInv, Cached
<1>4. \A c \in Calls : CallInv(c)
  BY DEF CallInv, IdleCall
<1>5. CacheFollows
  BY DEF CacheFollows
<1> QED  BY <1>1, <1>2, <1>3, <1>4, <1>5 DEF StoresInv
-----------------------------------------------------------------------------
(* Calls of the inner store                                                *)

\* A token stays in its family and a revoked family revoked.
RowsOnward ==
    /\ \A t \in Tokens : state[t] # "unissued" => state'[t] # "unissued" /\ family'[t] = family[t]
    /\ dead \subseteq dead'

\* The family a revocation names is one, so no token joins it meanwhile.
LEMMA PendingStays ==
    ASSUME StoresInv, RowsOnward, NEW c \in Calls, call'[c] = call[c], NEW t \in Tokens, t \in Pending(c)
    PROVE  t \in Pending(c)'
<1>1. CASE call[c].pc = "smembers"
  <2>1. family[t] = call[c].family /\ family[t] \in Families
    BY <1>1 DEF Pending, StoresInv, CallInv, RowsInv, TypeOK
  <2>2. family'[t] = family[t]
    BY <2>1, SentinelAssumption DEF RowsOnward, StoresInv, RowsInv, Unplaced
  <2> QED  BY <1>1, <2>1, <2>2 DEF Pending
<1>2. CASE call[c].pc # "smembers"
  BY <1>2 DEF Pending
<1> QED  BY <1>1, <1>2

\* Every row that changes under an entry is pending, or excused.
LEMMA StoreStepKeeps ==
    ASSUME StoresInv, UNCHANGED <<entry, index, uncovered>>,
           excused \subseteq excused', excused' \subseteq Tokens,
           call' \in [Calls -> CallRecord], RowsInv', RowsOnward,
           \A d \in Calls : call'[d] = call[d] \/ (call[d].pc = "idle" /\ CallInv(d)'),
           \A t \in Tokens :
               \/ Row(t)' = Row(t) \/ entry[t] \in {"none", Row(t)'} \/ t \in excused'
               \/ \E d \in Calls : t \in Pending(d)'
    PROVE  StoresInv'
<1>1. KeyTypes'
  BY DEF StoresInv, KeyTypes, Cached
<1>2. KeysInv'
  BY DEF StoresInv, KeysInv, Cached, RowsOnward
<1>3. ASSUME NEW d \in Calls, call'[d] = call[d]  PROVE CallInv(d)'
  <2>1. CallInv(d)
    BY DEF StoresInv
  <2>2. \A t \in Tokens : Cached(t) => family'[t] = family[t]
    BY DEF StoresInv, KeysInv, RowsOnward
  <2>3. \A t \in Tokens : state[t] # "unissued" => state'[t] # "unissued"
    BY DEF RowsOnward
  <2>4. dead \subseteq dead'
    BY DEF RowsOnward
  <2> QED  BY <1>3, <2>1, <2>2, <2>3, <2>4 DEF CallInv, Cached
<1>4. CacheFollows'
  <2> SUFFICES ASSUME NEW t \in Tokens
               PROVE  entry[t] \in {"none", Row(t)'} \/ t \in excused' \/ \E c \in Calls : t \in Pending(c)'
    BY DEF CacheFollows
  <2>1. CASE Row(t)' = Row(t) /\ ~(entry[t] \in {"none", Row(t)'} \/ t \in excused')
    <3>1. PICK c \in Calls : t \in Pending(c)
      BY <2>1 DEF StoresInv, CacheFollows
    <3>2. call[c].pc # "idle"
      BY <3>1 DEF Pending
    <3> QED  BY <3>1, <3>2, PendingStays
  <2> QED  BY <2>1
<1> QED  BY <1>1, <1>2, <1>3, <1>4 DEF StoresInv

\* What a call record becomes when a call begins.
LEMMA CallBegins ==
    ASSUME KeyTypes, NEW c \in Calls, NEW b \in CallRecord, call' = [call EXCEPT ![c] = b]
    PROVE  /\ call' \in [Calls -> CallRecord] /\ call'[c] = b
           /\ \A d \in Calls : d # c => call'[d] = call[d]
  BY DEF KeyTypes

LEMMA CreateFollows ==
    ASSUME StoresInv, NEW t \in Tokens, NEW f \in Families, Create(t, f)
    PROVE  StoresInv'
<1>1. /\ state[t] = "unissued" /\ f \notin dead /\ (\A u \in Tokens : family[u] # f)
      /\ state' = [state EXCEPT ![t] = "valid"] /\ family' = [family EXCEPT ![t] = f]
      /\ UNCHANGED <<pred, dead, entry, index, call, uncovered>>
      /\ excused' = IF entry[t] = "missing" THEN excused \cup {t} ELSE excused
  BY DEF Create, CreateRefreshToken
<1>2. RowsInv'
  <2>1. TypeOK' /\ Unplaced' /\ InFamily'
    BY <1>1, SentinelAssumption DEF StoresInv, RowsInv, TypeOK, Unplaced, InFamily
  <2>2. FamilyRevoked'
    BY <1>1 DEF StoresInv, RowsInv, TypeOK, FamilyRevoked, Members, Present
  <2> QED  BY <2>1, <2>2 DEF RowsInv
<1>3. RowsOnward
  BY <1>1 DEF RowsOnward, StoresInv, RowsInv, TypeOK
<1>4. \A u \in Tokens : u # t => Row(u)' = Row(u)
  BY <1>1 DEF Row, Present, StoresInv, RowsInv, TypeOK
<1>5. entry[t] \in {"none", "missing"}
  BY <1>1 DEF StoresInv, KeysInv, Cached, KeyTypes
<1>6. excused \subseteq excused' /\ excused' \subseteq Tokens /\ call' \in [Calls -> CallRecord]
  BY <1>1 DEF StoresInv, KeyTypes
<1>7. \A d \in Calls : call'[d] = call[d]
  BY <1>1
<1>8. \A u \in Tokens : Row(u)' = Row(u) \/ entry[u] \in {"none", Row(u)'} \/ u \in excused'
  BY <1>1, <1>4, <1>5
<1> QED  BY <1>1, <1>2, <1>3, <1>6, <1>7, <1>8, StoreStepKeeps

\* A rotation, also one of a row rotated before: its keys are pending.
LEMMA SpendFollows ==
    ASSUME StoresInv, NEW c \in Calls, NEW t \in Tokens, NEW n \in Tokens, call[c].pc = "idle",
           Spend(t, n) \/ SpendAgain(t, n),
           call' = [call EXCEPT ![c] = [IdleCall EXCEPT !.pc = "drop", !.token = t, !.new = n]],
           UNCHANGED <<entry, index, uncovered, excused>>
    PROVE  StoresInv'
<1>1. /\ Present(t) /\ state[n] = "unissued" /\ t # n /\ state' \in [Tokens -> {"unissued", "valid", "rotated", "gone"}]
      /\ state'[t] = "rotated" /\ state'[n] = "valid"
      /\ \A u \in Tokens : u \notin {t, n} => state'[u] = state[u]
      /\ family' = [family EXCEPT ![n] = family[t]] /\ pred' = [pred EXCEPT ![n] = t] /\ dead' = dead
  BY DEF Spend, SpendAgain, Spendable, Present, StoresInv, RowsInv, TypeOK
<1>2. family[t] \in Families \ dead
  BY <1>1 DEF StoresInv, RowsInv, InFamily, FamilyRevoked, Members, Present
<1>3. RowsInv'
  <2>1. TypeOK' /\ Unplaced' /\ InFamily'
    BY <1>1, <1>2, SentinelAssumption DEF StoresInv, RowsInv, TypeOK, Unplaced, InFamily
  <2>2. FamilyRevoked'
    BY <1>1, <1>2 DEF StoresInv, RowsInv, TypeOK, FamilyRevoked, Members, Present
  <2> QED  BY <2>1, <2>2 DEF RowsInv
<1>4. RowsOnward
  BY <1>1 DEF RowsOnward, StoresInv, RowsInv, TypeOK
<1>5. PICK b : b = [IdleCall EXCEPT !.pc = "drop", !.token = t, !.new = n]
  OBVIOUS
<1>6. b \in CallRecord /\ b.pc = "drop" /\ b.token = t /\ b.new = n
  BY <1>5 DEF IdleCall, CallRecord, CallPc
<1>7. /\ call' \in [Calls -> CallRecord] /\ call'[c] = b
      /\ \A d \in Calls : d # c => call'[d] = call[d]
  BY <1>5, <1>6, CallBegins DEF StoresInv
<1>8. CallInv(c)'
  BY <1>6, <1>7 DEF CallInv
<1>9. Pending(c)' = {t, n}
  BY <1>6, <1>7 DEF Pending
<1>10. \A u \in Tokens : u \notin {t, n} => Row(u)' = Row(u)
  BY <1>1 DEF Row, Present
<1>11. excused' \subseteq Tokens
  BY DEF StoresInv, KeyTypes
<1> QED  BY <1>3, <1>4, <1>7, <1>8, <1>9, <1>10, <1>11, StoreStepKeeps

\* What deleting all the rows of a family does to the rows.
LEMMA DeleteFollows ==
    ASSUME StoresInv, NEW f \in Families, Delete(f, Members(f))
    PROVE  /\ RowsInv' /\ RowsOnward /\ f \in dead'
           /\ \A u \in Members(f) : Row(u)' = "missing"
           /\ \A u \in Tokens \ Members(f) : Row(u)' = Row(u)
           /\ UNCHANGED family
<1>1. PICK S : S = Members(f)
  OBVIOUS
<1>2. /\ state' = [u \in Tokens |-> IF u \in S THEN "gone" ELSE state[u]]
      /\ dead' = dead \cup {f} /\ UNCHANGED <<family, pred>>
  BY <1>1 DEF Delete
<1>3. S \subseteq Tokens /\ (\A u \in S : state[u] # "unissued" /\ family[u] = f)
      /\ \A u \in Tokens \ S : ~(Present(u) /\ family[u] = f)
  BY <1>1 DEF Members, Present
<1>4. TypeOK' /\ Unplaced' /\ InFamily'
  BY <1>2, <1>3 DEF StoresInv, RowsInv, TypeOK, Unplaced, InFamily
<1>5. FamilyRevoked'
  BY <1>2, <1>3 DEF StoresInv, RowsInv, TypeOK, FamilyRevoked, Members, Present
<1>6. RowsOnward
  BY <1>2 DEF RowsOnward
<1>7. /\ \A u \in S : Row(u)' = "missing"
      /\ \A u \in Tokens \ S : Row(u)' = Row(u)
  BY <1>2, <1>3 DEF Row, Present
<1> QED  BY <1>1, <1>2, <1>4, <1>5, <1>6, <1>7 DEF RowsInv

LEMMA ReuseFollows ==
    ASSUME StoresInv, NEW t \in Tokens, Reuse(t, Members(family[t])),
           excused' = excused \cup {u \in Members(family[t]) : Cached(u)},
           UNCHANGED <<entry, index, call, uncovered>>
    PROVE  StoresInv'
<1>1. family[t] \in Families /\ Delete(family[t], Members(family[t]))
  BY DEF Reuse, StoresInv, RowsInv, InFamily
<1>2. PICK f, S : f \in Families /\ f = family[t] /\ S = Members(f)
  BY <1>1
<1>3. /\ RowsInv' /\ RowsOnward
      /\ \A u \in S : Row(u)' = "missing"
      /\ \A u \in Tokens \ S : Row(u)' = Row(u)
  BY <1>1, <1>2, DeleteFollows
<1>4. excused \subseteq excused' /\ excused' \subseteq Tokens /\ call' \in [Calls -> CallRecord]
  BY DEF StoresInv, KeyTypes, Members
<1>5. \A u \in S : entry[u] \in {"none", "missing"} \/ u \in excused'
  BY <1>2 DEF StoresInv, KeyTypes, Cached, Members
<1>6. \A u \in Tokens : Row(u)' = Row(u) \/ entry[u] \in {"none", Row(u)'} \/ u \in excused'
  BY <1>3, <1>5
<1>7. \A d \in Calls : call'[d] = call[d]
  OBVIOUS
<1> QED  BY <1>3, <1>4, <1>6, <1>7, StoreStepKeeps

LEMMA RevokeFollows ==
    ASSUME StoresInv, NEW c \in Calls, NEW f \in Families, RevokeInner(c, f)
    PROVE  StoresInv'
<1>1. /\ call[c].pc = "idle" /\ Delete(f, Members(f)) /\ UNCHANGED <<entry, index, uncovered, excused>>
      /\ call' = [call EXCEPT ![c] = [IdleCall EXCEPT !.pc = "smembers", !.family = f]]
  BY DEF RevokeInner, RevokeRefreshTokenFamily
<1>2. PICK S : S = Members(f)
  OBVIOUS
<1>3. /\ RowsInv' /\ RowsOnward /\ f \in dead' /\ UNCHANGED family
      /\ \A u \in Tokens \ S : Row(u)' = Row(u)
  BY <1>1, <1>2, DeleteFollows
<1>4. PICK b : b = [IdleCall EXCEPT !.pc = "smembers", !.family = f]
  OBVIOUS
<1>5. b \in CallRecord /\ b.pc = "smembers" /\ b.family = f
  BY <1>4 DEF IdleCall, CallRecord, CallPc
<1>6. /\ call' \in [Calls -> CallRecord] /\ call'[c] = b
      /\ \A d \in Calls : d # c => call'[d] = call[d]
  BY <1>1, <1>4, <1>5, CallBegins DEF StoresInv
<1>7. CallInv(c)'
  BY <1>3, <1>5, <1>6 DEF CallInv
<1>8. \A u \in S : u \in Pending(c)'
  BY <1>2, <1>3, <1>5, <1>6 DEF Pending, Members
<1>9. excused' \subseteq Tokens
  BY <1>1 DEF StoresInv, KeyTypes
<1>10. \A u \in Tokens : Row(u)' = Row(u) \/ \E d \in Calls : u \in Pending(d)'
  BY <1>3, <1>8
<1> QED  BY <1>1, <1>3, <1>6, <1>7, <1>9, <1>10, StoreStepKeeps

LEMMA RotateFollows ==
    ASSUME StoresInv, NEW c \in Calls, NEW t \in Tokens, NEW n \in Tokens, Rotate(c, t, n)
    PROVE  StoresInv'
<1>1. call[c].pc = "idle" /\ UNCHANGED <<entry, index, uncovered>>
  BY DEF Rotate
<1>2. CASE /\ Spend(t, n) \/ SpendAgain(t, n)
           /\ call' = [call EXCEPT ![c] = [IdleCall EXCEPT !.pc = "drop", !.token = t, !.new = n]]
           /\ UNCHANGED excused
  BY <1>1, <1>2, SpendFollows
<1>3. CASE /\ Reuse(t, Members(family[t])) /\ UNCHANGED call
           /\ excused' = excused \cup {u \in Members(family[t]) : Cached(u)}
  BY <1>1, <1>3, ReuseFollows
<1> QED  BY <1>2, <1>3 DEF Rotate
-----------------------------------------------------------------------------
(* Calls of Redis                                                          *)

\* No entry appears for a dead family that is not excused.
EntriesOnward ==
    \A t \in Tokens : Cached(t)' =>
        \/ Cached(t) /\ (t \in excused => t \in excused')
        \/ t \in excused' \/ family[t] \notin dead

LEMMA KeyStepKeeps ==
    ASSUME StoresInv, UNCHANGED vars, KeyTypes', KeysInv', EntriesOnward,
           \A d \in Calls : call'[d] = call[d] \/ CallInv(d)',
           \A d \in Calls, t \in Tokens : t \in Pending(d) =>
               t \in Pending(d)' \/ t \in excused' \/ entry'[t] \in {"none", Row(t)},
           \A t \in Tokens :
               \/ entry'[t] \in {"none", Row(t)} \/ t \in excused'
               \/ entry'[t] = entry[t] /\ t \notin excused
    PROVE  StoresInv'
<1>1. RowsInv'
  BY DEF vars, StoresInv, RowsInv, TypeOK, Unplaced, InFamily, FamilyRevoked, Members, Present
<1>2. ASSUME NEW d \in Calls, call'[d] = call[d]  PROVE CallInv(d)'
  <2>1. CallInv(d) /\ UNCHANGED <<state, family, dead>>
    BY DEF StoresInv, vars
  <2>2. ASSUME call[d].pc = "sweep", NEW t \in Tokens, family[t] = call[d].family, Cached(t)'
        PROVE  t \in excused' \cup call[d].members
    BY <2>1, <2>2 DEF CallInv, EntriesOnward
  <2> QED  BY <1>2, <2>1, <2>2 DEF CallInv
<1>3. CacheFollows'
  <2> SUFFICES ASSUME NEW t \in Tokens
               PROVE  entry'[t] \in {"none", Row(t)'} \/ t \in excused' \/ \E c \in Calls : t \in Pending(c)'
    BY DEF CacheFollows
  <2>1. Row(t)' = Row(t)
    BY DEF vars, Row, Present
  <2>2. CASE entry'[t] = entry[t] /\ t \notin excused
    BY <2>1, <2>2 DEF StoresInv, CacheFollows
  <2> QED  BY <2>1, <2>2
<1> QED  BY <1>1, <1>2, <1>3 DEF StoresInv

\* A step of a lookup that leaves the entries alone.
LEMMA LookupStepKeeps ==
    ASSUME StoresInv, UNCHANGED <<vars, entry, excused>>, NEW c \in Calls,
           call[c].pc \notin {"drop", "smembers", "sweep"},
           call' \in [Calls -> CallRecord], \A d \in Calls : d # c => call'[d] = call[d],
           CallInv(c)',
           index' \in [Families -> SUBSET Tokens], uncovered' \subseteq uncovered,
           \A t \in Tokens : Cached(t) => t \in uncovered' \cup excused \cup index'[family[t]]
    PROVE  StoresInv'
<1>1. KeyTypes' /\ KeysInv' /\ EntriesOnward
  BY DEF StoresInv, KeyTypes, KeysInv, EntriesOnward, Cached, vars
<1>2. \A d \in Calls, t \in Tokens : t \in Pending(d) => t \in Pending(d)'
  BY DEF Pending, vars
<1>3. \A d \in Calls : call'[d] = call[d] \/ CallInv(d)'
  OBVIOUS
<1>4. \A t \in Tokens : t \in excused' \/ (entry'[t] = entry[t] /\ t \notin excused)
  OBVIOUS
<1> QED  BY <1>1, <1>2, <1>3, <1>4, KeyStepKeeps

\* What a call record becomes when a call goes on, or returns.
LEMMA CallMoves ==
    ASSUME KeyTypes, NEW c \in Calls, NEW l \in CallPc, Continue(c, l)
    PROVE  /\ call' \in [Calls -> CallRecord]
           /\ call'[c].pc = l /\ call'[c].token = call[c].token /\ call'[c].row = call[c].row
           /\ \A d \in Calls : d # c => call'[d] = call[d]
<1>1. call \in [Calls -> CallRecord]
  BY DEF KeyTypes
<1>2. [call[c] EXCEPT !.pc = l] \in CallRecord
  BY <1>1 DEF CallRecord
<1> QED  BY <1>1, <1>2 DEF Continue, CallRecord

LEMMA CallReturns ==
    ASSUME KeyTypes, NEW c \in Calls, Return(c)
    PROVE  /\ call' \in [Calls -> CallRecord] /\ call'[c].pc = "idle" /\ CallInv(c)'
           /\ \A d \in Calls : d # c => call'[d] = call[d]
<1>1. IdleCall \in CallRecord /\ IdleCall.pc = "idle"
  BY DEF IdleCall, CallRecord, CallPc
<1>2. /\ call' \in [Calls -> CallRecord] /\ call'[c] = IdleCall
      /\ \A d \in Calls : d # c => call'[d] = call[d]
  BY <1>1, CallBegins DEF Return
<1> QED  BY <1>1, <1>2 DEF CallInv

LEMMA FindFollows ==
    ASSUME StoresInv, NEW c \in Calls, NEW t \in Tokens, Find(c, t)
    PROVE  StoresInv'
<1>1. PICK b : b = [IdleCall EXCEPT !.pc = "find", !.token = t]
  OBVIOUS
<1>2. b \in CallRecord /\ b.pc = "find" /\ b.token = t
  BY <1>1 DEF IdleCall, CallRecord, CallPc
<1>3. /\ call' \in [Calls -> CallRecord] /\ call'[c] = b
      /\ \A d \in Calls : d # c => call'[d] = call[d]
  BY <1>1, <1>2, CallBegins DEF Find, StoresInv
<1>4. CallInv(c)'
  BY <1>2, <1>3 DEF CallInv
<1>5. /\ UNCHANGED <<vars, entry, index, uncovered, excused>>
      /\ call[c].pc \notin {"drop", "smembers", "sweep"}
      /\ index' \in [Families -> SUBSET Tokens] /\ uncovered' \subseteq uncovered
      /\ \A u \in Tokens : Cached(u) => u \in uncovered' \cup excused \cup index'[family[u]]
  BY DEF Find, StoresInv, KeyTypes, KeysInv
<1> QED  BY <1>3, <1>4, <1>5, LookupStepKeeps

LEMMA FindInnerFollows == ASSUME StoresInv, NEW c \in Calls, FindInner(c)  PROVE StoresInv'
<1>1. PICK t, row : t = call[c].token /\ row = Row(t)
  OBVIOUS
<1>2. t \in Tokens /\ row \in {"missing", "valid", "rotated"} /\ (row # "missing" => state[t] # "unissued")
  BY <1>1 DEF FindInner, StoresInv, CallInv, RowsInv, TypeOK, Row, Present
<1>3. /\ UNCHANGED <<vars, entry, index, uncovered, excused>>
      /\ call[c].pc \notin {"drop", "smembers", "sweep"}
      /\ index' \in [Families -> SUBSET Tokens] /\ uncovered' \subseteq uncovered
      /\ \A u \in Tokens : Cached(u) => u \in uncovered' \cup excused \cup index'[family[u]]
  BY DEF FindInner, StoresInv, KeyTypes, KeysInv
<1>4. CASE Return(c)
  BY <1>3, <1>4, CallReturns, LookupStepKeeps DEF StoresInv
<1>5. CASE call' = [call EXCEPT ![c].pc = "set", ![c].row = Row(call[c].token)]
  <2>1. call \in [Calls -> CallRecord]
    BY DEF StoresInv, KeyTypes
  <2>2. PICK b : b = [call[c] EXCEPT !.pc = "set", !.row = row]
    OBVIOUS
  <2>3. b \in CallRecord /\ b.pc = "set" /\ b.token = t /\ b.row = row
    BY <1>1, <1>2, <2>1, <2>2 DEF CallRecord, CallPc
  <2>4. call' = [call EXCEPT ![c] = b]
    BY <1>1, <1>5, <2>1, <2>2
  <2>5. /\ call' \in [Calls -> CallRecord] /\ call'[c] = b
        /\ \A d \in Calls : d # c => call'[d] = call[d]
    BY <2>3, <2>4, CallBegins DEF StoresInv
  <2>6. CallInv(c)'
    BY <1>2, <1>3, <2>3, <2>5 DEF CallInv, vars
  <2> QED  BY <1>3, <2>5, <2>6, LookupStepKeeps
<1> QED  BY <1>4, <1>5 DEF FindInner

\* The entry is what the row is now, or excused, whatever the family became.
LEMMA SetEntryFollows == ASSUME StoresInv, NEW c \in Calls, SetEntry(c)  PROVE StoresInv'
<1>1. PICK t, row : t = call[c].token /\ row = call[c].row
  OBVIOUS
<1>2. /\ call[c].pc = "set" /\ UNCHANGED <<vars, index>>
      /\ entry' = [entry EXCEPT ![t] = row]
      /\ uncovered' = IF row = "missing" THEN uncovered \ {t} ELSE uncovered \cup {t}
      /\ excused' = IF row = Row(t) THEN excused \ {t} ELSE excused \cup {t}
      /\ IF row = "missing" THEN Return(c) ELSE Continue(c, "sadd")
  BY <1>1 DEF SetEntry
<1>3. t \in Tokens /\ row \in {"missing", "valid", "rotated"} /\ (row # "missing" => state[t] # "unissued")
  BY <1>1, <1>2 DEF StoresInv, CallInv, KeyTypes, CallRecord
<1>4. /\ entry' \in [Tokens -> {"none", "missing", "valid", "rotated"}]
      /\ entry'[t] = row /\ \A u \in Tokens : u # t => entry'[u] = entry[u]
  BY <1>2, <1>3 DEF StoresInv, KeyTypes
<1>5. /\ call' \in [Calls -> CallRecord] /\ CallInv(c)'
      /\ \A d \in Calls : d # c => call'[d] = call[d]
  <2>1. CASE row = "missing"
    BY <1>2, <2>1, CallReturns DEF StoresInv
  <2>2. CASE row # "missing"
    <3>1. /\ call' \in [Calls -> CallRecord] /\ call'[c].pc = "sadd"
          /\ call'[c].token = t /\ call'[c].row = row
          /\ \A d \in Calls : d # c => call'[d] = call[d]
      BY <1>1, <1>2, <2>2, CallMoves DEF StoresInv, CallPc
    <3> QED  BY <1>2, <1>3, <2>2, <3>1 DEF CallInv, vars
  <2> QED  BY <2>1, <2>2
<1>6. /\ \A u \in Tokens : u # t => (u \in excused' <=> u \in excused) /\ (u \in uncovered' <=> u \in uncovered)
      /\ t \in uncovered' <=> row # "missing"
      /\ excused' \subseteq Tokens /\ uncovered' \subseteq Tokens
      /\ t \in excused' \/ row = Row(t)
  BY <1>2, <1>3 DEF StoresInv, KeyTypes
<1>7. KeyTypes'
  BY <1>2, <1>3, <1>4, <1>5, <1>6 DEF StoresInv, KeyTypes, Cached
<1>8. KeysInv'
  BY <1>2, <1>3, <1>4, <1>6 DEF StoresInv, KeysInv, Cached, vars
<1>9. EntriesOnward
  <2>1. row # "missing" /\ t \notin excused' => family[t] \notin dead
    BY <1>3, <1>6 DEF StoresInv, RowsInv, FamilyRevoked, Members, Row
  <2> QED  BY <1>3, <1>4, <1>6, <2>1 DEF EntriesOnward, Cached
<1>10. \A d \in Calls, u \in Tokens : u \in Pending(d) => u \in Pending(d)'
  BY <1>2, <1>5 DEF Pending, vars
<1>11. \A u \in Tokens :
           \/ entry'[u] \in {"none", Row(u)} \/ u \in excused'
           \/ entry'[u] = entry[u] /\ u \notin excused
  BY <1>4, <1>6
<1> QED  BY <1>2, <1>5, <1>7, <1>8, <1>9, <1>10, <1>11, KeyStepKeeps

LEMMA AddToIndexFollows == ASSUME StoresInv, NEW c \in Calls, AddToIndex(c)  PROVE StoresInv'
<1>1. PICK t : t = call[c].token
  OBVIOUS
<1>2. /\ call[c].pc = "sadd" /\ UNCHANGED <<vars, entry, uncovered, excused>>
      /\ index' = [index EXCEPT ![family[t]] = @ \cup {t}] /\ Continue(c, "expire")
  BY <1>1 DEF AddToIndex
<1>3. t \in Tokens /\ call[c].row # "missing" /\ state[t] # "unissued" /\ family[t] \in Families
  BY <1>1, <1>2 DEF StoresInv, CallInv, RowsInv, InFamily
<1>4. /\ call' \in [Calls -> CallRecord] /\ call'[c].pc = "expire"
      /\ call'[c].token = t /\ call'[c].row = call[c].row
      /\ \A d \in Calls : d # c => call'[d] = call[d]
  BY <1>1, <1>2, CallMoves DEF StoresInv, CallPc
<1>5. CallInv(c)'
  BY <1>2, <1>3, <1>4 DEF CallInv, vars
<1>6. /\ index' \in [Families -> SUBSET Tokens]
      /\ \A f \in Families : index[f] \subseteq index'[f]
  BY <1>2, <1>3 DEF StoresInv, KeyTypes
<1>7. \A u \in Tokens : Cached(u) => u \in uncovered' \cup excused \cup index'[family[u]]
  BY <1>2, <1>6 DEF StoresInv, KeysInv, RowsInv, InFamily
<1> QED  BY <1>2, <1>4, <1>5, <1>6, <1>7, LookupStepKeeps

LEMMA ExpireIndexFollows == ASSUME StoresInv, NEW c \in Calls, ExpireIndex(c)  PROVE StoresInv'
<1>1. PICK t : t = call[c].token
  OBVIOUS
<1>2. /\ call[c].pc = "expire" /\ UNCHANGED <<vars, entry, index, excused>> /\ Return(c)
      /\ uncovered' = IF t \in index[family[t]] THEN uncovered \ {t} ELSE uncovered
  BY <1>1 DEF ExpireIndex
<1>3. /\ call' \in [Calls -> CallRecord] /\ CallInv(c)'
      /\ \A d \in Calls : d # c => call'[d] = call[d]
  BY <1>2, CallReturns DEF StoresInv
<1>4. /\ index' \in [Families -> SUBSET Tokens] /\ uncovered' \subseteq uncovered
      /\ \A u \in Tokens : Cached(u) => u \in uncovered' \cup excused \cup index'[family[u]]
  BY <1>2 DEF StoresInv, KeyTypes, KeysInv
<1> QED  BY <1>2, <1>3, <1>4, LookupStepKeeps

\* What a DEL does to the keys.
LEMMA DropKeeps ==
    ASSUME StoresInv, NEW S, DropEntries(S), UNCHANGED vars,
           call' \in [Calls -> CallRecord], \A d \in Calls : call'[d] = call[d] \/ CallInv(d)',
           \A d \in Calls, t \in Tokens : t \in Pending(d) => t \in Pending(d)' \/ t \in S,
           index' \in [Families -> SUBSET Tokens],
           \A t \in Tokens : Cached(t) /\ t \notin S =>
               t \in uncovered \cup excused \cup index'[family[t]]
    PROVE  StoresInv'
<1>1. /\ entry' \in [Tokens -> {"none", "missing", "valid", "rotated"}]
      /\ \A t \in Tokens : entry'[t] = IF t \in S THEN "none" ELSE entry[t]
      /\ uncovered' = uncovered \ S /\ excused' = excused \ S
  BY DEF DropEntries, StoresInv, KeyTypes
<1>2. KeyTypes'
  BY <1>1 DEF StoresInv, KeyTypes, Cached
<1>3. KeysInv'
  BY <1>1 DEF StoresInv, KeysInv, Cached, vars
<1>4. EntriesOnward
  BY <1>1 DEF EntriesOnward, Cached
<1>5. \A d \in Calls, t \in Tokens : t \in Pending(d) => t \in Pending(d)' \/ entry'[t] = "none"
  BY <1>1
<1>6. \A t \in Tokens :
          \/ entry'[t] \in {"none", Row(t)} \/ t \in excused'
          \/ entry'[t] = entry[t] /\ t \notin excused
  BY <1>1
<1> QED  BY <1>2, <1>3, <1>4, <1>5, <1>6, KeyStepKeeps

LEMMA DropBothFollows == ASSUME StoresInv, NEW c \in Calls, DropBoth(c)  PROVE StoresInv'
<1>1. PICK S : S = KeysToDrop(c)
  OBVIOUS
<1>2. call[c].pc = "drop" /\ DropEntries(S) /\ Return(c) /\ UNCHANGED <<vars, index>>
  BY <1>1 DEF DropBoth
<1>3. /\ call' \in [Calls -> CallRecord] /\ CallInv(c)'
      /\ \A d \in Calls : d # c => call'[d] = call[d]
  BY <1>2, CallReturns DEF StoresInv
<1>4. \A d \in Calls, t \in Tokens : t \in Pending(d) => t \in Pending(d)' \/ t \in S
  BY <1>1, <1>2, <1>3 DEF Pending, KeysToDrop, vars
<1>5. /\ index' \in [Families -> SUBSET Tokens]
      /\ \A t \in Tokens : Cached(t) => t \in uncovered \cup excused \cup index'[family[t]]
  BY <1>2 DEF StoresInv, KeyTypes, KeysInv
<1> QED  BY <1>2, <1>3, <1>4, <1>5, DropKeeps

\* What SMEMBERS did not name is excused: its lookup is not at its EXPIRE, or
\* the entry was excused before.
LEMMA ReadIndexFollows == ASSUME StoresInv, NEW c \in Calls, ReadIndex(c)  PROVE StoresInv'
<1>1. PICK f, S : f = call[c].family /\ S = index[f]
  OBVIOUS
<1>2. /\ call[c].pc = "smembers" /\ UNCHANGED <<vars, entry, index, uncovered>>
      /\ call' = [call EXCEPT ![c].pc = "sweep", ![c].members = S]
      /\ excused' = excused \cup {t \in uncovered : family[t] = f}
  BY <1>1 DEF ReadIndex
<1>3. f \in dead /\ f \in Families /\ S \subseteq Tokens
  BY <1>1, <1>2 DEF StoresInv, CallInv, RowsInv, TypeOK, KeyTypes
<1>4. call \in [Calls -> CallRecord]
  BY DEF StoresInv, KeyTypes
<1>5. PICK b : b = [call[c] EXCEPT !.pc = "sweep", !.members = S]
  OBVIOUS
<1>6. b \in CallRecord /\ b.pc = "sweep" /\ b.family = f /\ b.members = S
  BY <1>1, <1>3, <1>4, <1>5 DEF CallRecord, CallPc
<1>7. call' = [call EXCEPT ![c] = b]
  BY <1>2, <1>4, <1>5
<1>8. /\ call' \in [Calls -> CallRecord] /\ call'[c] = b
      /\ \A d \in Calls : d # c => call'[d] = call[d]
  BY <1>6, <1>7, CallBegins DEF StoresInv
<1>9. \A t \in Tokens : family[t] = f /\ Cached(t) => t \in excused' \cup S
  BY <1>1, <1>2 DEF StoresInv, KeysInv
<1>10. CallInv(c)'
  <2>1. \A t \in Tokens : family'[t] = f /\ Cached(t)' => t \in excused' \cup S
    BY <1>2, <1>9 DEF Cached, vars
  <2>2. f \in dead'
    BY <1>2, <1>3 DEF vars
  <2> QED  BY <1>6, <1>8, <2>1, <2>2 DEF CallInv
<1>11. excused \subseteq excused' /\ excused' \subseteq Tokens
  BY <1>2 DEF StoresInv, KeyTypes
<1>12. KeyTypes' /\ KeysInv' /\ EntriesOnward
  BY <1>2, <1>8, <1>11 DEF StoresInv, KeyTypes, KeysInv, EntriesOnward, Cached, vars
<1>13. \A d \in Calls, t \in Tokens : t \in Pending(d) =>
           t \in Pending(d)' \/ t \in excused' \/ entry'[t] \in {"none", Row(t)}
  <2> SUFFICES ASSUME NEW d \in Calls, NEW t \in Tokens, t \in Pending(d)
               PROVE  t \in Pending(d)' \/ t \in excused' \/ entry'[t] \in {"none", Row(t)}
    OBVIOUS
  <2>1. CASE d # c
    BY <1>2, <1>8, <2>1 DEF Pending, vars
  <2>2. CASE d = c
    <3>1. family[t] = f
      BY <1>1, <1>2, <2>2 DEF Pending
    <3>2. CASE Cached(t)
      BY <1>6, <1>8, <1>9, <2>2, <3>1, <3>2 DEF Pending
    <3>3. CASE ~Cached(t)
      <4>1. Row(t) = "missing"
        BY <1>3, <3>1 DEF StoresInv, RowsInv, FamilyRevoked, Members, Row
      <4> QED  BY <1>2, <3>3, <4>1 DEF Cached, StoresInv, KeyTypes
    <3> QED  BY <3>2, <3>3
  <2> QED  BY <2>1, <2>2
<1> QED  BY <1>2, <1>8, <1>10, <1>11, <1>12, <1>13, KeyStepKeeps

\* The DEL of the set uncovers only entries that are excused.
LEMMA SweepFollows == ASSUME StoresInv, NEW c \in Calls, Sweep(c)  PROVE StoresInv'
<1>1. PICK f, S : f = call[c].family /\ S = call[c].members
  OBVIOUS
<1>2. /\ call[c].pc = "sweep" /\ DropEntries(S) /\ Return(c) /\ UNCHANGED vars
      /\ index' = [index EXCEPT ![f] = {}]
  BY <1>1 DEF Sweep
<1>3. /\ call' \in [Calls -> CallRecord] /\ CallInv(c)'
      /\ \A d \in Calls : d # c => call'[d] = call[d]
  BY <1>2, CallReturns DEF StoresInv
<1>4. \A d \in Calls, t \in Tokens : t \in Pending(d) => t \in Pending(d)' \/ t \in S
  BY <1>1, <1>2, <1>3 DEF Pending, vars
<1>5. /\ index' \in [Families -> SUBSET Tokens]
      /\ \A g \in Families : g # f => index'[g] = index[g]
  BY <1>2 DEF StoresInv, KeyTypes
<1>6. ASSUME NEW t \in Tokens, Cached(t), t \notin S
      PROVE  t \in uncovered \cup excused \cup index'[family[t]]
  <2>1. CASE family[t] = f
    BY <1>1, <1>2, <1>6, <2>1 DEF StoresInv, CallInv
  <2>2. CASE family[t] # f
    BY <1>5, <1>6, <2>2 DEF StoresInv, KeysInv, RowsInv, InFamily
  <2> QED  BY <2>1, <2>2
<1> QED  BY <1>2, <1>3, <1>4, <1>5, <1>6, DropKeeps

LEMMA CallFailsFollows == ASSUME StoresInv, NEW c \in Calls, CallFails(c)  PROVE StoresInv'
<1>1. /\ excused' = excused \cup {t \in Pending(c) : entry[t] # "none"} /\ Return(c)
      /\ UNCHANGED <<vars, entry, index, uncovered>>
  BY DEF CallFails
<1>2. /\ call' \in [Calls -> CallRecord] /\ CallInv(c)'
      /\ \A d \in Calls : d # c => call'[d] = call[d]
  BY <1>1, CallReturns DEF StoresInv
<1>3. Pending(c) \subseteq Tokens
  <2>1. CallInv(c) /\ call[c] \in CallRecord
    BY DEF StoresInv, KeyTypes
  <2> QED  BY <2>1 DEF Pending, CallInv, CallRecord
<1>4. excused \subseteq excused' /\ excused' \subseteq Tokens
  BY <1>1, <1>3 DEF StoresInv, KeyTypes
<1>5. KeyTypes' /\ KeysInv' /\ EntriesOnward
  BY <1>1, <1>2, <1>4 DEF StoresInv, KeyTypes, KeysInv, EntriesOnward, Cached, vars
<1>6. \A d \in Calls, t \in Tokens : t \in Pending(d) =>
          t \in Pending(d)' \/ t \in excused' \/ entry'[t] = "none"
  <2> SUFFICES ASSUME NEW d \in Calls, NEW t \in Tokens, t \in Pending(d)
               PROVE  t \in Pending(d)' \/ t \in excused' \/ entry'[t] = "none"
    OBVIOUS
  <2>1. CASE d = c
    BY <1>1, <2>1
  <2>2. CASE d # c
    BY <1>1, <1>2, <2>2 DEF Pending, vars
  <2> QED  BY <2>1, <2>2
<1> QED  BY <1>1, <1>2, <1>4, <1>5, <1>6, KeyStepKeeps

LEMMA EntryExpiresFollows == ASSUME StoresInv, NEW t \in Tokens, EntryExpires(t)  PROVE StoresInv'
<1>1. DropEntries({t}) /\ UNCHANGED <<vars, index, call>>
  BY DEF EntryExpires
<1>2. \A d \in Calls, u \in Tokens : u \in Pending(d) => u \in Pending(d)'
  BY <1>1 DEF Pending, vars
<1>3. /\ index' \in [Families -> SUBSET Tokens] /\ call' \in [Calls -> CallRecord]
      /\ \A u \in Tokens : Cached(u) => u \in uncovered \cup excused \cup index'[family[u]]
  BY <1>1 DEF StoresInv, KeyTypes, KeysInv
<1> QED  BY <1>1, <1>2, <1>3, DropKeeps

LEMMA IndexExpiresFollows == ASSUME StoresInv, NEW f \in Families, IndexExpires(f)  PROVE StoresInv'
<1>1. /\ \A t \in index[f] : Cached(t) => t \in uncovered
      /\ index' = [index EXCEPT ![f] = {}]
      /\ UNCHANGED <<vars, entry, call, uncovered, excused>>
  BY DEF IndexExpires
<1>2. index' \in [Families -> SUBSET Tokens] /\ \A g \in Families : g # f => index'[g] = index[g]
  BY <1>1 DEF StoresInv, KeyTypes
<1>3. KeyTypes' /\ EntriesOnward
  BY <1>1, <1>2 DEF StoresInv, KeyTypes, EntriesOnward, Cached
<1>4. KeysInv'
  BY <1>1, <1>2 DEF StoresInv, KeysInv, RowsInv, InFamily, Cached, vars
<1>5. \A d \in Calls, t \in Tokens : t \in Pending(d) => t \in Pending(d)'
  BY <1>1 DEF Pending, vars
<1>6. \A t \in Tokens : t \in excused' \/ (entry'[t] = entry[t] /\ t \notin excused)
  BY <1>1
<1> QED  BY <1>1, <1>3, <1>4, <1>5, <1>6, KeyStepKeeps
-----------------------------------------------------------------------------
LEMMA StoresInvNext == StoresInv /\ [DeploymentNext]_allVars => StoresInv'
<1> SUFFICES ASSUME StoresInv, [DeploymentNext]_allVars  PROVE StoresInv'
  OBVIOUS
<1>1. CASE UNCHANGED <<vars, storeVars>>
  <2>1. RowsInv'
    BY <1>1 DEF vars, StoresInv, RowsInv, TypeOK, Unplaced, InFamily, FamilyRevoked, Members, Present
  <2>2. KeyTypes' /\ KeysInv'
    BY <1>1 DEF vars, storeVars, StoresInv, KeyTypes, KeysInv, Cached
  <2>3. \A c \in Calls : CallInv(c)'
    BY <1>1 DEF vars, storeVars, StoresInv, CallInv, Cached
  <2>4. CacheFollows'
    BY <1>1 DEF vars, storeVars, StoresInv, CacheFollows, Row, Present, Pending
  <2> QED  BY <2>1, <2>2, <2>3, <2>4 DEF StoresInv
<1>2. CASE StoresNext
  <2>1. ASSUME NEW c \in Calls, CallStep(c)  PROVE StoresInv'
    BY <2>1, FindInnerFollows, SetEntryFollows, AddToIndexFollows, ExpireIndexFollows,
       DropBothFollows, ReadIndexFollows, SweepFollows, CallFailsFollows DEF CallStep
  <2>2. ASSUME NEW t \in Tokens, NEW f \in Families, Create(t, f)  PROVE StoresInv'
    BY <2>2, CreateFollows
  <2>3. ASSUME NEW c \in Calls, NEW t \in Tokens, Find(c, t)  PROVE StoresInv'
    BY <2>3, FindFollows
  <2>4. ASSUME NEW c \in Calls, NEW t \in Tokens, NEW n \in Tokens, Rotate(c, t, n)  PROVE StoresInv'
    BY <2>4, RotateFollows
  <2>5. ASSUME NEW c \in Calls, NEW f \in Families, RevokeInner(c, f)  PROVE StoresInv'
    BY <2>5, RevokeFollows
  <2>6. ASSUME NEW t \in Tokens, EntryExpires(t)  PROVE StoresInv'
    BY <2>6, EntryExpiresFollows
  <2>7. ASSUME NEW f \in Families, IndexExpires(f)  PROVE StoresInv'
    BY <2>7, IndexExpiresFollows
  <2> QED  BY <1>2, <2>1, <2>2, <2>3, <2>4, <2>5, <2>6, <2>7 DEF StoresNext
<1> QED  BY <1>1, <1>2 DEF DeploymentNext, allVars

\* A deployment starts its processes as Startup has it.
LEMMA DeploymentBoots == [DeploymentNext]_allVars => [BootNext]_bootVars
  BY DEF DeploymentNext, allVars, bootVars

DeploymentInv == StoresInv /\ BootInv /\ HonestInv

\* The inductive invariant of the deployment: its cache, its rows and its starts.
THEOREM DeploymentInvariance == DeploymentSpec => []DeploymentInv
<1>1. StoresInit => DeploymentInv
  BY StoresInvInit, BootInvInit, HonestInit DEF StoresInit, DeploymentInv
<1>2. DeploymentInv /\ [DeploymentNext]_allVars => DeploymentInv'
  BY StoresInvNext, DeploymentBoots, BootInvNext, HonestNext DEF DeploymentInv, BootInv
<1> QED  BY <1>1, <1>2, PTL DEF DeploymentSpec

\* Every variable of the deployment keeps its type.
THEOREM DeploymentTypeCorrect == DeploymentSpec => []StoresTypeOK
<1>1. DeploymentInv => StoresTypeOK
  BY DEF DeploymentInv, StoresInv, RowsInv, KeyTypes, CallRecord, BootInv, StoresTypeOK
<1> QED  BY <1>1, DeploymentInvariance, PTL

\* The cache says of a token what the store says, a running write has yet to
\* drop what it says, or one of the five excuses applies (redisCache).
THEOREM CacheFollowsStore == DeploymentSpec => []CacheFollows
<1>1. DeploymentInv => CacheFollows
  BY DEF DeploymentInv, StoresInv
<1> QED  BY <1>1, DeploymentInvariance, PTL

\* Nothing is left of a revoked family in sqliteTokenStore or memoryTokenStore,
\* also where the memory store rotates a rotated row once more.
THEOREM DeployedFamiliesRevoked == DeploymentSpec => []FamilyRevoked
<1>1. DeploymentInv => FamilyRevoked
  BY DEF DeploymentInv, StoresInv, RowsInv
<1> QED  BY <1>1, DeploymentInvariance, PTL

\* The processes of a deployment come up without a clash over a migration, and
\* their exit codes are honest.
THEOREM DeploymentStartsSafely == DeploymentSpec => [](StartupsSerialize /\ ExitCodeHonest)
<1>1. DeploymentInv => StartupsSerialize /\ ExitCodeHonest
  BY DEF DeploymentInv, BootInv, Migrated, StartupsSerialize, HonestInv, Accountable, ExitCodeHonest
<1> QED  BY <1>1, DeploymentInvariance, PTL
-----------------------------------------------------------------------------
(* sqliteTokenStore implements RefreshFamilies                             *)

LEMMA StoreFixed == [DeploymentNext]_allVars => store' = store
<1> SUFFICES ASSUME [DeploymentNext]_allVars  PROVE store' = store
  OBVIOUS
<1>1. CASE BootNext
  BY <1>1 DEF BootNext, Start, ImportSettled, Drained, Progress, TimedOut, Bootstrap, CreateTable,
     Lock, Read, Apply, Commit, InitFails, CreatePat, Close, Kill
<1>2. CASE UNCHANGED bootVars
  BY <1>2 DEF bootVars
<1> QED  BY <1>1, <1>2 DEF DeploymentNext, allVars

LEMMA SqliteStep == store = "sqlite" /\ [DeploymentNext]_allVars => [Next]_vars /\ store' = store
<1> SUFFICES ASSUME store = "sqlite", [DeploymentNext]_allVars  PROVE [Next]_vars /\ store' = store
  OBVIOUS
<1>1. CASE UNCHANGED <<vars, storeVars>> /\ (BootNext \/ UNCHANGED bootVars)
  BY <1>1, StoreFixed
<1>2. CASE StoresNext /\ UNCHANGED bootVars
  <2>1. ASSUME NEW c \in Calls, CallStep(c)  PROVE UNCHANGED vars
    BY <2>1 DEF CallStep, FindInner, SetEntry, AddToIndex, ExpireIndex, DropBoth, ReadIndex, Sweep,
       CallFails
  <2>2. ASSUME NEW t \in Tokens, NEW f \in Families, Create(t, f)  PROVE Next
    BY <2>2 DEF Create, Next
  <2>3. ASSUME NEW c \in Calls, NEW t \in Tokens, Find(c, t)  PROVE UNCHANGED vars
    BY <2>3 DEF Find
  <2>4. ASSUME NEW c \in Calls, NEW t \in Tokens, NEW n \in Tokens, Rotate(c, t, n)  PROVE Next
    <3>1. Members(family[t]) \in SUBSET Tokens
      BY DEF Members
    <3> QED  BY <2>4, <3>1 DEF Rotate, Next
  <2>5. ASSUME NEW c \in Calls, NEW f \in Families, RevokeInner(c, f)  PROVE Next
    <3>1. Members(f) \in SUBSET Tokens
      BY DEF Members
    <3> QED  BY <2>5, <3>1 DEF RevokeInner, Next
  <2>6. ASSUME NEW t \in Tokens, EntryExpires(t)  PROVE UNCHANGED vars
    BY <2>6 DEF EntryExpires
  <2>7. ASSUME NEW f \in Families, IndexExpires(f)  PROVE UNCHANGED vars
    BY <2>7 DEF IndexExpires
  <2> QED  BY <1>2, <2>1, <2>2, <2>3, <2>4, <2>5, <2>6, <2>7 DEF StoresNext, bootVars
<1> QED  BY <1>1, <1>2 DEF DeploymentNext, allVars

\* Over sqliteTokenStore the decorated store implements what a token store
\* promises: every step of the deployment is a step of RefreshFamilies, or none.
THEOREM SqliteImplementsFamilies == DeploymentSpec /\ store = "sqlite" => Spec
<1>1. StoresInit => Init
  BY DEF StoresInit
<1>2. store = "sqlite" /\ [DeploymentNext]_allVars => [Next]_vars /\ (store = "sqlite")'
  BY SqliteStep
<1> QED  BY <1>1, <1>2, PTL DEF DeploymentSpec, Spec

\* Hence no replay makes two good tokens of a family there, whatever the cache
\* still says of the old one (rotateRefreshToken).
THEOREM SqliteSpentOnce == DeploymentSpec => []SpentOnce
<1>1. [DeploymentNext]_allVars => (store = "sqlite" <=> (store = "sqlite")')
  BY StoreFixed
<1>2. OneValid => SpentOnce
  BY DEF SpentOnce
<1>3. ~(store = "sqlite") => SpentOnce
  BY DEF SpentOnce
<1> QED  BY <1>1, <1>2, <1>3, SqliteImplementsFamilies, OneValidToken, PTL DEF DeploymentSpec
=============================================================================
