------------------------------ MODULE PgRefresh ------------------------------
(***************************************************************************)
(* The refresh tokens of postgresTokenStore, statement by statement.       *)
(* rotateRefreshToken and revokeRefreshTokenFamily are transactions of     *)
(* several awaited statements; connections run them concurrently under     *)
(* PostgreSQL's default READ COMMITTED: a statement sees the rows          *)
(* committed when it starts, waits for row locks held by others, and then  *)
(* looks at the newest version of each row it waited for (external).       *)
(*                                                                         *)
(* It implements RefreshFamilies without Serial: a family revocation       *)
(* misses the row a concurrent rotation inserts after the DELETE started.  *)
(***************************************************************************)
EXTENDS FiniteSets

CONSTANTS
    Tokens, Families, NoToken, NoFamily,
    Conns,      \* connections of the pool (bounds the model)
    NoConn

ASSUME SentinelAssumption ==
    NoToken \notin Tokens /\ NoFamily \notin Families /\ NoConn \notin Conns

VARIABLES
    state, family, pred,  \* the committed rows, as in RefreshFamilies
    dead,                 \* families whose revocation committed
    lock,                 \* lock[t]: connection that holds the row lock of t
    tx,                   \* tx[c]: the transaction of connection c
    condemned             \* rows that a revocation reported as done had seen

vars == <<state, family, pred, dead, lock, tx, condemned>>

NoTx == [pc |-> "idle", tok |-> NoToken, new |-> NoToken, fam |-> NoFamily,
         seen |-> {}, todo |-> {}]

Tx == [pc: {"idle", "select", "write", "delete", "deleting", "commit"},
       tok: Tokens \cup {NoToken}, new: Tokens \cup {NoToken},
       fam: Families \cup {NoFamily}, seen: SUBSET Tokens, todo: SUBSET Tokens]

TypeOK ==
    /\ state \in [Tokens -> {"unissued", "valid", "rotated", "gone"}]
    /\ family \in [Tokens -> Families \cup {NoFamily}]
    /\ pred \in [Tokens -> Tokens \cup {NoToken}]
    /\ dead \subseteq Families
    /\ lock \in [Tokens -> Conns \cup {NoConn}]
    /\ tx \in [Conns -> Tx]
    /\ condemned \subseteq Tokens

Contract == INSTANCE RefreshFamilies WITH Serial <- FALSE

Present(t) == state[t] \in {"valid", "rotated"}
Members(f) == {t \in Tokens : Present(t) /\ family[t] = f}

Init == /\ Contract!Init
        /\ lock = [t \in Tokens |-> NoConn]
        /\ tx = [c \in Conns |-> NoTx]
        /\ condemned = {}

Free(t, c) == lock[t] \in {NoConn, c}
Released(c) == [t \in Tokens |-> IF lock[t] = c THEN NoConn ELSE lock[t]]
Unused(n) == state[n] = "unissued" /\ \A c \in Conns : tx[c].new # n

\* COMMIT or ROLLBACK: the locks go, and the connection returns to the pool.
End(c) == lock' = Released(c) /\ tx' = [tx EXCEPT ![c] = NoTx]

\* A single INSERT, outside any transaction.
CreateRefreshToken(t, f) ==
    /\ \A c \in Conns : tx[c].new # t
    /\ Contract!CreateRefreshToken(t, f)
    /\ UNCHANGED <<lock, tx, condemned>>
-----------------------------------------------------------------------------
(* rotateRefreshToken                                                      *)

\* BEGIN.  A client presents any token it was ever given.
RotateRefreshToken(c, t, n) ==
    /\ tx[c].pc = "idle"
    /\ state[t] # "unissued"
    /\ Unused(n) /\ n # t
    /\ tx' = [tx EXCEPT ![c] = [NoTx EXCEPT !.pc = "select", !.tok = t, !.new = n]]
    /\ UNCHANGED <<state, family, pred, dead, lock, condemned>>

\* Mutant: SELECT without FOR UPDATE.
SelectForUpdate_NoLock(c) ==
    LET t == tx[c].tok IN
    /\ tx[c].pc = "select"
    /\ \/ state[t] = "gone" /\ tx' = [tx EXCEPT ![c] = NoTx]
       \/ state[t] = "valid" /\ tx' = [tx EXCEPT ![c].pc = "write"]
       \/ state[t] = "rotated" /\ tx' = [tx EXCEPT ![c].pc = "delete", ![c].fam = family[t]]
    /\ UNCHANGED <<state, family, pred, dead, lock, condemned>>

\* Waits for the row lock and takes it; an absent row ends the transaction.
SelectForUpdate(c) ==
    LET t == tx[c].tok IN
    /\ tx[c].pc = "select"
    /\ \/ /\ state[t] = "gone"
          /\ tx' = [tx EXCEPT ![c] = NoTx]
          /\ UNCHANGED lock
       \/ /\ Present(t) /\ Free(t, c)
          /\ lock' = [lock EXCEPT ![t] = c]
          /\ IF state[t] = "rotated"
             THEN tx' = [tx EXCEPT ![c].pc = "delete", ![c].fam = family[t]]
             ELSE tx' = [tx EXCEPT ![c].pc = "write"]
    /\ UNCHANGED <<state, family, pred, dead, condemned>>

\* UPDATE ... rotated_at and INSERT, both invisible to others, then COMMIT.
CommitRotation(c) ==
    LET t == tx[c].tok
        n == tx[c].new
    IN
    /\ tx[c].pc = "write"
    /\ state' = [state EXCEPT ![t] = "rotated", ![n] = "valid"]
    /\ family' = [family EXCEPT ![n] = family[t]]
    /\ pred' = [pred EXCEPT ![n] = t]
    /\ End(c)
    /\ UNCHANGED <<dead, condemned>>
-----------------------------------------------------------------------------
(* DELETE ... WHERE family_id, in rotateRefreshToken's reuse path and in   *)
(* revokeRefreshTokenFamily                                                *)

\* BEGIN.  The caller knows the id of a family from a row of its login, there or
\* deleted since.
RevokeRefreshTokenFamily(c, f) ==
    /\ tx[c].pc = "idle"
    /\ \E t \in Tokens : family[t] = f
    /\ tx' = [tx EXCEPT ![c] = [NoTx EXCEPT !.pc = "delete", !.fam = f]]
    /\ UNCHANGED <<state, family, pred, dead, lock, condemned>>

\* The statement starts: it will visit the rows committed by now.
StartDelete(c) ==
    LET rows == Members(tx[c].fam) IN
    /\ tx[c].pc = "delete"
    /\ tx' = [tx EXCEPT ![c].pc = "deleting", ![c].seen = rows, ![c].todo = rows]
    /\ UNCHANGED <<state, family, pred, dead, lock, condemned>>

\* Each row is locked before it is deleted; one that another transaction
\* deleted meanwhile is passed over.
DeleteRow(c, t) ==
    /\ tx[c].pc = "deleting" /\ t \in tx[c].todo
    /\ Free(t, c)
    /\ lock' = IF Present(t) THEN [lock EXCEPT ![t] = c] ELSE lock
    /\ tx' = [tx EXCEPT ![c].todo = @ \ {t}]
    /\ UNCHANGED <<state, family, pred, dead, condemned>>

\* The rows c deletes: those of its snapshot it holds the lock of.
Deleted(c) == {t \in tx[c].seen : lock[t] = c /\ Present(t)}

\* Mutant: RefreshTokenReuseError is thrown inside the transaction, which
\* rolls the DELETE back.
CommitDelete_ThrowInside(c) ==
    /\ tx[c].pc = "deleting" /\ tx[c].todo = {}
    /\ condemned' = condemned \cup tx[c].seen
    /\ End(c)
    /\ UNCHANGED <<state, family, pred, dead>>

\* COMMIT; only then is RefreshTokenReuseError thrown, or the revocation done.
CommitDelete(c) ==
    /\ tx[c].pc = "deleting" /\ tx[c].todo = {}
    /\ state' = [t \in Tokens |-> IF t \in Deleted(c) THEN "gone" ELSE state[t]]
    /\ dead' = dead \cup {tx[c].fam}
    /\ condemned' = condemned \cup tx[c].seen
    /\ End(c)
    /\ UNCHANGED <<family, pred>>

\* A statement fails or exceeds statement_timeout, the deadlock detector picks
\* the transaction, or its process dies: ROLLBACK.
Rollback(c) ==
    /\ tx[c].pc # "idle"
    /\ End(c)
    /\ UNCHANGED <<state, family, pred, dead, condemned>>

Step(c) ==
    \/ SelectForUpdate(c) \/ CommitRotation(c) \/ StartDelete(c)
    \/ \E t \in Tokens : DeleteRow(c, t)
    \/ CommitDelete(c)

Next ==
    \/ \E t \in Tokens, f \in Families : CreateRefreshToken(t, f)
    \/ \E c \in Conns :
          \/ \E t, n \in Tokens : RotateRefreshToken(c, t, n)
          \/ \E f \in Families : RevokeRefreshTokenFamily(c, f)
          \/ Step(c)
          \/ Rollback(c)

Spec == Init /\ [][Next]_vars
-----------------------------------------------------------------------------
(* Properties                                                              *)

\* Every transaction takes effect as one step of RefreshFamilies, at its
\* COMMIT: the row lock spends a token once, and a DELETE takes a chain from
\* its start to the last row it saw.
ImplementsContract == Contract!Spec

\* What a revocation saw when its DELETE started is gone for good once it is
\* reported, RefreshTokenReuseError included, whatever ran concurrently.
RevocationDurable == \A t \in condemned : ~Present(t)

\* v0.2 6.1 and the comment in rotateRefreshToken: reuse revokes the entire family.
FamilyRevoked == \A f \in dead : Members(f) = {}
=============================================================================
