--------------------------- MODULE PgRefreshProofs ---------------------------
(***************************************************************************)
(* Proofs about PgRefresh, for any number of tokens, families and          *)
(* connections: what a revocation saw stays deleted, and every transaction *)
(* is one step of RefreshFamilies.                                         *)
(*                                                                         *)
(* The invariant says what a transaction knows of the rows whose locks it  *)
(* holds, and that what a DELETE saw is closed under predecessors.  That a *)
(* family has one valid token then follows from the contract's steps.      *)
(***************************************************************************)
EXTENDS PgRefresh, TLAPS

Issued(t) == state[t] # "unissued"

\* A row that was inserted is in a family, and its predecessor was inserted;
\* only such a row can be locked.
RowsInv ==
    /\ \A t \in Tokens : lock[t] \in Conns => Issued(t)
    /\ \A t \in Tokens : Issued(t) => family[t] \in Families
    /\ \A t \in Tokens : pred[t] \in Tokens => Issued(pred[t])

\* No two transactions insert the same successor.
NewDistinct == \A c, d \in Conns : c # d /\ tx[c].new \in Tokens => tx[c].new # tx[d].new

SelectInv(c) ==
    tx[c].pc \in {"select", "write"} =>
        /\ tx[c].tok \in Tokens /\ Issued(tx[c].tok)
        /\ tx[c].new \in Tokens /\ ~Issued(tx[c].new)

\* The row to be rotated is valid as long as its lock is held.
WriteInv(c) == tx[c].pc = "write" => state[tx[c].tok] = "valid" /\ lock[tx[c].tok] = c

Closed(c) ==
    \A t \in tx[c].seen, u \in Tokens :
        pred[t] = u /\ family[u] = tx[c].fam /\ Present(u) => u \in tx[c].seen

\* A DELETE holds the lock of every row it is through with, unless the row is
\* gone.
DeleteInv(c) ==
    /\ tx[c].pc \in {"delete", "deleting"} => tx[c].fam \in Families
    /\ tx[c].pc = "deleting" =>
         /\ \A t \in tx[c].seen : Issued(t) /\ family[t] = tx[c].fam
         /\ \A t \in tx[c].seen : t \in tx[c].todo \/ lock[t] = c \/ state[t] = "gone"
         /\ Closed(c)

TxInv(c) == SelectInv(c) /\ WriteInv(c) /\ DeleteInv(c)

Condemned == \A t \in condemned : state[t] = "gone"

PgInv ==
    /\ TypeOK /\ RowsInv /\ NewDistinct /\ Condemned
    /\ \A c \in Conns : TxInv(c)

LEMMA PgInvInit == Init => PgInv
<1> SUFFICES ASSUME Init  PROVE PgInv
  OBVIOUS
<1> USE DEF Init, Contract!Init
<1>1. TypeOK
  BY DEF TypeOK, NoTx, Tx
<1>2. RowsInv /\ Condemned
  BY SentinelAssumption DEF RowsInv, Condemned, Issued
<1>3. NewDistinct
  BY SentinelAssumption DEF NewDistinct, NoTx
<1>4. \A c \in Conns : TxInv(c)
  BY DEF TxInv, SelectInv, WriteInv, DeleteInv, NoTx
<1> QED  BY <1>1, <1>2, <1>3, <1>4 DEF PgInv
-----------------------------------------------------------------------------
(* What a step leaves alone                                                *)

\* Rows only go forward, and keep their family and predecessor.
Forward ==
    \A t \in Tokens :
        /\ Issued(t) => Issued(t)' /\ family'[t] = family[t] /\ pred'[t] = pred[t]
        /\ Issued(t) /\ Present(t)' => Present(t)
        /\ state[t] = "gone" => state'[t] = "gone"

\* Transaction d does not move, nor does anything it has reserved or locked.
Spared(d) ==
    /\ tx'[d] = tx[d]
    /\ \A t \in Tokens : lock[t] = d => lock'[t] = d /\ state'[t] = state[t]
    /\ tx[d].pc \in {"select", "write"} => state'[tx[d].new] = state[tx[d].new]

LEMMA TxTyped ==
    ASSUME PgInv, NEW c \in Conns
    PROVE  tx[c] \in Tx /\ tx[c].seen \subseteq Tokens /\ tx[c].todo \subseteq Tokens
  BY DEF PgInv, TypeOK, Tx

LEMMA SparedKeeps ==
    ASSUME PgInv, Forward, NEW d \in Conns, Spared(d)
    PROVE  TxInv(d)'
<1>1. TxInv(d) /\ tx[d].seen \subseteq Tokens /\ tx'[d] = tx[d]
  BY TxTyped DEF PgInv, Spared
<1>2. SelectInv(d)'
  BY <1>1 DEF TxInv, SelectInv, Spared, Forward, Issued
<1>3. WriteInv(d)'
  BY <1>1 DEF TxInv, SelectInv, WriteInv, Spared
<1>4. CASE tx[d].pc = "deleting"
  <2>1. \A t \in tx[d].seen : Issued(t)' /\ family'[t] = tx[d].fam
    BY <1>1, <1>4 DEF TxInv, DeleteInv, Forward
  <2>2. \A t \in tx[d].seen : t \in tx[d].todo \/ lock'[t] = d \/ state'[t] = "gone"
    BY <1>1, <1>4 DEF TxInv, DeleteInv, Forward, Spared
  <2>3. Closed(d)'
    <3> SUFFICES ASSUME NEW t \in tx[d].seen, NEW u \in Tokens,
                        pred'[t] = u, family'[u] = tx[d].fam, Present(u)'
                 PROVE  u \in tx[d].seen
      BY <1>1 DEF Closed
    <3>1. t \in Tokens /\ pred[t] = u
      BY <1>1, <1>4 DEF TxInv, DeleteInv, Forward
    <3>2. Issued(u)
      BY <3>1 DEF PgInv, RowsInv
    <3>3. family[u] = tx[d].fam /\ Present(u)
      BY <3>2 DEF Forward
    <3> QED  BY <1>1, <1>4, <3>1, <3>3 DEF TxInv, DeleteInv, Closed
  <2> QED  BY <1>1, <1>2, <1>3, <1>4, <2>1, <2>2, <2>3 DEF TxInv, DeleteInv
<1>5. CASE tx[d].pc # "deleting"
  BY <1>1, <1>2, <1>3, <1>5 DEF TxInv, DeleteInv
<1> QED  BY <1>4, <1>5

\* A step that leaves the committed rows alone.
LEMMA QuietKeeps ==
    ASSUME PgInv, NEW c \in Conns, NEW b \in Tx, tx' = [tx EXCEPT ![c] = b],
           UNCHANGED <<state, family, pred, dead, condemned>>,
           lock' \in [Tokens -> Conns \cup {NoConn}],
           \A t \in Tokens : lock'[t] # lock[t] =>
               lock[t] \in {NoConn, c} /\ (Issued(t) \/ lock'[t] = NoConn),
           b.new \in Tokens => \A d \in Conns : d # c => tx[d].new # b.new,
           TxInv(c)'
    PROVE  PgInv'
<1>1. tx \in [Conns -> Tx]
  BY DEF PgInv, TypeOK
<1>2. tx'[c] = b /\ \A d \in Conns : d # c => tx'[d] = tx[d]
  BY <1>1
<1>3. TypeOK'
  BY <1>1 DEF PgInv, TypeOK
<1>4. RowsInv' /\ Condemned'
  BY SentinelAssumption DEF PgInv, RowsInv, Condemned, Issued
<1>5. NewDistinct'
  BY <1>2 DEF PgInv, NewDistinct
<1>6. Forward
  BY DEF Forward, Issued, Present
<1>7. ASSUME NEW d \in Conns, d # c  PROVE TxInv(d)'
  <2>1. Spared(d)
    BY <1>2, <1>7, SentinelAssumption DEF Spared
  <2> QED  BY <1>6, <2>1, SparedKeeps
<1> QED  BY <1>3, <1>4, <1>5, <1>7 DEF PgInv

LEMMA IdleTx == ASSUME NEW c \in Conns, tx'[c] = NoTx  PROVE TxInv(c)'
  BY DEF TxInv, SelectInv, WriteInv, DeleteInv, NoTx

\* A transaction that ends leaves the others as distinct as they were.
LEMMA EndDistinct ==
    ASSUME PgInv, NEW c \in Conns, tx' = [tx EXCEPT ![c] = NoTx]
    PROVE  /\ tx' \in [Conns -> Tx] /\ tx'[c] = NoTx /\ NewDistinct'
           /\ \A d \in Conns : d # c => tx'[d] = tx[d]
<1>1. tx \in [Conns -> Tx] /\ NoTx \in Tx
  BY DEF PgInv, TypeOK, Tx, NoTx
<1>2. tx'[c] = NoTx /\ \A d \in Conns : d # c => tx'[d] = tx[d]
  BY <1>1
<1>3. NewDistinct'
  BY <1>2, SentinelAssumption DEF PgInv, NewDistinct, NoTx
<1> QED  BY <1>1, <1>2, <1>3

\* ROLLBACK, or COMMIT of a transaction that found nothing.
LEMMA RollbackKeeps ==
    ASSUME PgInv, NEW c \in Conns, tx' = [tx EXCEPT ![c] = NoTx],
           lock' = Released(c) \/ lock' = lock,
           UNCHANGED <<state, family, pred, dead, condemned>>
    PROVE  PgInv'
<1>1. NoTx \in Tx /\ NoTx.new = NoToken
  BY DEF Tx, NoTx
<1>2. lock' \in [Tokens -> Conns \cup {NoConn}]
  BY DEF PgInv, TypeOK, Released
<1>3. \A t \in Tokens : lock'[t] # lock[t] => lock[t] \in {NoConn, c} /\ lock'[t] = NoConn
  BY DEF Released
<1>4. TxInv(c)'
  BY IdleTx, EndDistinct
<1> QED  BY <1>1, <1>2, <1>3, <1>4, QuietKeeps, SentinelAssumption
-----------------------------------------------------------------------------
(* The steps                                                               *)

LEMMA CreateKeeps ==
    ASSUME PgInv, NEW t \in Tokens, NEW f \in Families, CreateRefreshToken(t, f)
    PROVE  PgInv'
<1> USE DEF CreateRefreshToken, Contract!CreateRefreshToken
<1>1. ~Issued(t) /\ \A c \in Conns : tx[c].new # t
  BY DEF Issued
<1>2. TypeOK'
  BY DEF PgInv, TypeOK
<1>3. RowsInv' /\ Condemned' /\ NewDistinct'
  BY <1>1 DEF PgInv, TypeOK, RowsInv, Condemned, NewDistinct, Issued
<1>4. Forward
  BY <1>1 DEF PgInv, TypeOK, Forward, Issued, Present
<1>5. ASSUME NEW d \in Conns  PROVE TxInv(d)'
  <2>1. ASSUME NEW u \in Tokens, lock[u] = d  PROVE Issued(u)
    BY <2>1 DEF PgInv, RowsInv
  <2>2. \A u \in Tokens : u # t => state'[u] = state[u]
    BY DEF PgInv, TypeOK
  <2>3. Spared(d)
    BY <1>1, <2>1, <2>2 DEF Spared
  <2> QED  BY <1>4, <2>3, SparedKeeps
<1> QED  BY <1>2, <1>3, <1>5 DEF PgInv

\* BEGIN of a rotation or of a revocation.
LEMMA BeginKeeps ==
    ASSUME PgInv, NEW c \in Conns,
           \/ \E t, n \in Tokens : RotateRefreshToken(c, t, n)
           \/ \E f \in Families : RevokeRefreshTokenFamily(c, f)
    PROVE  PgInv'
<1>1. tx \in [Conns -> Tx] /\ lock \in [Tokens -> Conns \cup {NoConn}]
  BY DEF PgInv, TypeOK
<1>2. ASSUME NEW t \in Tokens, NEW n \in Tokens, RotateRefreshToken(c, t, n)  PROVE PgInv'
  <2> DEFINE b == [NoTx EXCEPT !.pc = "select", !.tok = t, !.new = n]
  <2>1. b \in Tx /\ b.pc = "select" /\ b.tok = t /\ b.new = n
    BY DEF NoTx, Tx
  <2>2. tx' = [tx EXCEPT ![c] = b] /\ UNCHANGED <<state, family, pred, dead, lock, condemned>>
    BY <1>2 DEF RotateRefreshToken
  <2>3. Issued(t) /\ ~Issued(n) /\ \A d \in Conns : tx[d].new # n
    BY <1>2 DEF RotateRefreshToken, Unused, Issued
  <2> HIDE DEF b
  <2>4. tx'[c] = b
    BY <1>1, <2>2
  <2>5. TxInv(c)'
    BY <2>1, <2>2, <2>3, <2>4 DEF TxInv, SelectInv, WriteInv, DeleteInv, Issued
  <2> QED  BY <1>1, <2>1, <2>2, <2>3, <2>5, QuietKeeps
<1>3. ASSUME NEW f \in Families, RevokeRefreshTokenFamily(c, f)  PROVE PgInv'
  <2> DEFINE b == [NoTx EXCEPT !.pc = "delete", !.fam = f]
  <2>1. b \in Tx /\ b.pc = "delete" /\ b.fam = f /\ b.new = NoToken
    BY DEF NoTx, Tx
  <2>2. tx' = [tx EXCEPT ![c] = b] /\ UNCHANGED <<state, family, pred, dead, lock, condemned>>
    BY <1>3 DEF RevokeRefreshTokenFamily
  <2> HIDE DEF b
  <2>3. tx'[c] = b
    BY <1>1, <2>2
  <2>4. TxInv(c)'
    BY <2>1, <2>3 DEF TxInv, SelectInv, WriteInv, DeleteInv
  <2> QED  BY <1>1, <2>1, <2>2, <2>4, QuietKeeps, SentinelAssumption
<1> QED  BY <1>2, <1>3

LEMMA SelectKeeps ==
    ASSUME PgInv, NEW c \in Conns, SelectForUpdate(c)
    PROVE  PgInv'
<1> DEFINE t == tx[c].tok
<1>1. /\ tx \in [Conns -> Tx] /\ lock \in [Tokens -> Conns \cup {NoConn}]
      /\ UNCHANGED <<state, family, pred, dead, condemned>>
  BY DEF PgInv, TypeOK, SelectForUpdate
<1>2. tx[c] \in Tx /\ tx[c].pc = "select" /\ t \in Tokens /\ Issued(t) /\ tx[c].new \in Tokens /\ ~Issued(tx[c].new)
  BY <1>1 DEF PgInv, TxInv, SelectInv, SelectForUpdate
<1>3. \A d \in Conns : d # c => tx[d].new # tx[c].new
  BY <1>2 DEF PgInv, NewDistinct
<1>4. CASE tx' = [tx EXCEPT ![c] = NoTx] /\ UNCHANGED lock
  BY <1>1, <1>4, RollbackKeeps
<1>5. ASSUME Present(t), Free(t, c), lock' = [lock EXCEPT ![t] = c],
             NEW b \in Tx, tx' = [tx EXCEPT ![c] = b], b.new = tx[c].new, TxInv(c)'
      PROVE  PgInv'
  <2>1. lock' \in [Tokens -> Conns \cup {NoConn}]
    BY <1>1, <1>5
  <2>2. \A u \in Tokens : lock'[u] # lock[u] => lock[u] \in {NoConn, c} /\ Issued(u)
    BY <1>1, <1>2, <1>5 DEF Free
  <2> QED  BY <1>1, <1>3, <1>5, <2>1, <2>2, QuietKeeps
<1>6. CASE Present(t) /\ Free(t, c) /\ lock' = [lock EXCEPT ![t] = c] /\ state[t] = "rotated"
  <2> DEFINE b == [tx[c] EXCEPT !.pc = "delete", !.fam = family[t]]
  <2>1. family[t] \in Families
    BY <1>2 DEF PgInv, RowsInv
  <2>2. tx' = [tx EXCEPT ![c] = b]
    BY <1>1, <1>6 DEF SelectForUpdate, Present
  <2>3. b \in Tx /\ b.pc = "delete" /\ b.fam = family[t] /\ b.new = tx[c].new
    BY <1>2, <2>1 DEF Tx
  <2> HIDE DEF b
  <2>4. tx'[c] = b
    BY <1>1, <2>2
  <2>5. TxInv(c)'
    BY <2>1, <2>3, <2>4 DEF TxInv, SelectInv, WriteInv, DeleteInv
  <2> QED  BY <1>5, <1>6, <2>2, <2>3, <2>5
<1>7. CASE Present(t) /\ Free(t, c) /\ lock' = [lock EXCEPT ![t] = c] /\ state[t] # "rotated"
  <2> DEFINE b == [tx[c] EXCEPT !.pc = "write"]
  <2>1. tx' = [tx EXCEPT ![c] = b]
    BY <1>1, <1>7 DEF SelectForUpdate, Present
  <2>2. b \in Tx /\ b.pc = "write" /\ b.tok = t /\ b.new = tx[c].new
    BY <1>2 DEF Tx
  <2> HIDE DEF b
  <2>3. tx'[c] = b /\ lock'[t] = c /\ state'[t] = "valid"
    BY <1>1, <1>2, <1>7, <2>1 DEF Present
  <2>4. TxInv(c)'
    BY <1>1, <1>2, <2>2, <2>3 DEF TxInv, SelectInv, WriteInv, DeleteInv, Issued
  <2> QED  BY <1>5, <1>7, <2>1, <2>2, <2>4
<1> QED  BY <1>4, <1>6, <1>7 DEF SelectForUpdate

LEMMA DeletingKeeps ==
    ASSUME PgInv, NEW c \in Conns, StartDelete(c) \/ \E t \in Tokens : DeleteRow(c, t)
    PROVE  PgInv'
<1>1. /\ tx \in [Conns -> Tx] /\ lock \in [Tokens -> Conns \cup {NoConn}] /\ tx[c] \in Tx
      /\ TxInv(c) /\ UNCHANGED <<state, family, pred, dead, condemned>>
  BY DEF PgInv, TypeOK, StartDelete, DeleteRow
<1>2. tx[c].new \in Tokens => \A d \in Conns : d # c => tx[d].new # tx[c].new
  BY DEF PgInv, NewDistinct
<1>3. CASE StartDelete(c)
  <2> DEFINE rows == Members(tx[c].fam)
             b == [tx[c] EXCEPT !.pc = "deleting", !.seen = rows, !.todo = rows]
  <2>1. rows \subseteq Tokens /\ \A t \in rows : Issued(t) /\ family[t] = tx[c].fam
    BY DEF Members, Present, Issued
  <2>2. tx' = [tx EXCEPT ![c] = b] /\ lock' = lock /\ tx[c].fam \in Families
    BY <1>1, <1>3 DEF StartDelete, TxInv, DeleteInv
  <2>3. b \in Tx /\ b.pc = "deleting" /\ b.seen = rows /\ b.todo = rows /\ b.fam = tx[c].fam /\ b.new = tx[c].new
    BY <1>1, <2>1 DEF Tx
  <2>4. \A u \in Tokens : family[u] = tx[c].fam /\ Present(u) => u \in rows
    BY DEF Members
  <2> HIDE DEF b, rows
  <2>5. tx'[c] = b
    BY <1>1, <2>2
  <2>6. TxInv(c)'
    BY <1>1, <2>1, <2>2, <2>3, <2>4, <2>5 DEF TxInv, SelectInv, WriteInv, DeleteInv, Closed, Issued, Present
  <2> QED  BY <1>1, <1>2, <2>2, <2>3, <2>6, QuietKeeps
<1>4. ASSUME NEW t \in Tokens, DeleteRow(c, t)  PROVE PgInv'
  <2> DEFINE b == [tx[c] EXCEPT !.todo = @ \ {t}]
  <2>1. tx' = [tx EXCEPT ![c] = b] /\ tx[c].pc = "deleting" /\ t \in tx[c].todo /\ Free(t, c)
        /\ lock' = IF Present(t) THEN [lock EXCEPT ![t] = c] ELSE lock
    BY <1>1, <1>4 DEF DeleteRow
  <2>2. b \in Tx /\ b.pc = "deleting" /\ b.seen = tx[c].seen /\ b.todo = tx[c].todo \ {t}
        /\ b.fam = tx[c].fam /\ b.new = tx[c].new
    BY <1>1, <2>1 DEF Tx
  <2> HIDE DEF b
  <2>3. tx'[c] = b
    BY <1>1, <2>1
  <2>4. lock' \in [Tokens -> Conns \cup {NoConn}]
    BY <1>1, <2>1
  <2>5. \A u \in Tokens : lock'[u] # lock[u] => lock[u] \in {NoConn, c} /\ Issued(u)
    BY <1>1, <2>1 DEF Free, Present, Issued
  <2>6. \A u \in Tokens : lock[u] = c => lock'[u] = c
    BY <1>1, <2>1
  <2>7. tx[c].seen \subseteq Tokens /\ \A u \in tx[c].seen : Issued(u) /\ family[u] = tx[c].fam
    BY <1>1, <2>1 DEF TxInv, DeleteInv, Tx
  <2>8. \A u \in tx[c].seen : u \in b.todo \/ lock'[u] = c \/ state[u] = "gone"
    <3>1. state[t] = "gone" \/ lock'[t] = c \/ t \notin tx[c].seen
      BY <1>1, <2>1, <2>7 DEF Present, Issued, PgInv, TypeOK
    <3> QED  BY <1>1, <2>1, <2>2, <2>6, <2>7, <3>1 DEF TxInv, DeleteInv
  <2>9. TxInv(c)'
    BY <1>1, <2>1, <2>2, <2>3, <2>7, <2>8 DEF TxInv, SelectInv, WriteInv, DeleteInv, Closed, Issued, Present
  <2> QED  BY <1>1, <1>2, <2>1, <2>2, <2>4, <2>5, <2>9, QuietKeeps
<1> QED  BY <1>3, <1>4

\* The rows a reported DELETE takes are those it saw and that are still there.
LEMMA DeletedRows ==
    ASSUME PgInv, NEW c \in Conns, CommitDelete(c)
    PROVE  /\ Deleted(c) = {t \in tx[c].seen : Present(t)}
           /\ tx[c].fam \in Families /\ Closed(c) /\ tx[c].seen \subseteq Tokens
           /\ \A t \in tx[c].seen : Issued(t) /\ family[t] = tx[c].fam
           /\ \A t \in Deleted(c) : lock[t] = c
           /\ \A t \in tx[c].seen : t \notin Deleted(c) => state[t] = "gone"
<1>1. TxInv(c) /\ tx[c].seen \subseteq Tokens /\ tx[c].pc = "deleting" /\ tx[c].todo = {}
  BY TxTyped DEF PgInv, CommitDelete
<1>2. \A t \in tx[c].seen : lock[t] = c \/ state[t] = "gone"
  BY <1>1 DEF TxInv, DeleteInv
<1>3. \A t \in tx[c].seen : Issued(t) /\ family[t] = tx[c].fam
  BY <1>1 DEF TxInv, DeleteInv
<1>4. \A t \in tx[c].seen : Present(t) \/ state[t] = "gone"
  BY <1>1, <1>3 DEF PgInv, TypeOK, Issued, Present
<1>5. Deleted(c) = {t \in tx[c].seen : Present(t)}
  BY <1>2 DEF Deleted, Present
<1> QED  BY <1>1, <1>2, <1>3, <1>4, <1>5 DEF TxInv, DeleteInv, Deleted

LEMMA CommitDeleteKeeps ==
    ASSUME PgInv, NEW c \in Conns, CommitDelete(c)
    PROVE  PgInv'
<1> DEFINE D == Deleted(c)
<1>1. /\ D \subseteq Tokens /\ \A t \in D : lock[t] = c /\ Present(t)
      /\ tx[c].seen \subseteq Tokens /\ tx[c].fam \in Families
      /\ \A t \in tx[c].seen : t \notin D => state[t] = "gone"
  BY DeletedRows
<1>2. /\ state' = [t \in Tokens |-> IF t \in D THEN "gone" ELSE state[t]]
      /\ dead' = dead \cup {tx[c].fam} /\ condemned' = condemned \cup tx[c].seen
      /\ lock' = Released(c) /\ tx' = [tx EXCEPT ![c] = NoTx] /\ UNCHANGED <<family, pred>>
  BY DEF CommitDelete, End
<1> HIDE DEF D
<1>3. tx' \in [Conns -> Tx] /\ tx'[c] = NoTx /\ NewDistinct' /\ \A d \in Conns : d # c => tx'[d] = tx[d]
  BY <1>2, EndDistinct
<1>4. TypeOK'
  BY <1>1, <1>2, <1>3 DEF PgInv, TypeOK, Released
<1>5. \A t \in Tokens : Issued(t) <=> Issued(t)'
  BY <1>1, <1>2 DEF Issued, Present
<1>6. RowsInv'
  BY <1>2, <1>5, SentinelAssumption DEF PgInv, RowsInv, Released
<1>7. Condemned'
  BY <1>1, <1>2 DEF PgInv, TypeOK, Condemned
<1>8. Forward
  BY <1>1, <1>2, <1>5 DEF Forward, Present
<1>9. ASSUME NEW d \in Conns, d # c  PROVE TxInv(d)'
  <2>1. \A t \in Tokens : lock[t] = d => lock'[t] = d /\ state'[t] = state[t]
    BY <1>1, <1>2, <1>9 DEF Released
  <2>2. ASSUME tx[d].pc \in {"select", "write"}  PROVE state'[tx[d].new] = state[tx[d].new]
    <3>1. tx[d].new \in Tokens /\ ~Issued(tx[d].new)
      BY <2>2 DEF PgInv, TxInv, SelectInv
    <3>2. tx[d].new \notin D
      BY <1>1, <3>1 DEF Issued, Present
    <3> QED  BY <1>2, <3>1, <3>2
  <2> QED  BY <1>3, <1>8, <1>9, <2>1, <2>2, SparedKeeps DEF Spared
<1>10. TxInv(c)'
  BY <1>3, IdleTx
<1> QED  BY <1>3, <1>4, <1>6, <1>7, <1>9, <1>10 DEF PgInv

LEMMA CommitRotationKeeps ==
    ASSUME PgInv, NEW c \in Conns, CommitRotation(c)
    PROVE  PgInv'
<1>0. PICK t \in Tokens, n \in Tokens : t = tx[c].tok /\ n = tx[c].new
  BY DEF PgInv, TxInv, SelectInv, CommitRotation
<1>1. t \in Tokens /\ n \in Tokens /\ state[t] = "valid" /\ ~Issued(n) /\ lock[t] = c /\ t # n
  BY <1>0 DEF PgInv, TxInv, SelectInv, WriteInv, CommitRotation, Issued
<1>2. /\ state' = [state EXCEPT ![t] = "rotated", ![n] = "valid"]
      /\ family' = [family EXCEPT ![n] = family[t]] /\ pred' = [pred EXCEPT ![n] = t]
      /\ lock' = Released(c) /\ tx' = [tx EXCEPT ![c] = NoTx] /\ UNCHANGED <<dead, condemned>>
  BY <1>0 DEF CommitRotation, End
<1>3. \A d \in Conns : d # c => tx[d].new # n
  BY <1>0, <1>1 DEF PgInv, NewDistinct
<1>4. tx' \in [Conns -> Tx] /\ tx'[c] = NoTx /\ NewDistinct' /\ \A d \in Conns : d # c => tx'[d] = tx[d]
  BY <1>2, EndDistinct
<1>5. TypeOK'
  BY <1>1, <1>2, <1>4 DEF PgInv, TypeOK, Released
<1>6. /\ state'[t] = "rotated" /\ state'[n] = "valid" /\ pred'[n] = t /\ family'[n] = family[t]
      /\ \A u \in Tokens : u # n => family'[u] = family[u] /\ pred'[u] = pred[u]
      /\ \A u \in Tokens \ {t, n} : state'[u] = state[u]
  BY <1>1, <1>2 DEF PgInv, TypeOK
<1>7. Forward
  BY <1>1, <1>6 DEF Forward, Issued, Present
<1>8. RowsInv'
  <2>1. \A u \in Tokens : lock'[u] \in Conns => lock[u] \in Conns
    BY <1>2, SentinelAssumption DEF Released
  <2>2. \A u \in Tokens : Issued(u)' => Issued(u) \/ u = n
    BY <1>1, <1>6 DEF Issued
  <2>3. family[t] \in Families
    BY <1>1 DEF PgInv, RowsInv, Issued
  <2>4. Issued(t)' /\ Issued(n)'
    BY <1>6 DEF Issued
  <2>5. \A u \in Tokens : lock'[u] \in Conns => Issued(u)'
    BY <1>7, <2>1 DEF PgInv, RowsInv, Forward
  <2>6. \A u \in Tokens : Issued(u)' => family'[u] \in Families
    BY <1>6, <2>2, <2>3 DEF PgInv, RowsInv
  <2>7. \A u, v \in Tokens : pred'[u] = v => Issued(v)'
    BY <1>6, <1>7, <2>4 DEF PgInv, RowsInv, Forward
  <2> QED  BY <2>5, <2>6, <2>7 DEF RowsInv, Issued
<1>9. Condemned'
  BY <1>1, <1>2, <1>6 DEF PgInv, TypeOK, Condemned, Issued
<1>10. ASSUME NEW d \in Conns, d # c  PROVE TxInv(d)'
  <2>1. ASSUME NEW u \in Tokens, lock[u] = d  PROVE lock'[u] = d /\ state'[u] = state[u]
    <3>1. Issued(u) /\ u # t /\ u # n
      <4>1. Issued(u)
        BY <2>1 DEF PgInv, RowsInv
      <4>2. u # t
        BY <1>1, <1>10, <2>1
      <4> QED  BY <1>1, <4>1, <4>2
    <3> QED  BY <1>2, <1>6, <1>10, <2>1, <3>1 DEF Released
  <2>2. ASSUME tx[d].pc \in {"select", "write"}  PROVE state'[tx[d].new] = state[tx[d].new]
    <3>1. tx[d].new \in Tokens /\ ~Issued(tx[d].new) /\ tx[d].new # n
      BY <1>3, <1>10, <2>2 DEF PgInv, TxInv, SelectInv
    <3>2. tx[d].new # t
      BY <1>1, <3>1 DEF Issued
    <3> QED  BY <1>6, <3>1, <3>2
  <2> QED  BY <1>4, <1>7, <1>10, <2>1, <2>2, SparedKeeps DEF Spared
<1>11. TxInv(c)'
  BY <1>4, IdleTx
<1> QED  BY <1>4, <1>5, <1>8, <1>9, <1>10, <1>11 DEF PgInv
-----------------------------------------------------------------------------
LEMMA PgInvNext == PgInv /\ [Next]_vars => PgInv'
<1> SUFFICES ASSUME PgInv, [Next]_vars  PROVE PgInv'
  OBVIOUS
<1>1. ASSUME NEW t \in Tokens, NEW f \in Families, CreateRefreshToken(t, f)  PROVE PgInv'
  BY <1>1, CreateKeeps
<1>2. ASSUME NEW c \in Conns,
             \/ \E t, n \in Tokens : RotateRefreshToken(c, t, n)
             \/ \E f \in Families : RevokeRefreshTokenFamily(c, f)
      PROVE  PgInv'
  BY <1>2, BeginKeeps
<1>3. ASSUME NEW c \in Conns, Step(c)  PROVE PgInv'
  BY <1>3, SelectKeeps, CommitRotationKeeps, DeletingKeeps, CommitDeleteKeeps DEF Step
<1>4. ASSUME NEW c \in Conns, Rollback(c)  PROVE PgInv'
  BY <1>4, RollbackKeeps DEF Rollback, End
<1>5. CASE UNCHANGED vars
  <2>1. TypeOK' /\ RowsInv' /\ NewDistinct' /\ Condemned'
    BY <1>5 DEF vars, PgInv, TypeOK, RowsInv, NewDistinct, Condemned, Issued
  <2>2. \A c \in Conns : TxInv(c)'
    BY <1>5 DEF vars, PgInv, TxInv, SelectInv, WriteInv, DeleteInv, Closed, Issued, Present
  <2> QED  BY <2>1, <2>2 DEF PgInv
<1> QED  BY <1>1, <1>2, <1>3, <1>4, <1>5 DEF Next

\* Every state of postgresTokenStore's tables, locks and transactions is well
\* typed.
THEOREM PgTypeCorrect == Spec => []TypeOK
<1>1. PgInv => TypeOK
  BY DEF PgInv
<1> QED  BY <1>1, PgInvInit, PgInvNext, PTL DEF Spec

\* What a revocation saw when its DELETE started is gone for good once the
\* revocation is reported, whatever ran concurrently.
THEOREM RevocationsAreDurable == Spec => []RevocationDurable
<1>1. PgInv => RevocationDurable
  BY DEF PgInv, Condemned, RevocationDurable, Present
<1> QED  BY <1>1, PgInvInit, PgInvNext, PTL DEF Spec
-----------------------------------------------------------------------------
(* The refinement                                                          *)

\* The COMMIT of a rotation is Spend: its row lock kept the token valid.
LEMMA RotationIsSpend ==
    ASSUME PgInv, NEW c \in Conns, CommitRotation(c)
    PROVE  \E t, n \in Tokens : Contract!Spend(t, n)
<1>1. PICK t \in Tokens, n \in Tokens : t = tx[c].tok /\ n = tx[c].new
  BY DEF PgInv, TxInv, SelectInv, CommitRotation
<1>2. state[t] = "valid" /\ state[n] = "unissued"
  BY <1>1 DEF PgInv, TxInv, SelectInv, WriteInv, CommitRotation, Issued
<1>3. Contract!Spend(t, n)
  BY <1>1, <1>2 DEF CommitRotation, Contract!Spend, Contract!Spendable
<1> QED  BY <1>3

\* The COMMIT of a DELETE takes its family's rows up to the last one it saw,
\* with their predecessors.
LEMMA DeleteIsRevocation ==
    ASSUME PgInv, NEW c \in Conns, CommitDelete(c)
    PROVE  \E f \in Families, S \in SUBSET Tokens : Contract!RevokeRefreshTokenFamily(f, S)
<1> DEFINE f == tx[c].fam
           S == Deleted(c)
<1>1. /\ S = {t \in tx[c].seen : Present(t)} /\ f \in Families /\ tx[c].seen \subseteq Tokens
      /\ Closed(c) /\ \A t \in tx[c].seen : family[t] = f
  BY DeletedRows
<1>2. /\ state' = [t \in Tokens |-> IF t \in S THEN "gone" ELSE state[t]]
      /\ dead' = dead \cup {f} /\ UNCHANGED <<family, pred>>
  BY DEF CommitDelete
<1>3. f = tx[c].fam
  OBVIOUS
<1> HIDE DEF f, S
<1>4. S \in SUBSET Tokens /\ S \subseteq Contract!Members(f)
  BY <1>1 DEF Contract!Members, Contract!Present, Present
<1>5. ASSUME NEW t \in S, pred[t] \in Contract!Members(f)  PROVE pred[t] \in S
  <2>1. pred[t] \in Tokens /\ Present(pred[t]) /\ family[pred[t]] = f
    BY <1>5 DEF Contract!Members, Contract!Present, Present
  <2> QED  BY <1>1, <1>3, <2>1 DEF Closed
<1>6. Contract!RevokeRefreshTokenFamily(f, S)
  BY <1>2, <1>4, <1>5
  DEF Contract!RevokeRefreshTokenFamily, Contract!Delete, Contract!Deletable
<1> QED  BY <1>1, <1>4, <1>6

LEMMA StepRefines == PgInv /\ [Next]_vars => [Contract!Next]_(Contract!vars)
<1> SUFFICES ASSUME PgInv, [Next]_vars  PROVE Contract!Next \/ UNCHANGED Contract!vars
  OBVIOUS
<1>1. ASSUME NEW t \in Tokens, NEW f \in Families, CreateRefreshToken(t, f)
      PROVE  Contract!Next
  BY <1>1 DEF CreateRefreshToken, Contract!Next
<1>2. ASSUME NEW c \in Conns, CommitRotation(c)  PROVE Contract!Next
  BY <1>2, RotationIsSpend DEF Contract!Next
<1>3. ASSUME NEW c \in Conns, CommitDelete(c)  PROVE Contract!Next
  BY <1>3, DeleteIsRevocation DEF Contract!Next
<1>4. ASSUME NEW c \in Conns,
             \/ \E t, n \in Tokens : RotateRefreshToken(c, t, n)
             \/ \E f \in Families : RevokeRefreshTokenFamily(c, f)
             \/ SelectForUpdate(c) \/ StartDelete(c) \/ (\E t \in Tokens : DeleteRow(c, t))
             \/ Rollback(c)
      PROVE  UNCHANGED Contract!vars
  BY <1>4 DEF RotateRefreshToken, RevokeRefreshTokenFamily, SelectForUpdate, StartDelete,
              DeleteRow, Rollback, Contract!vars
<1>5. CASE UNCHANGED vars
  BY <1>5 DEF vars, Contract!vars
<1> QED  BY <1>1, <1>2, <1>3, <1>4, <1>5 DEF Next, Step

\* postgresTokenStore implements the families without Serial: every
\* transaction takes effect at once, at its COMMIT.
THEOREM RowsImplementContract == Spec => ImplementsContract
<1>1. Init => Contract!Init
  BY DEF Init
<1> QED  BY <1>1, PgInvInit, PgInvNext, StepRefines, PTL DEF Spec, ImplementsContract, Contract!Spec
-----------------------------------------------------------------------------
(* What the contract gives: a family has one valid token                   *)

\* A row that was never inserted is in no family.
Unborn == \A t \in Tokens : ~Issued(t) => family[t] \notin Families

OneInv == RowsInv /\ Unborn /\ Contract!OneValid

\* A login's token starts a family no row is in, and a rotation's takes the
\* place of the only valid one.
LEMMA OneInvNext ==
    ASSUME OneInv, TypeOK, RowsInv', [Contract!Next]_(Contract!vars)
    PROVE  OneInv'
<1>1. ASSUME NEW t \in Tokens, NEW f \in Families, Contract!CreateRefreshToken(t, f)
      PROVE  Unborn' /\ Contract!OneValid'
  <2>1. /\ state'[t] = "valid" /\ family'[t] = f
        /\ \A u \in Tokens \ {t} : state'[u] = state[u] /\ family'[u] = family[u] /\ family[u] # f
    BY <1>1 DEF TypeOK, Contract!CreateRefreshToken
  <2>2. Unborn'
    BY <2>1 DEF OneInv, Unborn, Issued
  <2>3. Contract!OneValid'
    BY <2>1 DEF OneInv, Contract!OneValid
  <2> QED  BY <2>2, <2>3
<1>2. ASSUME NEW t \in Tokens, NEW n \in Tokens, Contract!Spend(t, n)
      PROVE  Unborn' /\ Contract!OneValid'
  <2>1. /\ state[t] = "valid" /\ state[n] = "unissued" /\ t # n
        /\ state'[t] = "rotated" /\ state'[n] = "valid" /\ family'[n] = family[t]
        /\ \A u \in Tokens \ {t, n} : state'[u] = state[u]
        /\ \A u \in Tokens \ {n} : family'[u] = family[u]
    BY <1>2 DEF TypeOK, Contract!Spend, Contract!Spendable
  <2>2. Unborn'
    BY <2>1 DEF OneInv, Unborn, Issued
  <2>3. ASSUME NEW u \in Tokens, state'[u] = "valid", u # n  PROVE family'[u] # family'[n]
    <3>1. u # t /\ state[u] = "valid" /\ family'[u] = family[u]
      BY <2>1, <2>3
    <3> QED  BY <2>1, <3>1 DEF OneInv, Contract!OneValid
  <2>4. ASSUME NEW u \in Tokens \ {n}, state'[u] = "valid"
        PROVE  state[u] = "valid" /\ family'[u] = family[u]
    BY <2>1, <2>4
  <2>5. Contract!OneValid'
    BY <2>3, <2>4 DEF OneInv, Contract!OneValid
  <2> QED  BY <2>2, <2>5
<1>3. ASSUME NEW f, NEW S \in SUBSET Tokens, Contract!Delete(f, S)
      PROVE  Unborn' /\ Contract!OneValid'
  <2>1. /\ \A u \in Tokens : state'[u] = state[u] \/ state'[u] = "gone"
        /\ family' = family
    BY <1>3 DEF TypeOK, Contract!Delete
  <2>2. Unborn'
    BY <2>1 DEF OneInv, Unborn, Issued
  <2>3. Contract!OneValid'
    BY <2>1 DEF OneInv, Contract!OneValid
  <2> QED  BY <2>2, <2>3
<1>4. CASE UNCHANGED Contract!vars
  BY <1>4 DEF OneInv, Unborn, Issued, Contract!OneValid, Contract!vars
<1> QED
  BY <1>1, <1>2, <1>3, <1>4
  DEF OneInv, Contract!Next, Contract!Reuse, Contract!RevokeRefreshTokenFamily

\* At most one token of a family can be exchanged, whatever transactions the
\* connections run at once: of two rotations of one token, one waits for the
\* row lock and then finds it rotated.
THEOREM RowsOneValid == Spec => []Contract!OneValid
<1>1. Init => OneInv
  <2> SUFFICES ASSUME Init  PROVE OneInv
    OBVIOUS
  <2>1. \A t \in Tokens : state[t] = "unissued" /\ family[t] = NoFamily
    BY DEF Init, Contract!Init
  <2> QED  BY <2>1, PgInvInit, SentinelAssumption DEF OneInv, PgInv, Unborn, Issued, Contract!OneValid
<1>2. PgInv /\ OneInv /\ [Next]_vars => OneInv'
  <2>1. PgInv => TypeOK /\ RowsInv
    BY DEF PgInv
  <2> QED  BY <2>1, PgInvNext, StepRefines, OneInvNext DEF PgInv
<1>3. OneInv => Contract!OneValid
  BY DEF OneInv
<1> QED  BY <1>1, <1>2, <1>3, PgInvInit, PgInvNext, PTL DEF Spec
=============================================================================
