--------------------------- MODULE RefreshFamilies ---------------------------
(***************************************************************************)
(* What a token store promises about refresh tokens (spec v0.2 6.1): a     *)
(* token is spent once, its successor joins its family, and spending it    *)
(* again revokes the family.  With Serial this is sqliteTokenStore, whose  *)
(* calls are one BEGIN IMMEDIATE transaction each; without it a revocation *)
(* may miss the successors minted while it ran, which is what              *)
(* postgresTokenStore implements (PgRefresh).                              *)
(***************************************************************************)
EXTENDS FiniteSets

CONSTANTS
    Tokens,     \* refresh tokens that can ever be minted (bounds the model)
    Families,   \* family ids, one per login
    NoToken, NoFamily,
    Serial      \* FALSE when a revocation may miss a successor minted meanwhile

ASSUME SentinelAssumption == NoToken \notin Tokens /\ NoFamily \notin Families
ASSUME SerialAssumption == Serial \in BOOLEAN

VARIABLES
    state,    \* state[t]: "unissued", or the row's: "valid", "rotated", "gone"
    family,   \* family[t]: family_id of the row
    pred,     \* pred[t]: the token t replaced
    dead      \* families revoked, by reuse or by revokeRefreshTokenFamily

vars == <<state, family, pred, dead>>

Present(t) == state[t] \in {"valid", "rotated"}
Members(f) == {t \in Tokens : Present(t) /\ family[t] = f}

TypeOK ==
    /\ state \in [Tokens -> {"unissued", "valid", "rotated", "gone"}]
    /\ family \in [Tokens -> Families \cup {NoFamily}]
    /\ pred \in [Tokens -> Tokens \cup {NoToken}]
    /\ dead \subseteq Families

Init ==
    /\ state = [t \in Tokens |-> "unissued"]
    /\ family = [t \in Tokens |-> NoFamily]
    /\ pred = [t \in Tokens |-> NoToken]
    /\ dead = {}

\* The caller starts a family of its own for every login.
CreateRefreshToken(t, f) ==
    /\ state[t] = "unissued"
    /\ f \notin dead /\ \A u \in Tokens : family[u] # f
    /\ state' = [state EXCEPT ![t] = "valid"]
    /\ family' = [family EXCEPT ![t] = f]
    /\ UNCHANGED <<pred, dead>>

Spendable(t) == state[t] = "valid"

\* rotateRefreshToken of a token not rotated yet: its successor n joins the family.
Spend(t, n) ==
    /\ Spendable(t)
    /\ state[n] = "unissued"
    /\ state' = [state EXCEPT ![t] = "rotated", ![n] = "valid"]
    /\ family' = [family EXCEPT ![n] = family[t]]
    /\ pred' = [pred EXCEPT ![n] = t]
    /\ UNCHANGED dead

\* The rows one revocation of f may delete: all of them, or those of a chain up
\* to the last one the revocation saw.
Deletable(f, S) ==
    IF Serial THEN S = Members(f)
    ELSE /\ S \subseteq Members(f)
         /\ \A t \in S : pred[t] \in Members(f) => pred[t] \in S

\* Mutant: only rotated rows are deleted.
Delete_Rotated(f, S) ==
    /\ Deletable(f, S)
    /\ state' = [t \in Tokens |-> IF t \in S /\ state[t] = "rotated" THEN "gone" ELSE state[t]]
    /\ dead' = dead \cup {f}
    /\ UNCHANGED <<family, pred>>

Delete(f, S) ==
    /\ Deletable(f, S)
    /\ state' = [t \in Tokens |-> IF t \in S THEN "gone" ELSE state[t]]
    /\ dead' = dead \cup {f}
    /\ UNCHANGED <<family, pred>>

\* rotateRefreshToken of a rotated token: the family goes, the caller gets
\* RefreshTokenReuseError.
Reuse(t, S) ==
    /\ state[t] = "rotated"
    /\ t \in S
    /\ Delete(family[t], S)

RevokeRefreshTokenFamily(f, S) == Delete(f, S)

Next ==
    \/ \E t \in Tokens, f \in Families : CreateRefreshToken(t, f)
    \/ \E t, n \in Tokens : Spend(t, n)
    \/ \E t \in Tokens, S \in SUBSET Tokens : Reuse(t, S)
    \/ \E f \in Families, S \in SUBSET Tokens : RevokeRefreshTokenFamily(f, S)

Spec == Init /\ [][Next]_vars
-----------------------------------------------------------------------------
(* Properties                                                              *)

\* At any time at most one token of a family can be exchanged: a stolen token
\* and its successor are never both good (v0.1 13, refresh rotation).
OneValid ==
    \A t, u \in Tokens :
        state[t] = "valid" /\ state[u] = "valid" /\ family[t] = family[u] => t = u

\* Nothing is left of a revoked family, in particular not the successor the
\* thief or the victim got before the reuse.
FamilyRevoked == \A f \in dead : Members(f) = {}
=============================================================================
