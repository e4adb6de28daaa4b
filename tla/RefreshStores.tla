---------------------------- MODULE RefreshStores ----------------------------
(***************************************************************************)
(* redisCache's refresh-token paths over sqliteTokenStore or               *)
(* memoryTokenStore, in the processes that Startup brought up.  Two kinds  *)
(* of Redis keys: the hash key of a token, with its row or the negative    *)
(* sentinel, and the set of a family, with the hash keys to drop when the  *)
(* family is revoked.                                                      *)
(*                                                                         *)
(* The rows are RefreshFamilies'; a call of the inner store is one step of *)
(* them.  Every await of the decorator is a step, any may throw, and Redis *)
(* forgets a key when its EX runs out.  All processes share one hmacKey    *)
(* (RedisPatCache has the case where they do not); the memory store's      *)
(* calls are those of one process.                                         *)
(***************************************************************************)
EXTENDS RefreshFamilies, Startup

CONSTANTS
    Calls,       \* slots for concurrent calls of the decorated store
    Negative     \* the stores decorated with negativeCacheTtlSeconds set

ASSUME StoresAssumption == Negative \subseteq {"memory", "sqlite"}

VARIABLES
    entry,      \* entry[t]: the value under t's hash key
    index,      \* index[f]: the set of family f
    call,       \* call[c]: where the call in slot c stands
    uncovered,  \* history: entries set and not yet covered by index and EXPIRE
    excused     \* history: entries that may be stale, see CacheFollows

storeVars == <<entry, index, call, uncovered, excused>>
allVars == <<vars, bootVars, storeVars>>

IdleCall == [pc |-> "idle", token |-> NoToken, new |-> NoToken, family |-> NoFamily,
             row |-> "missing", members |-> {}]

CallPc == {"idle", "find", "set", "sadd", "expire", "drop", "smembers", "sweep"}

\* A row as findRefreshToken of the inner store returns it.
Row(t) == IF Present(t) THEN state[t] ELSE "missing"

Cached(t) == entry[t] \in {"valid", "rotated"}

StoresTypeOK ==
    /\ TypeOK /\ BootTypeOK
    /\ entry \in [Tokens -> {"none", "missing", "valid", "rotated"}]
    /\ index \in [Families -> SUBSET Tokens]
    /\ call \in [Calls -> [pc: CallPc, token: Tokens \cup {NoToken}, new: Tokens \cup {NoToken},
                           family: Families \cup {NoFamily},
                           row: {"missing", "valid", "rotated"}, members: SUBSET Tokens]]
    /\ uncovered \subseteq Tokens /\ excused \subseteq Tokens
    /\ \A t \in Tokens : t \in uncovered => Cached(t)

StoresInit ==
    /\ Init /\ BootInit
    /\ entry = [t \in Tokens |-> "none"]
    /\ index = [f \in Families |-> {}]
    /\ call = [c \in Calls |-> IdleCall]
    /\ uncovered = {} /\ excused = {}

Continue(c, l) == call' = [call EXCEPT ![c].pc = l]
Return(c) == call' = [call EXCEPT ![c] = IdleCall]

\* DEL of the hash keys of S.
DropEntries(S) ==
    /\ entry' = [t \in Tokens |-> IF t \in S THEN "none" ELSE entry[t]]
    /\ uncovered' = uncovered \ S
    /\ excused' = excused \ S
\* Tokens are minted in a fixed order: which one comes next makes no difference.
Fresh(t) == state[t] = "unissued" /\ t = CHOOSE u \in Tokens : state[u] = "unissued"
-----------------------------------------------------------------------------
(* findRefreshToken                                                        *)

\* GET: an entry is the answer; without one the inner store is asked.
Find(c, t) ==
    /\ call[c].pc = "idle" /\ entry[t] = "none"
    /\ state[t] # "unissued" \/ Fresh(t)
    /\ call' = [call EXCEPT ![c] = [IdleCall EXCEPT !.pc = "find", !.token = t]]
    /\ UNCHANGED <<vars, entry, index, uncovered, excused>>

\* inner.findRefreshToken; a missing row is cached only with negative entries.
FindInner(c) ==
    LET t == call[c].token IN
    /\ call[c].pc = "find"
    /\ IF Row(t) = "missing" /\ store \notin Negative THEN Return(c)
       ELSE call' = [call EXCEPT ![c].pc = "set", ![c].row = Row(t)]
    /\ UNCHANGED <<vars, entry, index, uncovered, excused>>

\* setPositive or setNegative.  A row read before a write that is over by now
\* is excused.
SetEntry(c) ==
    LET t == call[c].token
        row == call[c].row
    IN
    /\ call[c].pc = "set"
    /\ entry' = [entry EXCEPT ![t] = row]
    /\ uncovered' = IF row = "missing" THEN uncovered \ {t} ELSE uncovered \cup {t}
    /\ excused' = IF row = Row(t) THEN excused \ {t} ELSE excused \cup {t}
    /\ IF row = "missing" THEN Return(c) ELSE Continue(c, "sadd")
    /\ UNCHANGED <<vars, index>>

\* SADD of the hash key to the set of the family.
AddToIndex(c) ==
    LET t == call[c].token IN
    /\ call[c].pc = "sadd"
    /\ index' = [index EXCEPT ![family[t]] = @ \cup {t}]
    /\ Continue(c, "expire")
    /\ UNCHANGED <<vars, entry, uncovered, excused>>

\* EXPIRE: from here on the set outlives the entry.
ExpireIndex(c) ==
    LET t == call[c].token IN
    /\ call[c].pc = "expire"
    /\ uncovered' = IF t \in index[family[t]] THEN uncovered \ {t} ELSE uncovered
    /\ Return(c)
    /\ UNCHANGED <<vars, entry, index, excused>>
-----------------------------------------------------------------------------
(* Writes: the inner store first, then the keys                            *)

\* createRefreshToken passes through; a negative entry of its hash stays.
Create(t, f) ==
    /\ Fresh(t) /\ CreateRefreshToken(t, f)
    /\ excused' = IF entry[t] = "missing" THEN excused \cup {t} ELSE excused
    /\ UNCHANGED <<entry, index, call, uncovered>>

\* memoryTokenStore rotates a rotated row once more; the successor's family is
\* the caller's, who takes it from the row.
SpendAgain(t, n) ==
    /\ state[t] = "rotated" /\ state[n] = "unissued"
    /\ state' = [state EXCEPT ![n] = "valid"]
    /\ family' = [family EXCEPT ![n] = family[t]]
    /\ pred' = [pred EXCEPT ![n] = t]
    /\ UNCHANGED dead

\* Mutant: only the successor's key is dropped.
KeysToDrop_New(c) == {call[c].new}

\* The keys a rotation drops.
KeysToDrop(c) == {call[c].token, call[c].new}

\* Mutant: the decorator tells a reuse by the row it has cached.
Rotate_FromCache(c, t, n) ==
    /\ call[c].pc = "idle"
    /\ \/ /\ Fresh(n)
          /\ \/ Spend(t, n)
             \/ (store = "memory" \/ entry[t] = "valid") /\ SpendAgain(t, n)
          /\ call' = [call EXCEPT ![c] = [IdleCall EXCEPT !.pc = "drop", !.token = t, !.new = n]]
          /\ UNCHANGED excused
       \/ /\ store = "sqlite" /\ Reuse(t, Members(family[t])) /\ n = t
          /\ excused' = excused \cup {u \in Members(family[t]) : Cached(u)}
          /\ UNCHANGED call
    /\ UNCHANGED <<entry, index, uncovered>>

\* rotateRefreshToken: a reuse throws past the DEL, so what the cache holds of
\* the family stays there.  An unknown token changes nothing.
Rotate(c, t, n) ==
    /\ call[c].pc = "idle"
    /\ \/ /\ Fresh(n)
          /\ \/ Spend(t, n)
             \/ store = "memory" /\ SpendAgain(t, n)
          /\ call' = [call EXCEPT ![c] = [IdleCall EXCEPT !.pc = "drop", !.token = t, !.new = n]]
          /\ UNCHANGED excused
       \/ /\ store = "sqlite" /\ Reuse(t, Members(family[t])) /\ n = t
          /\ excused' = excused \cup {u \in Members(family[t]) : Cached(u)}
          /\ UNCHANGED call
    /\ UNCHANGED <<entry, index, uncovered>>

DropBoth(c) ==
    /\ call[c].pc = "drop"
    /\ DropEntries(KeysToDrop(c))
    /\ Return(c)
    /\ UNCHANGED <<vars, index>>

\* revokeRefreshTokenFamily, first the inner store.
RevokeInner(c, f) ==
    /\ call[c].pc = "idle" /\ f \notin dead /\ Members(f) # {}
    /\ RevokeRefreshTokenFamily(f, Members(f))
    /\ call' = [call EXCEPT ![c] = [IdleCall EXCEPT !.pc = "smembers", !.family = f]]
    /\ UNCHANGED <<entry, index, uncovered, excused>>

\* SMEMBERS.  An entry whose lookup has not come to its EXPIRE is excused.
ReadIndex(c) ==
    LET f == call[c].family IN
    /\ call[c].pc = "smembers"
    /\ call' = [call EXCEPT ![c].pc = "sweep", ![c].members = index[f]]
    /\ excused' = excused \cup {t \in uncovered : family[t] = f}
    /\ UNCHANGED <<vars, entry, index, uncovered>>

\* DEL of the members and of the set.
Sweep(c) ==
    /\ call[c].pc = "sweep"
    /\ DropEntries(call[c].members)
    /\ index' = [index EXCEPT ![call[c].family] = {}]
    /\ Return(c)
    /\ UNCHANGED vars

\* The entries that a running write has yet to drop.
Pending(c) ==
    CASE call[c].pc = "drop" -> {call[c].token, call[c].new}
      [] call[c].pc = "smembers" -> {t \in Tokens : family[t] = call[c].family}
      [] call[c].pc = "sweep" -> call[c].members
      [] OTHER -> {}

\* An await throws, or the process dies: a write leaves its keys behind.
CallFails(c) ==
    /\ call[c].pc # "idle"
    /\ excused' = excused \cup {t \in Pending(c) : entry[t] # "none"}
    /\ Return(c)
    /\ UNCHANGED <<vars, entry, index, uncovered>>
-----------------------------------------------------------------------------
(* Redis                                                                   *)

EntryExpires(t) ==
    /\ entry[t] # "none"
    /\ DropEntries({t})
    /\ UNCHANGED <<vars, index, call>>

\* A set expires after the entries its EXPIREs came after.
IndexExpires(f) ==
    /\ index[f] # {}
    /\ \A t \in index[f] : Cached(t) => t \in uncovered
    /\ index' = [index EXCEPT ![f] = {}]
    /\ UNCHANGED <<vars, entry, call, uncovered, excused>>
-----------------------------------------------------------------------------
CallStep(c) ==
    \/ FindInner(c) \/ SetEntry(c) \/ AddToIndex(c) \/ ExpireIndex(c)
    \/ DropBoth(c) \/ ReadIndex(c) \/ Sweep(c)
    \/ CallFails(c)

StoresNext ==
    \/ \E t \in Tokens, f \in Families : Create(t, f)
    \/ \E c \in Calls, t \in Tokens : Find(c, t)
    \/ \E c \in Calls, t, n \in Tokens : Rotate(c, t, n)
    \/ \E c \in Calls, f \in Families : RevokeInner(c, f)
    \/ \E c \in Calls : CallStep(c)
    \/ \E t \in Tokens : EntryExpires(t)
    \/ \E f \in Families : IndexExpires(f)

\* The deployment serves once its newest servers are up.  postgresTokenStore
\* is PgRefresh's.
Serving ==
    /\ store # "postgres" /\ starts < MaxStarts
    /\ \A p \in Procs :
         /\ boot[p].pc = "up" /\ boot[p].config = "valid" /\ boot[p].bundle = Newest

\* Nothing was asked of the store yet.
Untouched == \A t \in Tokens : state[t] = "unissued"

Boot(p) == Untouched /\ Progress(p) /\ UNCHANGED <<vars, storeVars>>

DeploymentNext ==
    \/ Untouched /\ BootNext /\ UNCHANGED <<vars, storeVars>>
    \/ Serving /\ StoresNext /\ UNCHANGED bootVars

DeploymentSpec ==
    /\ StoresInit /\ [][DeploymentNext]_allVars
    /\ \A p \in Procs : WF_allVars(Boot(p))
-----------------------------------------------------------------------------
(* Properties                                                              *)

\* The cache says of a token what the store says, or a running write has yet
\* to drop what it says.  Excused are: a lookup that overlapped the write, one
\* cut short before the family's set covered its entry, a write cut short
\* before its DEL, a reuse, and a negative entry from before the token was
\* created.  (v0.2 6.5: writes invalidate the relevant entries after the
\* underlying write succeeds.)
CacheFollows ==
    \A t \in Tokens :
        entry[t] \in {"none", Row(t)} \/ t \in excused \/ \E c \in Calls : t \in Pending(c)

\* Over sqliteTokenStore a family never has two tokens that can be exchanged,
\* whatever replays, revocations and failures come between, and although the
\* cache may still say of a rotated token that it is good (a lookup's SET after
\* the rotation's DEL): rotateRefreshToken asks the inner store alone.
\* memoryTokenStore does not promise as much (SpendAgain).
SpentOnce == store = "sqlite" => OneValid
=============================================================================
