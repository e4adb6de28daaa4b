------------------------------ MODULE Startup ------------------------------
(***************************************************************************)
(* How a process comes up: loadConfig with its time limit, then the token  *)
(* store's init(), which brings the schema up to date.  A process is a     *)
(* server, or one call of the command line: mint-pat, verify-config.       *)
(*                                                                         *)
(* Processes of several releases start, fail, are killed and start again   *)
(* over one database.  A step of init is a statement; what a transaction   *)
(* wrote is seen at its COMMIT.  The database, the config file and Node's  *)
(* event loop are external.                                                *)
(***************************************************************************)
EXTENDS Naturals

CONSTANTS
    Procs,      \* processes that share the database
    NoProc,     \* sentinel: the lock is free
    Newest,     \* migrations bundled with the newest release
    Configs,    \* what the config file may be, a subset of Config
    MaxStarts   \* how often a process starts (bounds the model)

\* patOff: valid, with auth.pat.enabled false; invalid: no default export, or
\* one the schema refuses; hangs: the import never settles; refused: outside
\* the working directory, or missing; badFlags: an argument is refused.
Config == {"valid", "patOff", "invalid", "throws", "hangs", "refused", "badFlags"}

ASSUME BootAssumption ==
    /\ NoProc \notin Procs
    /\ Newest \in Nat \ {0} /\ MaxStarts \in Nat
    /\ Configs \subseteq Config

VARIABLES
    store,     \* which store the config names
    table,     \* does the migrations table exist
    applied,   \* the ids committed to it
    lock,      \* who holds the write lock on the migrations
    boot,      \* boot[p]: where process p stands
    starts,    \* how often a process was started
    clashed,   \* history: processes whose init met a migration applied meanwhile
    touched,   \* history: processes whose command got as far as the store
    minted     \* history: processes whose createPat stored a row

bootVars == <<store, table, applied, lock, boot, starts, clashed, touched, minted>>

Roles == {"server", "mintPat", "verifyConfig"}

\* A process outside init's transaction.
At(l, role, n, c, code) ==
    [pc |-> l, role |-> role, bundle |-> n, config |-> c,
     seen |-> {}, wrote |-> {}, code |-> code]

Off == At("off", "server", 1, "valid", 0)

BootPc == {"off", "import", "bootstrap", "creating", "lock", "read", "apply",
           "up", "create", "close", "exit"}

BootRecord ==
    [pc: BootPc, role: Roles, bundle: 1..Newest, config: Config,
     seen: SUBSET (1..Newest), wrote: SUBSET (1..Newest), code: 0..3]

BootTypeOK ==
    /\ store \in {"memory", "sqlite", "postgres"}
    /\ table \in BOOLEAN /\ applied \subseteq 1..Newest
    /\ lock \in Procs \cup {NoProc}
    /\ boot \in [Procs -> BootRecord]
    /\ \A p \in Procs : lock = p => boot[p].pc \in {"read", "apply"}
    /\ starts \in 0..MaxStarts
    /\ clashed \subseteq Procs /\ touched \subseteq Procs /\ minted \subseteq Procs

BootInit ==
    /\ store \in {"memory", "sqlite", "postgres"}
    /\ table = FALSE /\ applied = {}
    /\ lock = NoProc
    /\ boot = [p \in Procs |-> Off]
    /\ starts = 0 /\ clashed = {} /\ touched = {} /\ minted = {}

Goto(p, l) == boot' = [boot EXCEPT ![p].pc = l]

\* The process ends: a command with an exit code of exit-codes.ts, a server
\* with the error that has this code there.
Exit(p, n) ==
    boot' = [boot EXCEPT ![p] = At("exit", boot[p].role, 1, boot[p].config, n)]
-----------------------------------------------------------------------------
(* loadConfig                                                              *)

\* Up to the call of the importer: run and mintPatCommand look at the flags
\* first, loadConfig at the path.
Start(p, role, n, c) ==
    /\ boot[p].pc = "off" /\ starts < MaxStarts
    /\ c = "badFlags" => role # "server"
    /\ starts' = starts + 1
    /\ boot' = [boot EXCEPT ![p] =
         CASE c = "badFlags" -> At("exit", role, 1, c, 1)
           [] c = "refused" -> At("exit", role, 1, c, 2)
           [] OTHER -> At("import", role, n, c, 0)]
    /\ UNCHANGED <<store, table, applied, lock, clashed, touched, minted>>

\* What the command needs of a config file that was imported.
Acceptable(b) ==
    \/ b.config = "valid"
    \/ b.config = "patOff" /\ b.role # "mintPat"

\* The import settles before the timer fires: init comes next, where the store
\* has one.
ImportSettled(p) ==
    LET b == boot[p] IN
    /\ b.pc = "import" /\ b.config # "hangs"
    /\ \/ ~Acceptable(b) /\ Exit(p, 2) /\ UNCHANGED touched
       \/ Acceptable(b) /\ b.role = "verifyConfig" /\ Exit(p, 0) /\ UNCHANGED touched
       \/ /\ Acceptable(b) /\ b.role # "verifyConfig"
          /\ touched' = touched \cup {p}
          /\ Goto(p, IF store # "memory" THEN "bootstrap"
                     ELSE IF b.role = "server" THEN "up" ELSE "create")
    /\ UNCHANGED <<store, table, applied, lock, starts, clashed, minted>>

\* Mutant: the timer is cleared when the import begins.
TimerArmed_Never(b) == FALSE

TimerArmed(b) == b.pc = "import"

\* withTimeout rejects; the import may still settle, and nobody looks.
TimedOut(p) ==
    /\ TimerArmed(boot[p])
    /\ Exit(p, 2)
    /\ UNCHANGED <<store, table, applied, lock, starts, clashed, touched, minted>>

\* The timer is unref'd: an import that waits for nothing the event loop knows
\* of lets the process end before the timer fires, with the code of success.
Drained(p) ==
    /\ boot[p].pc = "import" /\ boot[p].config = "hangs"
    /\ Exit(p, 0)
    /\ UNCHANGED <<store, table, applied, lock, starts, clashed, touched, minted>>
-----------------------------------------------------------------------------
(* init                                                                    *)

\* CREATE TABLE IF NOT EXISTS of the migrations table, outside the lock.
\* SQLite has one writer.  PostgreSQL looks for the table and creates it in
\* two moments.
Bootstrap(p) ==
    /\ boot[p].pc = "bootstrap"
    /\ \/ table /\ Goto(p, "lock") /\ UNCHANGED table
       \/ /\ ~table /\ store = "sqlite"
          /\ table' = TRUE /\ Goto(p, "lock")
       \/ ~table /\ store = "postgres" /\ Goto(p, "creating") /\ UNCHANGED table
    /\ UNCHANGED <<store, applied, lock, starts, clashed, touched, minted>>

\* A replica that also found no table gets the duplicate key error of the
\* catalog once the first one committed.
CreateTable(p) ==
    /\ boot[p].pc = "creating"
    /\ \/ ~table /\ Goto(p, "lock") /\ table' = TRUE
       \/ table /\ Exit(p, 3) /\ UNCHANGED table
    /\ UNCHANGED <<store, applied, lock, starts, clashed, touched, minted>>

\* Mutant: the lock is not asked for.
Lockable_Always(p) == TRUE

Lockable(p) == lock = NoProc

\* BEGIN; LOCK TABLE ... IN EXCLUSIVE MODE, or BEGIN IMMEDIATE.
Lock(p) ==
    /\ boot[p].pc = "lock" /\ Lockable(p)
    /\ lock' = p /\ Goto(p, "read")
    /\ UNCHANGED <<store, table, applied, starts, clashed, touched, minted>>

\* SELECT id FROM the migrations.
Read(p) ==
    /\ boot[p].pc = "read"
    /\ boot' = [boot EXCEPT ![p].pc = "apply", ![p].seen = applied]
    /\ UNCHANGED <<store, table, applied, lock, starts, clashed, touched, minted>>

ToApply(b) == (1..b.bundle) \ (b.seen \cup b.wrote)

Released(p) == lock' = IF lock = p THEN NoProc ELSE lock

\* The DDL of the next migration and the INSERT of its id, in the transaction.
Apply(p) ==
    LET b == boot[p] IN
    /\ b.pc = "apply"
    /\ \E id \in ToApply(b) :
         /\ \A later \in ToApply(b) : id <= later
         /\ boot' = [boot EXCEPT ![p].wrote = @ \cup {id}]
    /\ UNCHANGED <<store, table, applied, lock, starts, clashed, touched, minted>>

\* COMMIT; an id that somebody else committed meanwhile is a duplicate key.
Commit(p) ==
    LET b == boot[p]
        clash == b.wrote \cap applied # {}
    IN
    /\ b.pc = "apply" /\ ToApply(b) = {}
    /\ Released(p)
    /\ clashed' = IF clash THEN clashed \cup {p} ELSE clashed
    /\ IF clash THEN Exit(p, 3) /\ UNCHANGED applied
       ELSE /\ applied' = applied \cup b.wrote
            /\ boot' = [boot EXCEPT ![p] =
                    At(IF b.role = "server" THEN "up" ELSE "create", b.role, b.bundle, b.config, 0)]
    /\ UNCHANGED <<store, table, starts, touched, minted>>

\* A statement fails, waits longer than statement_timeout or the busy timeout,
\* or loses its connection: ROLLBACK, and init throws.
InitFails(p) ==
    /\ boot[p].pc \in {"bootstrap", "creating", "lock", "read", "apply"}
    /\ Released(p)
    /\ Exit(p, 3)
    /\ UNCHANGED <<store, table, applied, starts, clashed, touched, minted>>
-----------------------------------------------------------------------------
(* mint-pat                                                                *)

\* Mutant: the error of createPat is only logged.
Stored_Assumed(ok) == TRUE

Stored(ok) == ok

\* store.createPat: may fail, or take effect and lose its reply.
CreatePat(p) ==
    /\ boot[p].pc = "create"
    /\ \E ok, kept \in BOOLEAN :
         /\ ok => kept
         /\ minted' = IF kept THEN minted \cup {p} ELSE minted
         /\ boot' = [boot EXCEPT ![p].pc = "close", ![p].code = IF Stored(ok) THEN 0 ELSE 3]
    /\ UNCHANGED <<store, table, applied, lock, starts, clashed, touched>>

\* store.close, whose error is logged, then the token is printed.
Close(p) ==
    /\ boot[p].pc = "close"
    /\ Exit(p, boot[p].code)
    /\ UNCHANGED <<store, table, applied, lock, starts, clashed, touched, minted>>
-----------------------------------------------------------------------------
\* The process is killed; the database rolls its transaction back.  What it had
\* answered is history of the process that takes its place.
Kill(p) ==
    /\ boot[p].pc # "off"
    /\ starts < MaxStarts
    /\ Released(p)
    /\ boot' = [boot EXCEPT ![p] = Off]
    /\ clashed' = clashed \ {p} /\ touched' = touched \ {p} /\ minted' = minted \ {p}
    /\ UNCHANGED <<store, table, applied, starts>>

\* What process p does on its own, timers included.
Progress(p) ==
    \/ TimedOut(p)
    \/ Bootstrap(p) \/ CreateTable(p) \/ Lock(p) \/ Read(p) \/ Apply(p) \/ Commit(p)
    \/ InitFails(p)
    \/ CreatePat(p) \/ Close(p)

BootNext ==
    \E p \in Procs :
        \/ \E role \in Roles, n \in 1..Newest, c \in Configs : Start(p, role, n, c)
        \/ ImportSettled(p) \/ Drained(p)
        \/ Progress(p)
        \/ Kill(p)

BootSpec == BootInit /\ [][BootNext]_bootVars

\* Statements and timers come to an end; an import may never settle, and
\* nobody has to start or kill anything.
BootFairness == \A p \in Procs : WF_bootVars(Progress(p))
-----------------------------------------------------------------------------
(* Properties                                                              *)

\* Replicas of different releases that start together never fail over a
\* migration another of them applied (v0.2 6.3: the lock makes concurrent
\* startups safe), and one that is up has every table its own release needs.
StartupsSerialize ==
    /\ clashed = {}
    /\ \A p \in Procs : boot[p].pc \in {"up", "create", "close"} /\ store # "memory" =>
          1..boot[p].bundle \subseteq applied

\* A script can tell from mint-pat's exit code what became of the store
\* (exit-codes.ts): 0 means that the PAT is there, 1 and 2 that no store was
\* opened.  Except when the import hung, where an idle event loop says 0, too.
ExitCodeHonest ==
    \A p \in Procs : LET b == boot[p] IN b.pc = "exit" /\ b.config # "hangs" =>
        /\ b.code = 0 /\ b.role = "mintPat" => p \in minted
        /\ b.code \in {1, 2} => p \notin touched

\* Loading is bounded (v0.2 12) and nobody waits for ever for the migrations:
\* whatever was started comes up or ends, though others die with the lock.
BootSettles ==
    \A p \in Procs : boot[p].pc # "off" ~> boot[p].pc \in {"off", "up", "exit"}
=============================================================================
