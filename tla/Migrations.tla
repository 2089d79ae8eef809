----------------------------- MODULE Migrations -----------------------------
(***************************************************************************)
(* Opening the database: Open (internal/store/store.go), applyMigrations   *)
(* and applyOne (internal/store/migrate.go).                               *)
(*                                                                         *)
(* Several processes may open the same file at once, with different        *)
(* binaries: `walkie` and `walkie history` share one, and a deployment     *)
(* replaces an old binary by a new one.  SQLite gives a transaction the    *)
(* write lock at its first statement, makes another writer wait for it at  *)
(* most busy_timeout, and undoes an uncommitted transaction after a crash. *)
(***************************************************************************)
EXTENDS Naturals, Sequences, FiniteSets

CONSTANTS
  Procs,      \* processes that open the database
  List,       \* List[p]: the versions embedded in p's binary, in order
  Stmts,      \* Stmts[v]: how many statements step v has
  MaxFaults,  \* bound: statements that fail, lock waits that time out
  MaxCrashes  \* bound: processes that crash

Nobody == "nobody"

ASSUME MigrationsAssumption ==
  /\ Nobody \notin Procs
  /\ DOMAIN Stmts \subseteq Nat
  /\ \A v \in DOMAIN Stmts : Stmts[v] \in Nat /\ Stmts[v] > 0
  /\ \A p \in Procs : List[p] \in Seq(DOMAIN Stmts)
  /\ MaxFaults \in Nat /\ MaxCrashes \in Nat

VARIABLES
  ledger,    \* schema_migrations: the versions recorded and committed
  schema,    \* schema[v]: the statements of step v that are committed
  lock,      \* the process whose transaction holds the write lock
  pc,        \* pc[p]: where p is in Open
  recorded,  \* recorded[p]: the ledger's maximum as p read it
  step,      \* step[p]: the index in List[p] of the step p is at
  done,      \* done[p]: statements of that step executed and not committed
  why,       \* why[p]: what made p's Open fail
  faults, crashes

database == <<ledger, schema, lock>>
opening == <<pc, recorded, step, done, why>>
bounds == <<faults, crashes>>
vars == <<database, opening, bounds>>

Version(p) == List[p][step[p]]
Created(v) == 1 .. Stmts[v]
Highest(S) == IF S = {} THEN 0 ELSE CHOOSE v \in S : \A w \in S : w <= v

\* A list that nobody looks at.
ContiguousUnchecked(list) == TRUE

\* The embedded sequence is contiguous from 1.
Contiguous(list) == \A i \in 1 .. Len(list) : list[i] = i

\* The database is beyond the end of the list.
Beyond(list) == list # <<>> /\ Highest(ledger) > list[Len(list)]

\* An Open that fails rolls back and closes its handle.
FailBecause(p, reason) ==
  /\ pc' = [pc EXCEPT ![p] = "failed"]
  /\ why' = [why EXCEPT ![p] = reason]
  /\ done' = [done EXCEPT ![p] = 0]
  /\ lock' = IF lock = p THEN Nobody ELSE lock

-----------------------------------------------------------------------------
(* Actions *)

\* applyMigrations reads the maximum of the ledger and checks it and the list.
ReadLedger(p) ==
  /\ pc[p] = "start"
  /\ recorded' = [recorded EXCEPT ![p] = Highest(ledger)]
  /\ step' = [step EXCEPT ![p] = 1]
  /\ \/ ~Contiguous(List[p]) /\ FailBecause(p, "gap")
     \/ /\ Contiguous(List[p])
        /\ Beyond(List[p])
        /\ FailBecause(p, "newer")
     \/ /\ Contiguous(List[p])
        /\ ~Beyond(List[p])
        /\ pc' = [pc EXCEPT ![p] = "steps"]
        /\ UNCHANGED <<why, done, lock>>
  /\ UNCHANGED <<ledger, schema, bounds>>

\* A step at or below the maximum is skipped.
Skip(p) ==
  /\ pc[p] = "steps" /\ step[p] <= Len(List[p])
  /\ Version(p) <= recorded[p]
  /\ step' = [step EXCEPT ![p] = @ + 1]
  /\ UNCHANGED <<database, pc, recorded, done, why, bounds>>

\* A statement that is committed on its own.
ExecAutocommit(p) ==
  /\ pc[p] = "steps" /\ step[p] <= Len(List[p]) /\ Version(p) > recorded[p]
  /\ done[p] < Stmts[Version(p)] /\ lock = Nobody
  /\ done[p] + 1 \notin schema[Version(p)]
  /\ schema' = [schema EXCEPT ![Version(p)] = @ \cup {done[p] + 1}]
  /\ done' = [done EXCEPT ![p] = @ + 1]
  /\ UNCHANGED <<ledger, lock, pc, recorded, step, why, bounds>>

\* A statement of applyOne.  The first one takes the write lock.  CREATE fails
\* when the table is there.
Exec(p) ==
  /\ pc[p] = "steps" /\ step[p] <= Len(List[p])
  /\ Version(p) > recorded[p]
  /\ done[p] < Stmts[Version(p)]
  /\ lock \in {Nobody, p}
  /\ \/ /\ done[p] + 1 \notin schema[Version(p)]
        /\ lock' = p
        /\ done' = [done EXCEPT ![p] = @ + 1]
        /\ UNCHANGED <<pc, why>>
     \/ /\ done[p] + 1 \in schema[Version(p)]
        /\ FailBecause(p, "exists")
  /\ UNCHANGED <<ledger, schema, recorded, step, bounds>>

\* A statement fails for a reason of its own, or the lock is not to be had
\* within busy_timeout.
ExecFails(p) ==
  /\ pc[p] = "steps" /\ step[p] <= Len(List[p])
  /\ Version(p) > recorded[p]
  /\ faults < MaxFaults
  /\ faults' = faults + 1
  /\ FailBecause(p, "fault")
  /\ UNCHANGED <<ledger, schema, recorded, step, crashes>>

\* The last statement records the version, and the step commits.
Commit(p) ==
  /\ pc[p] = "steps" /\ lock = p
  /\ done[p] = Stmts[Version(p)]
  /\ schema' = [schema EXCEPT ![Version(p)] = Created(Version(p))]
  /\ ledger' = ledger \cup {Version(p)}
  /\ lock' = Nobody
  /\ done' = [done EXCEPT ![p] = 0]
  /\ step' = [step EXCEPT ![p] = @ + 1]
  /\ UNCHANGED <<pc, recorded, why, bounds>>

\* Open returns with the last step still to run.
OpenedEarly(p) ==
  /\ pc[p] = "steps" /\ step[p] >= Len(List[p]) /\ done[p] = 0
  /\ pc' = [pc EXCEPT ![p] = "open"]
  /\ UNCHANGED <<database, recorded, step, done, why, bounds>>

\* Open returns the handle after the last step.
Opened(p) ==
  /\ pc[p] = "steps" /\ step[p] = Len(List[p]) + 1
  /\ pc' = [pc EXCEPT ![p] = "open"]
  /\ UNCHANGED <<database, recorded, step, done, why, bounds>>

\* The process ends, closes or crashes, and is started again.
Restart(p) ==
  /\ pc[p] # "start"
  /\ pc[p] = "steps" => crashes < MaxCrashes
  /\ crashes' = IF pc[p] = "steps" THEN crashes + 1 ELSE crashes
  /\ pc' = [pc EXCEPT ![p] = "start"]
  /\ recorded' = [recorded EXCEPT ![p] = 0]
  /\ step' = [step EXCEPT ![p] = 1]
  /\ done' = [done EXCEPT ![p] = 0]
  /\ why' = [why EXCEPT ![p] = "none"]
  /\ lock' = IF lock = p THEN Nobody ELSE lock
  /\ UNCHANGED <<ledger, schema, faults>>

Init ==
  /\ ledger = {} /\ schema = [v \in DOMAIN Stmts |-> {}] /\ lock = Nobody
  /\ pc = [p \in Procs |-> "start"] /\ recorded = [p \in Procs |-> 0]
  /\ step = [p \in Procs |-> 1] /\ done = [p \in Procs |-> 0]
  /\ why = [p \in Procs |-> "none"]
  /\ faults = 0 /\ crashes = 0

Next ==
  \E p \in Procs :
    ReadLedger(p) \/ Skip(p) \/ Exec(p) \/ ExecFails(p) \/ Commit(p) \/ Opened(p) \/ Restart(p)

Spec == Init /\ [][Next]_vars

-----------------------------------------------------------------------------
(* Properties *)

TypeOK ==
  /\ ledger \subseteq DOMAIN Stmts
  /\ schema \in [DOMAIN Stmts -> SUBSET Nat]
  /\ lock \in Procs \cup {Nobody}
  /\ pc \in [Procs -> {"start", "steps", "open", "failed"}]
  /\ recorded \in [Procs -> {0} \cup DOMAIN Stmts]
  /\ step \in [Procs -> Nat] /\ done \in [Procs -> Nat]
  /\ \A p \in Procs :
       /\ step[p] \in 1 .. Len(List[p]) + 1
       /\ done[p] > 0 => done[p] <= Stmts[Version(p)]
  /\ why \in [Procs -> {"none", "gap", "newer", "exists", "fault"}]

\* The ledger is read as a single maximum, and that is sound: whatever
\* binaries ran, in whatever order, and wherever they crashed, it is a prefix.
LedgerIsPrefix == ledger = 1 .. Cardinality(ledger)

\* The database is never half-migrated: the tables on disk are those of the
\* recorded versions, no more and no fewer.
NeverHalfMigrated ==
  \A v \in DOMAIN Stmts : schema[v] = IF v \in ledger THEN Created(v) ELSE {}

\* A process that has the database open finds every table its binary knows,
\* though other processes migrated between its reading and its steps.
OpenIsMigrated ==
  \A p \in Procs : pc[p] = "open" => \A i \in 1 .. Len(List[p]) : schema[List[p][i]] = Created(List[p][i])

\* A step is there with all its statements and its ledger row or not at all,
\* steps form a prefix, and a store that opens has every step its binary
\* knows.
AllOrNothing ==
  TypeOK /\ LedgerIsPrefix /\ NeverHalfMigrated /\ OpenIsMigrated

\* "Steps that already ran are skipped" (applyMigrations): no Open fails on a
\* table that is there because its step ran.
RanIsSkipped == \A p \in Procs : why[p] # "exists"
=============================================================================
