-------------------------- MODULE LocalHost_proofs ---------------------------
(***************************************************************************)
(* Proofs about what client processes share on one machine: Migrations,    *)
(* for any set of processes, any embedded lists, contiguous or not, and    *)
(* any number of faults and crashes; SocketListen, for any set of runs;    *)
(* History, for any writers, cap, TTL and bounds; FakeClock, for any       *)
(* timers, sleepers and bounds.                                            *)
(*                                                                         *)
(* AllOrNothing is not inductive.  That a commit extends the prefix by one *)
(* needs that the committing process has every step before its own in the  *)
(* ledger, although it read the ledger once and others have migrated since *)
(* (Applied), and that its own step is in nobody else's commit because it  *)
(* holds the write lock since its first statement (LockIsWork).            *)
(*                                                                         *)
(* PathIsHandedOver is not inductive either: what a start found at the     *)
(* path is still so when it acts on it, because without an overlap nobody  *)
(* else is at work there (OneAtWork, FoundStands).                         *)
(*                                                                         *)
(* That retention leaves no hole but of lapsed rows needs every cutoff to  *)
(* lie in the past (SweepsLookBack), since rows need not be in clock       *)
(* order; that the cap holds needs an eviction to take a row at least,     *)
(* which is shown by counting the rows below each row.                     *)
(*                                                                         *)
(* That the clock serves who waits needs a timer or sleeper to be         *)
(* listed exactly while it waits (PendingIsListed, SleepIsListed), and     *)
(* what Advance has claimed to be in one place, its list of fires or the   *)
(* channel, until it is heard (WakesOnce, FireIsSomewhere).  What          *)
(* removing, appending and picking do to the list is shown by counting     *)
(* places first.                                                           *)
(***************************************************************************)
EXTENDS MCLocalHost, FiniteSetTheorems, TLAPS

-----------------------------------------------------------------------------
(* The inductive invariant *)

\* The ledger is a prefix of the versions.
Prefix == \E n \in Nat : ledger = 1 .. n

\* A process past the checks has a contiguous list, and what comes before the
\* step it is at is recorded; so is the maximum it read.
Applied ==
  \A p \in Procs : pc[p] \in {"steps", "open"} =>
    /\ Contiguous(List[p])
    /\ 1 .. step[p] - 1 \subseteq ledger
    /\ recorded[p] \in {0} \cup ledger
    /\ pc[p] = "open" => step[p] = Len(List[p]) + 1

\* The process that has executed statements is the one that holds the lock, and
\* its step is not recorded.
LockIsWork ==
  \A p \in Procs : lock = p \/ done[p] > 0 =>
    /\ lock = p /\ pc[p] = "steps"
    /\ step[p] <= Len(List[p])
    /\ done[p] > 0 /\ done[p] <= Stmts[Version(p)]
    /\ Version(p) \notin ledger

Inv == TypeOK /\ Prefix /\ NeverHalfMigrated /\ Applied /\ LockIsWork

-----------------------------------------------------------------------------
(* Lists and versions *)

\* Embedded lists are lists of versions, which are numbers.
LEMMA ListFacts ==
  ASSUME NEW p \in Procs
  PROVE  /\ Len(List[p]) \in Nat
         /\ \A i \in 1 .. Len(List[p]) :
              /\ List[p][i] \in DOMAIN Stmts /\ List[p][i] \in Nat
              /\ Stmts[List[p][i]] \in Nat /\ Stmts[List[p][i]] > 0
<1>1. List[p] \in Seq(DOMAIN Stmts)
  BY MigrationsAssumption
<1>2. Len(List[p]) \in Nat /\ \A i \in 1 .. Len(List[p]) : List[p][i] \in DOMAIN Stmts
  BY <1>1
<1> QED
  BY <1>2, MigrationsAssumption

\* The maximum of a prefix is its length.
LEMMA HighestOfPrefix == ASSUME NEW n \in Nat PROVE Highest(1 .. n) = n
<1>1. CASE n = 0
  <2>1. 1 .. n = {}
    BY <1>1
  <2> QED
    BY <1>1, <2>1 DEF Highest
<1>2. CASE n # 0
  <2>1. n \in 1 .. n /\ \A w \in 1 .. n : w <= n
    BY <1>2
  <2>2. \A v \in 1 .. n : (\A w \in 1 .. n : w <= v) => v = n
    BY <2>1
  <2>3. (CHOOSE v \in 1 .. n : \A w \in 1 .. n : w <= v) = n
    BY <2>1, <2>2
  <2> QED
    BY <2>1, <2>3 DEF Highest
<1> QED
  BY <1>1, <1>2

-----------------------------------------------------------------------------
(* Each action *)

\* A process that fails, ends or crashes gives up its lock and what it had not
\* committed; nobody else notices.
LEMMA GivingUp ==
  ASSUME Inv, NEW p \in Procs, NEW s \in {"failed", "start"},
         UNCHANGED <<ledger, schema>>,
         pc' = [pc EXCEPT ![p] = s], done' = [done EXCEPT ![p] = 0],
         lock' = IF lock = p THEN Nobody ELSE lock,
         recorded' \in [Procs -> {0} \cup DOMAIN Stmts], step' \in [Procs -> Nat],
         step'[p] \in 1 .. Len(List[p]) + 1,
         \A q \in Procs : q # p => recorded'[q] = recorded[q] /\ step'[q] = step[q],
         why' \in [Procs -> {"none", "gap", "newer", "exists", "fault"}]
  PROVE  Inv'
<1>t. TypeOK /\ Prefix /\ NeverHalfMigrated /\ Applied /\ LockIsWork
  BY DEF Inv
<1>1. pc'[p] = s /\ done'[p] = 0 /\ \A q \in Procs : q # p => pc'[q] = pc[q] /\ done'[q] = done[q]
  BY <1>t DEF TypeOK
<1>2. TypeOK'
  <2>1. /\ ledger' \subseteq DOMAIN Stmts /\ schema' \in [DOMAIN Stmts -> SUBSET Nat]
        /\ lock' \in Procs \cup {Nobody}
    BY <1>t DEF TypeOK
  <2>2. /\ pc' \in [Procs -> {"start", "steps", "open", "failed"}]
        /\ done' \in [Procs -> Nat]
    BY <1>t DEF TypeOK
  <2>3. ASSUME NEW q \in Procs
        PROVE  /\ step'[q] \in 1 .. Len(List[q]) + 1
               /\ done'[q] > 0 => done'[q] <= Stmts[List[q][step'[q]]]
    BY <1>t, <1>1 DEF TypeOK, Version
  <2> QED
    BY <2>1, <2>2, <2>3 DEF TypeOK, Version
<1>3. Prefix' /\ NeverHalfMigrated'
  BY <1>t DEF Prefix, NeverHalfMigrated, Created
<1>4. Applied'
  BY <1>t, <1>1 DEF Applied
<1>5. LockIsWork'
  <2> SUFFICES ASSUME NEW q \in Procs, lock' = q \/ done'[q] > 0
               PROVE  /\ lock' = q /\ pc'[q] = "steps"
                      /\ step'[q] <= Len(List[q])
                      /\ done'[q] > 0 /\ done'[q] <= Stmts[List[q][step'[q]]]
                      /\ List[q][step'[q]] \notin ledger'
    BY DEF LockIsWork, Version
  <2>1. q # p
    BY <1>1, MigrationsAssumption
  <2>2. lock = q \/ done[q] > 0
    BY <1>1, <2>1, MigrationsAssumption
  <2> QED
    BY <1>t, <1>1, <2>1, <2>2 DEF LockIsWork, Version
<1> QED
  BY <1>2, <1>3, <1>4, <1>5 DEF Inv

\* Past the checks nothing is behind the process yet.
LEMMA ReadLedgerStep == ASSUME Inv, NEW p \in Procs, ReadLedger(p) PROVE Inv'
<1>t. TypeOK /\ Prefix /\ NeverHalfMigrated /\ Applied /\ LockIsWork
  BY DEF Inv
<1>l. Len(List[p]) \in Nat
  BY ListFacts
<1>h. Highest(ledger) \in {0} \cup ledger
  <2>1. PICK n \in Nat : ledger = 1 .. n
    BY <1>t DEF Prefix
  <2>2. Highest(ledger) = n
    BY <2>1, HighestOfPrefix
  <2> QED
    BY <2>1, <2>2
<1>0. /\ pc[p] = "start" /\ UNCHANGED <<ledger, schema>>
      /\ recorded' = [recorded EXCEPT ![p] = Highest(ledger)]
      /\ step' = [step EXCEPT ![p] = 1]
  BY DEF ReadLedger
<1>1. /\ recorded' \in [Procs -> {0} \cup DOMAIN Stmts] /\ step' \in [Procs -> Nat]
      /\ recorded'[p] = Highest(ledger) /\ step'[p] = 1
      /\ \A q \in Procs : q # p => recorded'[q] = recorded[q] /\ step'[q] = step[q]
  BY <1>t, <1>h, <1>0 DEF TypeOK
<1>2. ASSUME NEW r \in {"gap", "newer"}, FailBecause(p, r) PROVE Inv'
  <2>1. /\ pc' = [pc EXCEPT ![p] = "failed"] /\ done' = [done EXCEPT ![p] = 0]
        /\ lock' = IF lock = p THEN Nobody ELSE lock
    BY <1>2 DEF FailBecause
  <2>2. why' \in [Procs -> {"none", "gap", "newer", "exists", "fault"}]
    BY <1>t, <1>2 DEF FailBecause, TypeOK
  <2>3. step'[p] \in 1 .. Len(List[p]) + 1
    BY <1>l, <1>1
  <2> QED
    BY <1>0, <1>1, <2>1, <2>2, <2>3, GivingUp
<1>3. ASSUME Contiguous(List[p]), pc' = [pc EXCEPT ![p] = "steps"], UNCHANGED <<why, done, lock>>
      PROVE  Inv'
  <2>1. pc'[p] = "steps" /\ \A q \in Procs : q # p => pc'[q] = pc[q]
    BY <1>t, <1>3 DEF TypeOK
  <2>2. lock # p /\ ~(done[p] > 0)
    BY <1>t, <1>0 DEF LockIsWork
  <2>3. TypeOK'
    <3>1. /\ ledger' \subseteq DOMAIN Stmts /\ schema' \in [DOMAIN Stmts -> SUBSET Nat]
          /\ lock' \in Procs \cup {Nobody}
          /\ why' \in [Procs -> {"none", "gap", "newer", "exists", "fault"}]
          /\ pc' \in [Procs -> {"start", "steps", "open", "failed"}]
          /\ done' \in [Procs -> Nat]
      BY <1>t, <1>0, <1>3 DEF TypeOK
    <3>2. ASSUME NEW q \in Procs
          PROVE  /\ step'[q] \in 1 .. Len(List[q]) + 1
                 /\ done'[q] > 0 => done'[q] <= Stmts[List[q][step'[q]]]
      <4>1. CASE q = p
        BY <1>l, <1>1, <1>3, <2>2, <4>1
      <4>2. CASE q # p
        BY <1>t, <1>1, <1>3, <4>2 DEF TypeOK, Version
      <4> QED
        BY <4>1, <4>2
    <3> QED
      BY <1>1, <3>1, <3>2 DEF TypeOK, Version
  <2>4. Prefix' /\ NeverHalfMigrated'
    BY <1>t, <1>0 DEF Prefix, NeverHalfMigrated, Created
  <2>5. Applied'
    <3> SUFFICES ASSUME NEW q \in Procs, pc'[q] \in {"steps", "open"}
                 PROVE  /\ Contiguous(List[q]) /\ 1 .. step'[q] - 1 \subseteq ledger
                        /\ recorded'[q] \in {0} \cup ledger
                        /\ pc'[q] = "open" => step'[q] = Len(List[q]) + 1
      BY <1>0 DEF Applied
    <3>1. CASE q = p
      BY <1>h, <1>1, <1>3, <2>1, <3>1
    <3>2. CASE q # p
      BY <1>t, <1>1, <2>1, <3>2 DEF Applied
    <3> QED
      BY <3>1, <3>2
  <2>6. LockIsWork'
    BY <1>t, <1>0, <1>1, <1>3, <2>1, <2>2 DEF LockIsWork, Version
  <2> QED
    BY <2>3, <2>4, <2>5, <2>6 DEF Inv
<1> QED
  BY <1>2, <1>3 DEF ReadLedger

\* A step is skipped only when it is recorded.
LEMMA SkipStep == ASSUME Inv, NEW p \in Procs, Skip(p) PROVE Inv'
<1>t. TypeOK /\ Prefix /\ NeverHalfMigrated /\ Applied /\ LockIsWork
  BY DEF Inv
<1>l. /\ Len(List[p]) \in Nat
      /\ \A i \in 1 .. Len(List[p]) : List[p][i] \in Nat
  BY ListFacts
<1>0. /\ pc[p] = "steps" /\ step[p] <= Len(List[p]) /\ List[p][step[p]] <= recorded[p]
      /\ step' = [step EXCEPT ![p] = @ + 1]
      /\ UNCHANGED <<ledger, schema, lock, pc, recorded, done, why>>
  BY DEF Skip, Version, database
<1>1. /\ step[p] \in 1 .. Len(List[p]) /\ step[p] \in Nat /\ List[p][step[p]] = step[p]
      /\ 1 .. step[p] - 1 \subseteq ledger /\ recorded[p] \in {0} \cup ledger
      /\ Contiguous(List[p])
  BY <1>t, <1>l, <1>0 DEF TypeOK, Applied, Contiguous
<1>2. step[p] \in ledger
  <2>1. PICK n \in Nat : ledger = 1 .. n
    BY <1>t DEF Prefix
  <2> QED
    BY <1>0, <1>1, <2>1
<1>3. /\ step' \in [Procs -> Nat] /\ step'[p] = step[p] + 1
      /\ \A q \in Procs : q # p => step'[q] = step[q]
  BY <1>t, <1>0, <1>1 DEF TypeOK
<1>4. lock # p /\ ~(done[p] > 0)
  BY <1>t, <1>1, <1>2 DEF LockIsWork, Version
<1>5. TypeOK'
  <2>1. ASSUME NEW q \in Procs
        PROVE  /\ step'[q] \in 1 .. Len(List[q]) + 1
               /\ done'[q] > 0 => done'[q] <= Stmts[List[q][step'[q]]]
    BY <1>t, <1>l, <1>0, <1>1, <1>3, <1>4 DEF TypeOK, Version
  <2> QED
    BY <1>t, <1>0, <1>3, <2>1 DEF TypeOK, Version
<1>6. Prefix' /\ NeverHalfMigrated'
  BY <1>t, <1>0 DEF Prefix, NeverHalfMigrated, Created
<1>7. Applied'
  <2> SUFFICES ASSUME NEW q \in Procs, pc[q] \in {"steps", "open"}
               PROVE  /\ Contiguous(List[q]) /\ 1 .. step'[q] - 1 \subseteq ledger
                      /\ recorded[q] \in {0} \cup ledger
                      /\ pc[q] = "open" => step'[q] = Len(List[q]) + 1
    BY <1>0 DEF Applied
  <2>1. CASE q = p
    <3>1. 1 .. step'[p] - 1 \subseteq ledger
      BY <1>1, <1>2, <1>3
    <3> QED
      BY <1>0, <1>1, <2>1, <3>1
  <2>2. CASE q # p
    BY <1>t, <1>3, <2>2 DEF Applied
  <2> QED
    BY <2>1, <2>2
<1>8. LockIsWork'
  BY <1>t, <1>0, <1>3, <1>4 DEF LockIsWork, Version
<1> QED
  BY <1>5, <1>6, <1>7, <1>8 DEF Inv

\* The first statement takes the lock, and a statement that runs proves that the
\* step is not recorded.
LEMMA ExecStep == ASSUME Inv, NEW p \in Procs, Exec(p) PROVE Inv'
<1>t. TypeOK /\ Prefix /\ NeverHalfMigrated /\ Applied /\ LockIsWork
  BY DEF Inv
<1>l. /\ Len(List[p]) \in Nat
      /\ \A i \in 1 .. Len(List[p]) :
           List[p][i] \in DOMAIN Stmts /\ Stmts[List[p][i]] \in Nat
  BY ListFacts
<1>0. /\ pc[p] = "steps" /\ step[p] <= Len(List[p])
      /\ done[p] < Stmts[List[p][step[p]]] /\ lock \in {Nobody, p}
      /\ UNCHANGED <<ledger, schema, recorded, step>>
  BY DEF Exec, Version
<1>1. step[p] \in 1 .. Len(List[p]) /\ done[p] \in Nat
  BY <1>t, <1>l, <1>0 DEF TypeOK
<1>2. ASSUME FailBecause(p, "exists") PROVE Inv'
  <2>1. /\ pc' = [pc EXCEPT ![p] = "failed"] /\ done' = [done EXCEPT ![p] = 0]
        /\ lock' = IF lock = p THEN Nobody ELSE lock
    BY <1>2 DEF FailBecause
  <2>2. why' \in [Procs -> {"none", "gap", "newer", "exists", "fault"}]
    BY <1>t, <1>2 DEF FailBecause, TypeOK
  <2>3. /\ recorded' \in [Procs -> {0} \cup DOMAIN Stmts] /\ step' \in [Procs -> Nat]
        /\ step'[p] \in 1 .. Len(List[p]) + 1
        /\ \A q \in Procs : q # p => recorded'[q] = recorded[q] /\ step'[q] = step[q]
    BY <1>t, <1>0 DEF TypeOK
  <2> QED
    BY <1>0, <2>1, <2>2, <2>3, GivingUp
<1>3. ASSUME done[p] + 1 \notin schema[List[p][step[p]]], lock' = p,
             done' = [done EXCEPT ![p] = @ + 1], UNCHANGED <<pc, why>>
      PROVE  Inv'
  <2>1. /\ done' \in [Procs -> Nat] /\ done'[p] = done[p] + 1
        /\ \A q \in Procs : q # p => done'[q] = done[q]
    BY <1>t, <1>1, <1>3 DEF TypeOK
  <2>2. List[p][step[p]] \notin ledger
    <3>1. done[p] + 1 \in 1 .. Stmts[List[p][step[p]]]
      BY <1>l, <1>0, <1>1
    <3> QED
      BY <1>t, <1>l, <1>1, <1>3, <3>1 DEF NeverHalfMigrated, Created
  <2>3. TypeOK'
    <3>1. ASSUME NEW q \in Procs
          PROVE  /\ step'[q] \in 1 .. Len(List[q]) + 1
                 /\ done'[q] > 0 => done'[q] <= Stmts[List[q][step'[q]]]
      <4>1. CASE q = p
        BY <1>t, <1>l, <1>0, <1>1, <2>1, <4>1 DEF TypeOK
      <4>2. CASE q # p
        BY <1>t, <1>0, <2>1, <4>2 DEF TypeOK, Version
      <4> QED
        BY <4>1, <4>2
    <3> QED
      BY <1>t, <1>0, <1>3, <2>1, <3>1 DEF TypeOK, Version
  <2>4. Prefix' /\ NeverHalfMigrated'
    BY <1>t, <1>0 DEF Prefix, NeverHalfMigrated, Created
  <2>5. Applied'
    BY <1>t, <1>0, <1>3 DEF Applied
  <2>6. LockIsWork'
    <3> SUFFICES ASSUME NEW q \in Procs, lock' = q \/ done'[q] > 0
                 PROVE  /\ lock' = q /\ pc[q] = "steps"
                        /\ step[q] <= Len(List[q])
                        /\ done'[q] > 0 /\ done'[q] <= Stmts[List[q][step[q]]]
                        /\ List[q][step[q]] \notin ledger
      BY <1>0, <1>3 DEF LockIsWork, Version
    <3>1. CASE q = p
      BY <1>l, <1>0, <1>1, <1>3, <2>1, <2>2, <3>1
    <3>2. CASE q # p
      BY <1>t, <1>0, <1>3, <2>1, <3>2, MigrationsAssumption DEF LockIsWork
    <3> QED
      BY <3>1, <3>2
  <2> QED
    BY <2>3, <2>4, <2>5, <2>6 DEF Inv
<1> QED
  BY <1>2, <1>3 DEF Exec, Version

\* A fault gives the step up.
LEMMA ExecFailsStep == ASSUME Inv, NEW p \in Procs, ExecFails(p) PROVE Inv'
<1>t. TypeOK
  BY DEF Inv
<1>1. /\ pc' = [pc EXCEPT ![p] = "failed"] /\ done' = [done EXCEPT ![p] = 0]
      /\ lock' = IF lock = p THEN Nobody ELSE lock
      /\ UNCHANGED <<ledger, schema, recorded, step>>
  BY DEF ExecFails, FailBecause
<1>2. why' \in [Procs -> {"none", "gap", "newer", "exists", "fault"}]
  BY <1>t DEF ExecFails, FailBecause, TypeOK
<1>3. /\ recorded' \in [Procs -> {0} \cup DOMAIN Stmts] /\ step' \in [Procs -> Nat]
      /\ step'[p] \in 1 .. Len(List[p]) + 1
      /\ \A q \in Procs : q # p => recorded'[q] = recorded[q] /\ step'[q] = step[q]
  BY <1>t, <1>1 DEF TypeOK
<1> QED
  BY <1>1, <1>2, <1>3, GivingUp

\* So do the end and the crash of the process.
LEMMA RestartStep == ASSUME Inv, NEW p \in Procs, Restart(p) PROVE Inv'
<1>t. TypeOK
  BY DEF Inv
<1>1. /\ pc' = [pc EXCEPT ![p] = "start"] /\ done' = [done EXCEPT ![p] = 0]
      /\ lock' = IF lock = p THEN Nobody ELSE lock
      /\ recorded' = [recorded EXCEPT ![p] = 0] /\ step' = [step EXCEPT ![p] = 1]
      /\ UNCHANGED <<ledger, schema>>
  BY DEF Restart
<1>2. why' \in [Procs -> {"none", "gap", "newer", "exists", "fault"}]
  BY <1>t DEF Restart, TypeOK
<1>3. /\ recorded' \in [Procs -> {0} \cup DOMAIN Stmts] /\ step' \in [Procs -> Nat]
      /\ step'[p] \in 1 .. Len(List[p]) + 1
      /\ \A q \in Procs : q # p => recorded'[q] = recorded[q] /\ step'[q] = step[q]
  BY <1>t, <1>1, ListFacts DEF TypeOK
<1> QED
  BY <1>1, <1>2, <1>3, GivingUp

\* A commit adds the next version and all of its statements.
LEMMA CommitStep == ASSUME Inv, NEW p \in Procs, Commit(p) PROVE Inv'
<1>t. TypeOK /\ Prefix /\ NeverHalfMigrated /\ Applied /\ LockIsWork
  BY DEF Inv
<1>l. /\ Len(List[p]) \in Nat
      /\ \A i \in 1 .. Len(List[p]) :
           List[p][i] \in DOMAIN Stmts /\ Stmts[List[p][i]] \in Nat
  BY ListFacts
<1> DEFINE v == List[p][step[p]]
<1>0. /\ pc[p] = "steps" /\ lock = p
      /\ schema' = [schema EXCEPT ![v] = Created(v)]
      /\ ledger' = ledger \cup {v} /\ lock' = Nobody
      /\ done' = [done EXCEPT ![p] = 0] /\ step' = [step EXCEPT ![p] = @ + 1]
      /\ UNCHANGED <<pc, recorded, why>>
  BY DEF Commit, Version
<1>1. /\ step[p] \in 1 .. Len(List[p]) /\ step[p] \in Nat /\ v = step[p] /\ v \in DOMAIN Stmts
      /\ v \notin ledger
      /\ 1 .. step[p] - 1 \subseteq ledger /\ recorded[p] \in {0} \cup ledger
      /\ Contiguous(List[p])
  <2>1. step[p] \in 1 .. Len(List[p])
    BY <1>t, <1>l, <1>0 DEF TypeOK, LockIsWork
  <2>2. /\ Contiguous(List[p]) /\ 1 .. step[p] - 1 \subseteq ledger
        /\ recorded[p] \in {0} \cup ledger
    BY <1>t, <1>0 DEF Applied
  <2>3. v \notin ledger
    BY <1>t, <1>0 DEF LockIsWork, Version
  <2>4. v = step[p]
    BY <2>1, <2>2 DEF Contiguous
  <2> QED
    BY <1>l, <2>1, <2>2, <2>3, <2>4
<1> HIDE DEF v
<1>2. Prefix'
  <2>1. PICK n \in Nat : ledger = 1 .. n
    BY <1>t DEF Prefix
  <2>2. v = n + 1
    <3>1. v \in Nat /\ v > 0 /\ v > n
      BY <1>1, <2>1
    <3>2. v > 1 => v - 1 \in 1 .. v - 1
      BY <3>1
    <3>3. v > 1 => v - 1 <= n
      BY <1>1, <2>1, <3>2
    <3> QED
      BY <3>1, <3>3
  <2>3. ledger' = 1 .. n + 1
    BY <1>0, <2>1, <2>2
  <2> QED
    BY <2>3 DEF Prefix
<1>3. NeverHalfMigrated'
  <2> SUFFICES ASSUME NEW w \in DOMAIN Stmts
               PROVE  schema'[w] = IF w \in ledger' THEN Created(w) ELSE {}
    BY DEF NeverHalfMigrated, Created
  <2>1. schema'[w] = IF w = v THEN Created(v) ELSE schema[w]
    BY <1>t, <1>0 DEF TypeOK
  <2>2. schema[w] = IF w \in ledger THEN Created(w) ELSE {}
    BY <1>t DEF NeverHalfMigrated
  <2> QED
    BY <1>0, <2>1, <2>2
<1>4. /\ step' \in [Procs -> Nat] /\ step'[p] = step[p] + 1
      /\ done' \in [Procs -> Nat] /\ done'[p] = 0
      /\ \A q \in Procs : q # p => step'[q] = step[q] /\ done'[q] = done[q]
  BY <1>t, <1>0, <1>1 DEF TypeOK
<1>5. \A q \in Procs : q # p => ~(done[q] > 0)
  BY <1>t, <1>0 DEF LockIsWork
<1>6. TypeOK'
  <2>1. schema' \in [DOMAIN Stmts -> SUBSET Nat]
    <3>1. Created(v) \in SUBSET Nat
      BY DEF Created
    <3> QED
      BY <1>t, <1>0, <3>1 DEF TypeOK
  <2>2. ASSUME NEW q \in Procs
        PROVE  /\ step'[q] \in 1 .. Len(List[q]) + 1
               /\ done'[q] > 0 => done'[q] <= Stmts[List[q][step'[q]]]
    <3>1. CASE q = p
      BY <1>l, <1>1, <1>4, <3>1
    <3>2. CASE q # p
      BY <1>t, <1>4, <1>5, <3>2 DEF TypeOK
    <3> QED
      BY <3>1, <3>2
  <2>3. ledger' \subseteq DOMAIN Stmts /\ lock' \in Procs \cup {Nobody}
    BY <1>t, <1>0, <1>1 DEF TypeOK
  <2> QED
    BY <1>t, <1>0, <1>4, <2>1, <2>2, <2>3 DEF TypeOK, Version
<1>7. Applied'
  <2> SUFFICES ASSUME NEW q \in Procs, pc[q] \in {"steps", "open"}
               PROVE  /\ Contiguous(List[q]) /\ 1 .. step'[q] - 1 \subseteq ledger'
                      /\ recorded[q] \in {0} \cup ledger'
                      /\ pc[q] = "open" => step'[q] = Len(List[q]) + 1
    BY <1>0 DEF Applied
  <2>1. CASE q = p
    <3>1. 1 .. step'[p] - 1 \subseteq ledger'
      BY <1>0, <1>1, <1>4
    <3> QED
      BY <1>0, <1>1, <2>1, <3>1
  <2>2. CASE q # p
    BY <1>t, <1>0, <1>4, <2>2 DEF Applied
  <2> QED
    BY <2>1, <2>2
<1>8. LockIsWork'
  <2> SUFFICES ASSUME NEW q \in Procs PROVE lock' # q /\ ~(done'[q] > 0)
    BY DEF LockIsWork
  <2> QED
    BY <1>0, <1>4, <1>5, MigrationsAssumption
<1> QED
  BY <1>2, <1>3, <1>6, <1>7, <1>8 DEF Inv

\* Open returns past the last step.
LEMMA OpenedStep == ASSUME Inv, NEW p \in Procs, Opened(p) PROVE Inv'
<1>t. TypeOK /\ Prefix /\ NeverHalfMigrated /\ Applied /\ LockIsWork
  BY DEF Inv
<1>0. /\ pc[p] = "steps" /\ step[p] = Len(List[p]) + 1
      /\ pc' = [pc EXCEPT ![p] = "open"]
      /\ UNCHANGED <<ledger, schema, lock, recorded, step, done, why>>
  BY DEF Opened, database
<1>1. pc'[p] = "open" /\ \A q \in Procs : q # p => pc'[q] = pc[q]
  BY <1>t, <1>0 DEF TypeOK
<1>2. lock # p /\ ~(done[p] > 0)
  BY <1>t, <1>0, ListFacts DEF LockIsWork
<1>3. TypeOK'
  BY <1>t, <1>0 DEF TypeOK, Version
<1>4. Prefix' /\ NeverHalfMigrated'
  BY <1>t, <1>0 DEF Prefix, NeverHalfMigrated, Created
<1>5. Applied'
  BY <1>t, <1>0, <1>1 DEF Applied
<1>6. LockIsWork'
  BY <1>t, <1>0, <1>1, <1>2 DEF LockIsWork, Version
<1> QED
  BY <1>3, <1>4, <1>5, <1>6 DEF Inv

-----------------------------------------------------------------------------
(* The theorems *)

\* An empty database satisfies the invariant ...
LEMMA InvInit == Init => Inv
<1> SUFFICES ASSUME Init PROVE Inv
  OBVIOUS
<1>1. TypeOK
  <2>1. \A p \in Procs : Len(List[p]) \in Nat
    BY ListFacts
  <2> QED
    BY <2>1, MigrationsAssumption DEF Init, TypeOK
<1>2. Prefix
  <2>1. ledger = 1 .. 0
    BY DEF Init
  <2> QED
    BY <2>1 DEF Prefix
<1>3. NeverHalfMigrated
  BY DEF Init, NeverHalfMigrated
<1>4. Applied
  BY DEF Init, Applied
<1>5. LockIsWork
  BY MigrationsAssumption DEF Init, LockIsWork
<1> QED
  BY <1>1, <1>2, <1>3, <1>4, <1>5 DEF Inv

\* ... and every step of every process keeps it.
LEMMA InvStep == Inv /\ [Next]_vars => Inv'
<1> SUFFICES ASSUME Inv, [Next]_vars PROVE Inv'
  OBVIOUS
<1>1. CASE Next
  BY <1>1, ReadLedgerStep, SkipStep, ExecStep, ExecFailsStep, CommitStep, OpenedStep, RestartStep
     DEF Next
<1>2. CASE UNCHANGED vars
  BY <1>2 DEF Inv, TypeOK, Prefix, NeverHalfMigrated, Applied, LockIsWork, Version, Created,
              vars, database, opening
<1> QED
  BY <1>1, <1>2

\* The inductive invariant holds in every state.
THEOREM InvHolds == Spec => []Inv
  BY InvInit, InvStep, PTL DEF Spec

\* Whatever binaries open the database, in whatever order, and wherever they
\* fail or crash: a step is there as a whole or not at all, the ledger is a
\* prefix, and a store that opens has every table its binary knows
\* (applyMigrations, applyOne, Open).
THEOREM AllOrNothingHolds == Spec => []AllOrNothing
<1>1. Inv => AllOrNothing
  <2> SUFFICES ASSUME Inv PROVE AllOrNothing
    OBVIOUS
  <2>t. TypeOK /\ Prefix /\ NeverHalfMigrated /\ Applied
    BY DEF Inv
  <2>1. LedgerIsPrefix
    <3>1. PICK n \in Nat : ledger = 1 .. n
      BY <2>t DEF Prefix
    <3>2. Cardinality(1 .. n) = n
      BY FS_Interval
    <3> QED
      BY <3>1, <3>2 DEF LedgerIsPrefix
  <2>2. OpenIsMigrated
    <3> SUFFICES ASSUME NEW p \in Procs, pc[p] = "open", NEW i \in 1 .. Len(List[p])
                 PROVE  schema[List[p][i]] = Created(List[p][i])
      BY DEF OpenIsMigrated
    <3>1. Contiguous(List[p]) /\ 1 .. step[p] - 1 \subseteq ledger /\ step[p] = Len(List[p]) + 1
      BY <2>t DEF Applied
    <3>2. List[p][i] = i /\ i \in ledger /\ i \in DOMAIN Stmts
      BY <3>1, ListFacts DEF Contiguous
    <3> QED
      BY <2>t, <3>2 DEF NeverHalfMigrated
  <2> QED
    BY <2>t, <2>1, <2>2 DEF AllOrNothing
<1> QED
  BY <1>1, InvHolds, PTL

-----------------------------------------------------------------------------
(* SocketListen: the inductive invariant *)

\* Without an overlap, a run that starts is the only one at work at the path.
OneAtWork ==
  ~raced => \A q, r \in Runs :
    q # r /\ listenPc[q] \in Lis!Starting => listenPc[r] \notin Lis!Starting \cup Lis!Closing

\* Without an overlap, what a start or an exit found or did at the path is
\* still so.
FoundStands ==
  ~raced => \A r \in Runs :
    /\ listenPc[r] = "dial" => file # NoFile
    /\ listenPc[r] = "remove" => file # NoFile /\ file \notin listening
    /\ listenPc[r] \in {"bind", "unlinked"} => file = NoFile

\* Whoever bound what is at the path has it open, or crashed.
BinderKnown ==
  \A r \in Runs : file = r => listenPc[r] \in {"chmod", "serving", "closing"} \/ r \in crashed

ListenInv ==
  /\ Lis!TypeOK /\ Lis!AloneIsSafe /\ Lis!LeftoverNeverBlocks
  /\ OneAtWork /\ FoundStands /\ BinderKnown

-----------------------------------------------------------------------------
(* SocketListen: every step keeps it *)

LEMMA MkdirAllStep == ASSUME ListenInv, NEW r \in Runs, Lis!MkdirAll(r) PROVE ListenInv'
<1>1. Lis!TypeOK'
  BY HostAssumption DEF ListenInv, Lis!TypeOK, Lis!Ended, Lis!Starting, Lis!Closing, Lis!MkdirAll, Lis!Goto, Lis!Others, Lis!SocketListenAssumption
<1>2. Lis!AloneIsSafe' /\ Lis!LeftoverNeverBlocks'
  BY HostAssumption, <1>1 DEF ListenInv, Lis!TypeOK, Lis!AloneIsSafe, Lis!LeftoverNeverBlocks, OneAtWork, FoundStands, Lis!Starting, Lis!Closing, Lis!MkdirAll, Lis!Goto, Lis!Others, Lis!SocketListenAssumption
<1>3. OneAtWork'
  BY <1>1 DEF ListenInv, Lis!TypeOK, OneAtWork, Lis!Starting, Lis!Closing, Lis!MkdirAll, Lis!Goto, Lis!Others
<1>4. FoundStands'
  BY HostAssumption, <1>1 DEF ListenInv, Lis!TypeOK, Lis!AloneIsSafe, OneAtWork, FoundStands, Lis!Starting, Lis!Closing, Lis!MkdirAll, Lis!Goto, Lis!Others, Lis!SocketListenAssumption
<1>5. BinderKnown'
  BY HostAssumption, <1>1 DEF ListenInv, Lis!TypeOK, BinderKnown, Lis!Starting, Lis!Closing, Lis!MkdirAll, Lis!Goto, Lis!Others, Lis!SocketListenAssumption
<1> QED
  BY <1>1, <1>2, <1>3, <1>4, <1>5 DEF ListenInv

LEMMA StatStep == ASSUME ListenInv, NEW r \in Runs, Lis!Stat(r) PROVE ListenInv'
<1>1. Lis!TypeOK'
  BY HostAssumption DEF ListenInv, Lis!TypeOK, Lis!Ended, Lis!Starting, Lis!Closing, Lis!Stat, Lis!Goto, Lis!SocketListenAssumption
<1>2. Lis!AloneIsSafe' /\ Lis!LeftoverNeverBlocks'
  BY HostAssumption, <1>1 DEF ListenInv, Lis!TypeOK, Lis!AloneIsSafe, Lis!LeftoverNeverBlocks, OneAtWork, FoundStands, Lis!Starting, Lis!Closing, Lis!Stat, Lis!Goto, Lis!SocketListenAssumption
<1>3. OneAtWork'
  BY <1>1 DEF ListenInv, Lis!TypeOK, OneAtWork, Lis!Starting, Lis!Closing, Lis!Stat, Lis!Goto
<1>4. FoundStands'
  BY HostAssumption, <1>1 DEF ListenInv, Lis!TypeOK, Lis!AloneIsSafe, OneAtWork, FoundStands, Lis!Starting, Lis!Closing, Lis!Stat, Lis!Goto, Lis!SocketListenAssumption
<1>5. BinderKnown'
  BY HostAssumption, <1>1 DEF ListenInv, Lis!TypeOK, BinderKnown, Lis!Starting, Lis!Closing, Lis!Stat, Lis!Goto, Lis!SocketListenAssumption
<1> QED
  BY <1>1, <1>2, <1>3, <1>4, <1>5 DEF ListenInv

LEMMA DialStep == ASSUME ListenInv, NEW r \in Runs, Lis!Dial(r) PROVE ListenInv'
<1>1. Lis!TypeOK'
  BY HostAssumption DEF ListenInv, Lis!TypeOK, Lis!Ended, Lis!Starting, Lis!Closing, Lis!Dial, Lis!Goto, Lis!SocketListenAssumption
<1>2. Lis!AloneIsSafe' /\ Lis!LeftoverNeverBlocks'
  BY HostAssumption, <1>1 DEF ListenInv, Lis!TypeOK, Lis!AloneIsSafe, Lis!LeftoverNeverBlocks, OneAtWork, FoundStands, Lis!Starting, Lis!Closing, Lis!Dial, Lis!Goto, Lis!SocketListenAssumption
<1>3. OneAtWork'
  BY <1>1 DEF ListenInv, Lis!TypeOK, OneAtWork, Lis!Starting, Lis!Closing, Lis!Dial, Lis!Goto
<1>4. FoundStands'
  BY HostAssumption, <1>1 DEF ListenInv, Lis!TypeOK, Lis!AloneIsSafe, OneAtWork, FoundStands, Lis!Starting, Lis!Closing, Lis!Dial, Lis!Goto, Lis!SocketListenAssumption
<1>5. BinderKnown'
  BY HostAssumption, <1>1 DEF ListenInv, Lis!TypeOK, BinderKnown, Lis!Starting, Lis!Closing, Lis!Dial, Lis!Goto, Lis!SocketListenAssumption
<1> QED
  BY <1>1, <1>2, <1>3, <1>4, <1>5 DEF ListenInv

LEMMA RemoveStep == ASSUME ListenInv, NEW r \in Runs, Lis!Remove(r) PROVE ListenInv'
<1>1. Lis!TypeOK'
  BY HostAssumption DEF ListenInv, Lis!TypeOK, Lis!Ended, Lis!Starting, Lis!Closing, Lis!Remove, Lis!Goto, Lis!SocketListenAssumption
<1>2. Lis!AloneIsSafe' /\ Lis!LeftoverNeverBlocks'
  BY HostAssumption, <1>1 DEF ListenInv, Lis!TypeOK, Lis!AloneIsSafe, Lis!LeftoverNeverBlocks, OneAtWork, FoundStands, Lis!Starting, Lis!Closing, Lis!Remove, Lis!Goto, Lis!SocketListenAssumption
<1>3. OneAtWork'
  BY <1>1 DEF ListenInv, Lis!TypeOK, OneAtWork, Lis!Starting, Lis!Closing, Lis!Remove, Lis!Goto
<1>4. FoundStands'
  BY HostAssumption, <1>1 DEF ListenInv, Lis!TypeOK, Lis!AloneIsSafe, OneAtWork, FoundStands, Lis!Starting, Lis!Closing, Lis!Remove, Lis!Goto, Lis!SocketListenAssumption
<1>5. BinderKnown'
  BY HostAssumption, <1>1 DEF ListenInv, Lis!TypeOK, BinderKnown, Lis!Starting, Lis!Closing, Lis!Remove, Lis!Goto, Lis!SocketListenAssumption
<1> QED
  BY <1>1, <1>2, <1>3, <1>4, <1>5 DEF ListenInv

LEMMA BindStep == ASSUME ListenInv, NEW r \in Runs, Lis!Bind(r) PROVE ListenInv'
<1>1. Lis!TypeOK'
  BY HostAssumption DEF ListenInv, Lis!TypeOK, Lis!Ended, Lis!Starting, Lis!Closing, Lis!Bind, Lis!Goto, Lis!SocketListenAssumption
<1>2. Lis!AloneIsSafe' /\ Lis!LeftoverNeverBlocks'
  BY HostAssumption, <1>1 DEF ListenInv, Lis!TypeOK, Lis!AloneIsSafe, Lis!LeftoverNeverBlocks, OneAtWork, FoundStands, Lis!Starting, Lis!Closing, Lis!Bind, Lis!Goto, Lis!SocketListenAssumption
<1>3. OneAtWork'
  BY <1>1 DEF ListenInv, Lis!TypeOK, OneAtWork, Lis!Starting, Lis!Closing, Lis!Bind, Lis!Goto
<1>4. FoundStands'
  BY HostAssumption, <1>1 DEF ListenInv, Lis!TypeOK, Lis!AloneIsSafe, OneAtWork, FoundStands, Lis!Starting, Lis!Closing, Lis!Bind, Lis!Goto, Lis!SocketListenAssumption
<1>5. BinderKnown'
  BY HostAssumption, <1>1 DEF ListenInv, Lis!TypeOK, BinderKnown, Lis!Starting, Lis!Closing, Lis!Bind, Lis!Goto, Lis!SocketListenAssumption
<1> QED
  BY <1>1, <1>2, <1>3, <1>4, <1>5 DEF ListenInv

LEMMA ChmodStep == ASSUME ListenInv, NEW r \in Runs, Lis!Chmod(r) PROVE ListenInv'
<1>1. Lis!TypeOK'
  BY HostAssumption DEF ListenInv, Lis!TypeOK, Lis!Ended, Lis!Starting, Lis!Closing, Lis!Chmod, Lis!Goto, Lis!SocketListenAssumption
<1>2. Lis!AloneIsSafe' /\ Lis!LeftoverNeverBlocks'
  BY HostAssumption, <1>1 DEF ListenInv, Lis!TypeOK, Lis!AloneIsSafe, Lis!LeftoverNeverBlocks, OneAtWork, FoundStands, Lis!Starting, Lis!Closing, Lis!Chmod, Lis!Goto, Lis!SocketListenAssumption
<1>3. OneAtWork'
  BY <1>1 DEF ListenInv, Lis!TypeOK, OneAtWork, Lis!Starting, Lis!Closing, Lis!Chmod, Lis!Goto
<1>4. FoundStands'
  BY HostAssumption, <1>1 DEF ListenInv, Lis!TypeOK, Lis!AloneIsSafe, OneAtWork, FoundStands, Lis!Starting, Lis!Closing, Lis!Chmod, Lis!Goto, Lis!SocketListenAssumption
<1>5. BinderKnown'
  BY HostAssumption, <1>1 DEF ListenInv, Lis!TypeOK, BinderKnown, Lis!Starting, Lis!Closing, Lis!Chmod, Lis!Goto, Lis!SocketListenAssumption
<1> QED
  BY <1>1, <1>2, <1>3, <1>4, <1>5 DEF ListenInv

LEMMA ChmodFailsStep == ASSUME ListenInv, NEW r \in Runs, Lis!ChmodFails(r) PROVE ListenInv'
<1>1. Lis!TypeOK'
  BY HostAssumption DEF ListenInv, Lis!TypeOK, Lis!Ended, Lis!Starting, Lis!Closing, Lis!ChmodFails, Lis!Unlink, Lis!Goto, Lis!Others, Lis!SocketListenAssumption
<1>2. Lis!AloneIsSafe' /\ Lis!LeftoverNeverBlocks'
  BY HostAssumption, <1>1 DEF ListenInv, Lis!TypeOK, Lis!AloneIsSafe, Lis!LeftoverNeverBlocks, OneAtWork, FoundStands, Lis!Starting, Lis!Closing, Lis!ChmodFails, Lis!Unlink, Lis!Goto, Lis!Others, Lis!SocketListenAssumption
<1>3. OneAtWork'
  BY <1>1 DEF ListenInv, Lis!TypeOK, OneAtWork, Lis!Starting, Lis!Closing, Lis!ChmodFails, Lis!Unlink, Lis!Goto, Lis!Others
<1>4. FoundStands'
  BY HostAssumption, <1>1 DEF ListenInv, Lis!TypeOK, Lis!AloneIsSafe, OneAtWork, FoundStands, Lis!Starting, Lis!Closing, Lis!ChmodFails, Lis!Unlink, Lis!Goto, Lis!Others, Lis!SocketListenAssumption
<1>5. BinderKnown'
  BY HostAssumption, <1>1 DEF ListenInv, Lis!TypeOK, BinderKnown, Lis!Starting, Lis!Closing, Lis!ChmodFails, Lis!Unlink, Lis!Goto, Lis!Others, Lis!SocketListenAssumption
<1> QED
  BY <1>1, <1>2, <1>3, <1>4, <1>5 DEF ListenInv

LEMMA DisableStep == ASSUME ListenInv, NEW r \in Runs, Lis!Disable(r) PROVE ListenInv'
<1>1. Lis!TypeOK'
  BY HostAssumption DEF ListenInv, Lis!TypeOK, Lis!Ended, Lis!Starting, Lis!Closing, Lis!Disable, Lis!Goto, Lis!SocketListenAssumption
<1>2. Lis!AloneIsSafe' /\ Lis!LeftoverNeverBlocks'
  BY HostAssumption, <1>1 DEF ListenInv, Lis!TypeOK, Lis!AloneIsSafe, Lis!LeftoverNeverBlocks, OneAtWork, FoundStands, Lis!Starting, Lis!Closing, Lis!Disable, Lis!Goto, Lis!SocketListenAssumption
<1>3. OneAtWork'
  BY <1>1 DEF ListenInv, Lis!TypeOK, OneAtWork, Lis!Starting, Lis!Closing, Lis!Disable, Lis!Goto
<1>4. FoundStands'
  BY HostAssumption, <1>1 DEF ListenInv, Lis!TypeOK, Lis!AloneIsSafe, OneAtWork, FoundStands, Lis!Starting, Lis!Closing, Lis!Disable, Lis!Goto, Lis!SocketListenAssumption
<1>5. BinderKnown'
  BY HostAssumption, <1>1 DEF ListenInv, Lis!TypeOK, BinderKnown, Lis!Starting, Lis!Closing, Lis!Disable, Lis!Goto, Lis!SocketListenAssumption
<1> QED
  BY <1>1, <1>2, <1>3, <1>4, <1>5 DEF ListenInv

LEMMA CloseServerStep == ASSUME ListenInv, NEW r \in Runs, Lis!CloseServer(r) PROVE ListenInv'
<1>1. Lis!TypeOK'
  BY HostAssumption DEF ListenInv, Lis!TypeOK, Lis!Ended, Lis!Starting, Lis!Closing, Lis!CloseServer, Lis!Goto, Lis!Others, Lis!SocketListenAssumption
<1>2. Lis!AloneIsSafe' /\ Lis!LeftoverNeverBlocks'
  BY HostAssumption, <1>1 DEF ListenInv, Lis!TypeOK, Lis!AloneIsSafe, Lis!LeftoverNeverBlocks, OneAtWork, FoundStands, Lis!Starting, Lis!Closing, Lis!CloseServer, Lis!Goto, Lis!Others, Lis!SocketListenAssumption
<1>3. OneAtWork'
  BY <1>1 DEF ListenInv, Lis!TypeOK, OneAtWork, Lis!Starting, Lis!Closing, Lis!CloseServer, Lis!Goto, Lis!Others
<1>4. FoundStands'
  BY HostAssumption, <1>1 DEF ListenInv, Lis!TypeOK, Lis!AloneIsSafe, OneAtWork, FoundStands, Lis!Starting, Lis!Closing, Lis!CloseServer, Lis!Goto, Lis!Others, Lis!SocketListenAssumption
<1>5. BinderKnown'
  BY HostAssumption, <1>1 DEF ListenInv, Lis!TypeOK, BinderKnown, Lis!Starting, Lis!Closing, Lis!CloseServer, Lis!Goto, Lis!Others, Lis!SocketListenAssumption
<1> QED
  BY <1>1, <1>2, <1>3, <1>4, <1>5 DEF ListenInv

LEMMA CloseListenerStep == ASSUME ListenInv, NEW r \in Runs, Lis!CloseListener(r) PROVE ListenInv'
<1>1. Lis!TypeOK'
  BY HostAssumption DEF ListenInv, Lis!TypeOK, Lis!Ended, Lis!Starting, Lis!Closing, Lis!CloseListener, Lis!Unlink, Lis!Goto, Lis!SocketListenAssumption
<1>2. Lis!AloneIsSafe' /\ Lis!LeftoverNeverBlocks'
  BY HostAssumption, <1>1 DEF ListenInv, Lis!TypeOK, Lis!AloneIsSafe, Lis!LeftoverNeverBlocks, OneAtWork, FoundStands, Lis!Starting, Lis!Closing, Lis!CloseListener, Lis!Unlink, Lis!Goto, Lis!SocketListenAssumption
<1>3. OneAtWork'
  BY <1>1 DEF ListenInv, Lis!TypeOK, OneAtWork, Lis!Starting, Lis!Closing, Lis!CloseListener, Lis!Unlink, Lis!Goto
<1>4. FoundStands'
  BY HostAssumption, <1>1 DEF ListenInv, Lis!TypeOK, Lis!AloneIsSafe, OneAtWork, FoundStands, Lis!Starting, Lis!Closing, Lis!CloseListener, Lis!Unlink, Lis!Goto, Lis!SocketListenAssumption
<1>5. BinderKnown'
  BY HostAssumption, <1>1 DEF ListenInv, Lis!TypeOK, BinderKnown, Lis!Starting, Lis!Closing, Lis!CloseListener, Lis!Unlink, Lis!Goto, Lis!SocketListenAssumption
<1> QED
  BY <1>1, <1>2, <1>3, <1>4, <1>5 DEF ListenInv

LEMMA CloseFdStep == ASSUME ListenInv, NEW r \in Runs, Lis!CloseFd(r) PROVE ListenInv'
<1>1. Lis!TypeOK'
  BY HostAssumption DEF ListenInv, Lis!TypeOK, Lis!Ended, Lis!Starting, Lis!Closing, Lis!CloseFd, Lis!Goto, Lis!SocketListenAssumption
<1>2. Lis!AloneIsSafe' /\ Lis!LeftoverNeverBlocks'
  BY HostAssumption, <1>1 DEF ListenInv, Lis!TypeOK, Lis!AloneIsSafe, Lis!LeftoverNeverBlocks, OneAtWork, FoundStands, Lis!Starting, Lis!Closing, Lis!CloseFd, Lis!Goto, Lis!SocketListenAssumption
<1>3. OneAtWork'
  BY <1>1 DEF ListenInv, Lis!TypeOK, OneAtWork, Lis!Starting, Lis!Closing, Lis!CloseFd, Lis!Goto
<1>4. FoundStands'
  BY HostAssumption, <1>1 DEF ListenInv, Lis!TypeOK, Lis!AloneIsSafe, OneAtWork, FoundStands, Lis!Starting, Lis!Closing, Lis!CloseFd, Lis!Goto, Lis!SocketListenAssumption
<1>5. BinderKnown'
  BY HostAssumption, <1>1 DEF ListenInv, Lis!TypeOK, BinderKnown, Lis!Starting, Lis!Closing, Lis!CloseFd, Lis!Goto, Lis!SocketListenAssumption
<1> QED
  BY <1>1, <1>2, <1>3, <1>4, <1>5 DEF ListenInv

LEMMA CrashStep == ASSUME ListenInv, NEW r \in Runs, Lis!Crash(r) PROVE ListenInv'
<1>1. Lis!TypeOK'
  BY HostAssumption DEF ListenInv, Lis!TypeOK, Lis!Ended, Lis!Starting, Lis!Closing, Lis!Crash, Lis!Goto, Lis!SocketListenAssumption
<1>2. Lis!AloneIsSafe' /\ Lis!LeftoverNeverBlocks'
  BY HostAssumption, <1>1 DEF ListenInv, Lis!TypeOK, Lis!AloneIsSafe, Lis!LeftoverNeverBlocks, OneAtWork, FoundStands, Lis!Starting, Lis!Closing, Lis!Crash, Lis!Goto, Lis!Ended, Lis!SocketListenAssumption
<1>3. OneAtWork'
  BY <1>1 DEF ListenInv, Lis!TypeOK, OneAtWork, Lis!Starting, Lis!Closing, Lis!Crash, Lis!Goto, Lis!Ended
<1>4. FoundStands'
  BY HostAssumption, <1>1 DEF ListenInv, Lis!TypeOK, Lis!AloneIsSafe, OneAtWork, FoundStands, Lis!Starting, Lis!Closing, Lis!Crash, Lis!Goto, Lis!Ended, Lis!SocketListenAssumption
<1>5. BinderKnown'
  BY HostAssumption, <1>1 DEF ListenInv, Lis!TypeOK, BinderKnown, Lis!Starting, Lis!Closing, Lis!Crash, Lis!Goto, Lis!Ended, Lis!SocketListenAssumption
<1> QED
  BY <1>1, <1>2, <1>3, <1>4, <1>5 DEF ListenInv

-----------------------------------------------------------------------------
(* SocketListen: the theorem *)

LEMMA ListenInit == Lis!Init => ListenInv
<1> SUFFICES ASSUME Lis!Init PROVE ListenInv
  OBVIOUS
<1>1. Lis!TypeOK
  BY DEF Lis!Init, Lis!TypeOK, Lis!Starting, Lis!Closing, Lis!Ended
<1>2. Lis!AloneIsSafe /\ Lis!LeftoverNeverBlocks
  BY DEF Lis!Init, Lis!AloneIsSafe, Lis!LeftoverNeverBlocks
<1>3. OneAtWork /\ FoundStands
  BY DEF Lis!Init, OneAtWork, FoundStands, Lis!Starting, Lis!Closing
<1>4. BinderKnown
  BY HostAssumption DEF Lis!Init, BinderKnown, Lis!SocketListenAssumption
<1> QED
  BY <1>1, <1>2, <1>3, <1>4 DEF ListenInv

LEMMA ListenStepKeeps == ListenInv /\ [Lis!Next]_(Lis!vars) => ListenInv'
<1> SUFFICES ASSUME ListenInv, [Lis!Next]_(Lis!vars) PROVE ListenInv'
  OBVIOUS
<1>1. CASE UNCHANGED Lis!vars
  BY <1>1 DEF ListenInv, Lis!TypeOK, Lis!AloneIsSafe, Lis!LeftoverNeverBlocks, OneAtWork,
    FoundStands, BinderKnown, Lis!vars
<1>2. CASE Lis!Next
  <2>1. PICK r \in Runs :
          \/ Lis!ListenSteps(r)
          \/ Lis!CloseServer(r) \/ Lis!CloseListener(r) \/ Lis!CloseFd(r)
          \/ Lis!Crash(r)
    BY <1>2 DEF Lis!Next
  <2>2. CASE Lis!ListenSteps(r)
    BY <2>2, MkdirAllStep, StatStep, DialStep, RemoveStep, BindStep, ChmodStep, ChmodFailsStep,
      DisableStep DEF Lis!ListenSteps
  <2> QED
    BY <2>1, <2>2, CloseServerStep, CloseListenerStep, CloseFdStep, CrashStep
<1> QED
  BY <1>1, <1>2

\* Listen hands the path over, whatever the number of runs, of crashes and of
\* failures of single system calls: as long as starts and exits do not overlap,
\* the path leads to the one run that serves it and a leftover never blocks a
\* start; and a dead file at the path always means that its run crashed.
THEOREM PathIsHandedOverHolds == Lis!Spec => []PathIsHandedOver
<1>1. ListenInv => PathIsHandedOver
  <2> SUFFICES ASSUME ListenInv PROVE PathIsHandedOver
    OBVIOUS
  <2>1. Lis!DeadFileMeansCrash
    BY DEF ListenInv, Lis!TypeOK, BinderKnown, Lis!DeadFileMeansCrash, Lis!Closing
  <2> QED
    BY <2>1 DEF ListenInv, PathIsHandedOver, Lis!PathIsHandedOver
<1> QED
  BY <1>1, ListenInit, ListenStepKeeps, PTL DEF Lis!Spec

-----------------------------------------------------------------------------
(* History: the inductive invariant *)

\* The callers that have still to enforce the cap.
Enforcing == {w \in Writers : historyPc[w] \in {"ttl", "sweep", "count", "evict"}}

\* The cap holds up to one row per caller that has still to enforce it and one
\* per call that failed.
TableBound == Cardinality(rows) <= Cap + Cardinality(Enforcing) + historyFaults

\* A sweep looks back from the clock, and at rows that had arrived.
SweepsLookBack ==
  \A w \in Writers : cutoff[w] <= now - TTL /\ swept[w] <= Len(arrived)

HistoryInv ==
  /\ Hist!TypeOK /\ TableBound /\ SweepsLookBack
  /\ Hist!NoLapsedAfterSweep /\ Hist!NoHoles /\ Hist!StoredOnce

-----------------------------------------------------------------------------
(* History: counting rows and callers *)

\* The instance counts as this module does.
LEMMA SameCount ==
  /\ \A S : Hist!IsFiniteSet(S) <=> IsFiniteSet(S)
  /\ \A S : Hist!Cardinality(S) = Cardinality(S)
<1>1. ASSUME NEW S PROVE Hist!IsFiniteSet(S) <=> IsFiniteSet(S)
  BY DEF IsFiniteSet, Hist!IsFiniteSet
<1>2. ASSUME NEW S PROVE Hist!Cardinality(S) = Cardinality(S)
  BY Zenon DEF Cardinality, Hist!Cardinality
<1> QED
  BY <1>1, <1>2

LEMMA HistoryConstants ==
  /\ IsFiniteSet(Writers)
  /\ TTL \in Nat /\ TTL > 0 /\ Cap \in Nat /\ Cap > 0
  /\ MaxIds \in Nat /\ MaxArrived \in Nat /\ MaxTime \in Nat /\ HistoryMaxFaults \in Nat
  BY HostAssumption, SameCount DEF Hist!HistoryAssumption

\* Dropping the k members of a set of numbers that have fewer than k below them
\* leaves k fewer, or none: the members left have different counts below them,
\* all from k to one less than the size of the set.
LEMMA FewerWithoutTheOldest ==
  ASSUME NEW m \in Nat, NEW S, S \subseteq 1 .. m, NEW k \in Nat,
         NEW D, D = {s \in S : Cardinality({t \in S : t < s}) >= k}
  PROVE  /\ IsFiniteSet(S) /\ Cardinality(S) \in 0 .. m
         /\ IsFiniteSet(D) /\ Cardinality(D) \in Nat
         /\ Cardinality(D) = 0 \/ Cardinality(D) <= Cardinality(S) - k
<1> DEFINE Below(s) == {t \in S : t < s}
           rank == [s \in D |-> Cardinality(Below(s))]
           size == Cardinality(S)
           top == size - 1
<1>1. IsFiniteSet(S) /\ size \in 0 .. m
  <2>1. IsFiniteSet(1 .. m) /\ Cardinality(1 .. m) = m
    BY FS_Interval
  <2>2. IsFiniteSet(S) /\ Cardinality(S) <= m
    BY <2>1, FS_Subset
  <2> QED
    BY <2>2, FS_CardinalityType
<1>2. ASSUME NEW s \in S PROVE IsFiniteSet(Below(s)) /\ Cardinality(Below(s)) \in 0 .. top
  <2>1. Below(s) \in SUBSET S /\ s \in S /\ s \notin Below(s)
    OBVIOUS
  <2> HIDE DEF Below
  <2>2. /\ IsFiniteSet(Below(s)) /\ Cardinality(Below(s)) <= size
        /\ Cardinality(Below(s)) = size => Below(s) = S
    BY <1>1, <2>1, FS_Subset
  <2>3. Cardinality(Below(s)) \in Nat
    BY <2>2, FS_CardinalityType
  <2>4. Cardinality(Below(s)) # size
    BY <2>1, <2>2
  <2> QED
    BY <1>1, <2>2, <2>3, <2>4
<1>3. ASSUME NEW i \in S, NEW j \in S, i < j
      PROVE  Cardinality(Below(i)) # Cardinality(Below(j))
  <2>1. \A t \in S : t \in Nat
    OBVIOUS
  <2>2. Below(i) \in SUBSET Below(j) /\ i \in Below(j) /\ i \notin Below(i)
    <3>1. \A t \in S : t < i => t < j
      BY <1>3, <2>1
    <3>2. i < j /\ ~(i < i)
      BY <1>3, <2>1
    <3> QED
      BY <3>1, <3>2
  <2>3. Below(i) # Below(j) /\ IsFiniteSet(Below(j))
    BY <1>2, <2>2
  <2> HIDE DEF Below
  <2> QED
    BY <2>2, <2>3, FS_Subset
<1>4. D \in SUBSET S /\ \A s \in D : Cardinality(Below(s)) \in k .. top
  BY <1>2
<1>5. IsFiniteSet(D) /\ Cardinality(D) \in Nat
  BY <1>1, <1>4, FS_Subset, FS_CardinalityType
<1>6. rank \in [D -> k .. top]
  BY <1>4
<1>7. \A i, j \in D : rank[i] = rank[j] => i = j
  <2> SUFFICES ASSUME NEW i \in D, NEW j \in D, i # j PROVE rank[i] # rank[j]
    OBVIOUS
  <2>1. i \in S /\ j \in S /\ (i < j \/ j < i)
    BY <1>4
  <2> QED
    BY <1>3, <2>1
<1>8. rank \in Injection(D, k .. top)
  BY <1>6, <1>7 DEF Injection, IsInjective
<1>9. /\ IsFiniteSet(k .. top)
      /\ Cardinality(k .. top) = IF k > top THEN 0 ELSE (top - k) + 1
  <2>1. top \in Int
    BY <1>1
  <2> HIDE DEF top
  <2> QED
    BY <2>1, FS_Interval
<1>10. Cardinality(D) <= Cardinality(k .. top)
  BY <1>8, <1>9, FS_Injection
<1> HIDE DEF Below, rank
<1>11. Cardinality(D) = 0 \/ Cardinality(D) <= size - k
  BY <1>1, <1>5, <1>9, <1>10
<1> QED
  BY <1>1, <1>5, <1>11

\* The table is finite.
LEMMA TableIsFinite ==
  ASSUME HistoryInv
  PROVE  /\ IsFiniteSet(rows)
         /\ Len(arrived) \in Nat /\ Len(arrived) <= MaxArrived
         /\ Cardinality(rows) \in 0 .. Len(arrived)
<1>1. Len(arrived) \in Nat /\ rows \subseteq 1 .. Len(arrived) /\ Len(arrived) <= MaxArrived
  BY DEF HistoryInv, Hist!TypeOK
<1> QED
  BY <1>1, FewerWithoutTheOldest

\* Who enforces is a finite set, and a caller that joins or leaves changes its
\* size by one.
LEMMA EnforcingCount ==
  ASSUME HistoryInv, NEW w \in Writers
  PROVE  /\ Cardinality(Enforcing) \in Nat
         /\ Cardinality(Enforcing \cup {w}) =
              IF w \in Enforcing THEN Cardinality(Enforcing) ELSE Cardinality(Enforcing) + 1
         /\ Cardinality(Enforcing \ {w}) =
              IF w \in Enforcing THEN Cardinality(Enforcing) - 1 ELSE Cardinality(Enforcing)
<1>1. IsFiniteSet(Enforcing)
  <2>1. IsFiniteSet(Writers)
    BY HistoryConstants
  <2>2. Enforcing \subseteq Writers
    BY DEF Enforcing
  <2> QED
    BY <2>1, <2>2, FS_Subset
<1> QED
  BY <1>1, FS_CardinalityType, FS_AddElement, FS_RemoveElement

-----------------------------------------------------------------------------
(* History: every step keeps it *)

\* Whatever arrived is a row, and times are numbers.
LEMMA ArrivedFacts ==
  ASSUME HistoryInv
  PROVE  /\ now \in 0 .. MaxTime /\ now \in Int /\ TTL \in Int
         /\ arrived \in Seq(Hist!Row) /\ rows \subseteq 1 .. Len(arrived)
         /\ \A s \in 1 .. Len(arrived) : arrived[s].at \in Int
         /\ \A w \in Writers : /\ cutoff[w] \in Int /\ cutoff[w] <= now - TTL
                               /\ swept[w] \in Int /\ swept[w] <= Len(arrived)
<1>1. /\ now \in 0 .. MaxTime /\ now \in Int /\ TTL \in Int
      /\ arrived \in Seq(Hist!Row) /\ rows \subseteq 1 .. Len(arrived)
  BY HistoryConstants DEF HistoryInv, Hist!TypeOK
<1>2. ASSUME NEW s \in 1 .. Len(arrived) PROVE arrived[s].at \in Int
  <2>1. arrived[s] \in Hist!Row
    BY <1>1
  <2> QED
    BY <2>1, HistoryConstants DEF Hist!Row
<1>3. \A w \in Writers : cutoff[w] \in Int /\ swept[w] \in Int
  BY HistoryConstants DEF HistoryInv, Hist!TypeOK
<1> QED
  BY <1>1, <1>2, <1>3 DEF HistoryInv, SweepsLookBack

\* The terms of the bound are numbers.
LEMMA BoundFacts ==
  ASSUME HistoryInv
  PROVE  /\ Cardinality(rows) \in Nat /\ Cardinality(Enforcing) \in Nat
         /\ Cap \in Nat /\ historyFaults \in Nat
         /\ Cardinality(rows) <= Cap + Cardinality(Enforcing) + historyFaults
<1>1. Cardinality(rows) \in Nat
  BY TableIsFinite
<1>2. Cardinality(Enforcing) \in Nat
  <2>1. IsFiniteSet(Enforcing)
    BY HistoryConstants, FS_Subset DEF Enforcing
  <2> QED
    BY <2>1, FS_CardinalityType
<1> QED
  BY <1>1, <1>2, HistoryConstants DEF HistoryInv, TableBound, Hist!TypeOK

\* A step that moves one caller and leaves the table alone.
LEMMA TableUntouched ==
  ASSUME HistoryInv, UNCHANGED <<rows, arrived, now>>
  PROVE  Hist!NoHoles' /\ Hist!StoredOnce'
  BY DEF HistoryInv, Hist!NoHoles, Hist!StoredOnce

\* A call begins: nothing is stored yet.
LEMMA StampStep ==
  ASSUME HistoryInv, NEW w \in Writers, NEW id \in 1 .. MaxIds, Hist!Stamp(w, id)
  PROVE  HistoryInv'
<1> DEFINE row == [id |-> id, at |-> now]
<1>1. /\ UNCHANGED <<rows, arrived, now, cutoff, swept, reading, excess, historyFaults>>
      /\ historyPc[w] = "idle" /\ historyPc' = [historyPc EXCEPT ![w] = "insert"]
      /\ hand' = [hand EXCEPT ![w] = row]
  BY DEF Hist!Stamp, Hist!Goto
<1>2. row \in Hist!Row
  BY ArrivedFacts DEF Hist!Row
<1> HIDE DEF row
<1>3. /\ hand' \in [Writers -> Hist!Row \cup {Hist!NoRow}]
      /\ \A v \in Writers : historyPc'[v] = "insert" => hand'[v] \in Hist!Row
  BY <1>1, <1>2 DEF HistoryInv, Hist!TypeOK
<1>4. /\ historyPc' \in [Writers -> {"idle", "insert", "ttl", "sweep", "count", "evict", "query"}]
      /\ \A v \in Writers : historyPc'[v] = "evict" => excess'[v] > 0
  BY <1>1 DEF HistoryInv, Hist!TypeOK
<1>5. Hist!TypeOK'
  BY <1>1, <1>3, <1>4 DEF HistoryInv, Hist!TypeOK
<1>6. SweepsLookBack' /\ Hist!NoLapsedAfterSweep'
  BY <1>1 DEF HistoryInv, Hist!TypeOK, SweepsLookBack, Hist!NoLapsedAfterSweep
<1>7. Enforcing' = Enforcing
  BY <1>1 DEF Enforcing, HistoryInv, Hist!TypeOK
<1>8. TableBound'
  BY <1>1, <1>7 DEF TableBound, HistoryInv
<1> QED
  BY <1>1, <1>5, <1>6, <1>8, TableUntouched DEF HistoryInv

\* An append: at most one row more, and one caller more that enforces the cap.
LEMMA InsertStep == ASSUME HistoryInv, NEW w \in Writers, Hist!Insert(w) PROVE HistoryInv'
<1> DEFINE n == Len(arrived)
           row == hand[w]
<1>1. /\ historyPc[w] = "insert"
      /\ historyPc' = [historyPc EXCEPT ![w] = "ttl"]
      /\ hand' = [hand EXCEPT ![w] = Hist!NoRow]
      /\ UNCHANGED <<now, cutoff, swept, reading, excess, historyFaults>>
  BY DEF Hist!Insert, Hist!Goto
<1>2. Cardinality(Enforcing') = Cardinality(Enforcing) + 1
  <2>1. Enforcing' = Enforcing \cup {w} /\ w \notin Enforcing
    BY <1>1 DEF Enforcing, HistoryInv, Hist!TypeOK
  <2> QED
    BY <2>1, EnforcingCount
<1>h. /\ row \in Hist!Row
      /\ hand' \in [Writers -> Hist!Row \cup {Hist!NoRow}]
      /\ \A v \in Writers : historyPc'[v] = "insert" => hand'[v] \in Hist!Row
  BY <1>1 DEF HistoryInv, Hist!TypeOK
<1>p. /\ historyPc' \in [Writers -> {"idle", "insert", "ttl", "sweep", "count", "evict", "query"}]
      /\ \A v \in Writers : historyPc'[v] = "evict" => excess'[v] > 0
  BY <1>1 DEF HistoryInv, Hist!TypeOK
<1>3. CASE \A s \in rows : arrived[s].id # row.id
  <2>1. /\ n < MaxArrived /\ rows' = rows \cup {n + 1}
        /\ arrived' = Append(arrived, row)
    BY <1>3 DEF Hist!Insert
  <2>2. /\ arrived \in Seq(Hist!Row) /\ n \in Nat /\ rows \subseteq 1 .. n /\ MaxArrived \in Nat
    BY HistoryConstants DEF HistoryInv, Hist!TypeOK
  <2>3. /\ arrived' \in Seq(Hist!Row) /\ Len(arrived') = n + 1
        /\ \A s \in 1 .. n : arrived'[s] = arrived[s]
        /\ arrived'[n + 1] = row
    BY <1>h, <2>1, <2>2
  <2> HIDE DEF n, row
  <2>5. Hist!TypeOK'
    <3>1. rows' \subseteq 1 .. Len(arrived') /\ Len(arrived') <= MaxArrived
      <4>1. n + 1 <= MaxArrived
        BY <2>1, <2>2
      <4>2. rows' \subseteq 1 .. n + 1
        BY <2>1, <2>2
      <4> QED
        BY <4>1, <4>2, <2>3
    <3> QED
      BY <1>1, <1>h, <1>p, <2>3, <3>1 DEF HistoryInv, Hist!TypeOK
  <2>6. SweepsLookBack'
    <3>1. \A v \in Writers : cutoff[v] <= now - TTL /\ swept[v] <= n + 1
      BY <2>2, ArrivedFacts DEF n
    <3> QED
      BY <1>1, <2>3, <3>1 DEF SweepsLookBack
  <2>7. Hist!NoLapsedAfterSweep'
    <3> SUFFICES ASSUME NEW v \in Writers, historyPc'[v] \in {"count", "evict", "query"}, NEW s \in rows',
                        s <= swept[v]
                 PROVE  arrived'[s].at > cutoff[v]
      BY <1>1 DEF Hist!NoLapsedAfterSweep
    <3>1. historyPc[v] \in {"count", "evict", "query"}
      BY <1>1 DEF HistoryInv, Hist!TypeOK
    <3>2. swept[v] \in Int /\ swept[v] <= n
      BY ArrivedFacts DEF n
    <3>3. s \in rows
      BY <2>1, <2>2, <3>2
    <3>4. arrived'[s] = arrived[s]
      BY <2>2, <2>3, <3>3
    <3> QED
      BY <3>1, <3>3, <3>4 DEF HistoryInv, Hist!NoLapsedAfterSweep
  <2>8. Hist!NoHoles'
    <3> SUFFICES ASSUME NEW s \in rows', NEW t \in s .. n + 1
                 PROVE  t \in rows' \/ arrived'[t].at <= now - TTL
      BY <1>1, <2>3 DEF Hist!NoHoles
    <3>1. CASE t = n + 1
      BY <3>1, <2>1
    <3>2. CASE t # n + 1
      <4>1. s \in rows /\ s \in 1 .. n
        BY <3>2, <2>1, <2>2
      <4>2. t \in s .. n /\ t \in 1 .. n
        BY <3>2, <4>1, <2>2
      <4>3. t \in rows \/ arrived[t].at <= now - TTL
        BY <4>1, <4>2 DEF HistoryInv, Hist!NoHoles, n
      <4> QED
        BY <4>2, <4>3, <2>1, <2>3
    <3> QED
      BY <3>1, <3>2
  <2>9. Hist!StoredOnce'
    <3> SUFFICES ASSUME NEW s \in rows', NEW t \in rows', arrived'[s].id = arrived'[t].id
                 PROVE  s = t
      BY DEF Hist!StoredOnce
    <3>1. \A u \in rows : arrived'[u] = arrived[u]
      BY <2>2, <2>3
    <3>2. CASE s \in rows /\ t \in rows
      BY <3>1, <3>2 DEF HistoryInv, Hist!StoredOnce
    <3>3. CASE s \in rows /\ t \notin rows
      BY <1>3, <3>1, <3>3, <2>1, <2>2, <2>3
    <3>4. CASE s \notin rows /\ t \in rows
      BY <1>3, <3>1, <3>4, <2>1, <2>2, <2>3
    <3> QED
      BY <3>2, <3>3, <3>4, <2>1
  <2>10. TableBound'
    <3>1. n + 1 \notin rows
      BY <2>2
    <3>2. Cardinality(rows') = Cardinality(rows) + 1
      BY <2>1, <3>1, TableIsFinite, FS_AddElement
    <3> QED
      BY <1>1, <1>2, <3>2, BoundFacts DEF TableBound
  <2> QED
    BY <2>5, <2>6, <2>7, <2>8, <2>9, <2>10 DEF HistoryInv
<1>4. CASE ~ \A s \in rows : arrived[s].id # row.id
  <2>1. rows' = rows /\ arrived' = arrived
    BY <1>4 DEF Hist!Insert
  <2>2. Hist!TypeOK'
    BY <1>1, <1>h, <1>p, <2>1 DEF HistoryInv, Hist!TypeOK
  <2>3. SweepsLookBack' /\ Hist!NoLapsedAfterSweep'
    BY <1>1, <2>1 DEF HistoryInv, Hist!TypeOK, SweepsLookBack, Hist!NoLapsedAfterSweep
  <2>4. TableBound'
    BY <1>1, <1>2, <2>1, BoundFacts DEF TableBound
  <2> QED
    BY <1>1, <2>1, <2>2, <2>3, <2>4, TableUntouched DEF HistoryInv
<1> QED
  BY <1>3, <1>4

LEMMA OpenStep == ASSUME HistoryInv, NEW w \in Writers, Hist!Open(w) PROVE HistoryInv'
<1>1. /\ UNCHANGED <<rows, arrived, now, hand, cutoff, swept, excess, historyFaults>>
      /\ reading' = reading \cup {w} /\ historyPc[w] = "idle"
      /\ historyPc' = [historyPc EXCEPT ![w] = "ttl"]
  BY DEF Hist!Open, Hist!Goto
<1>2. Hist!TypeOK' /\ SweepsLookBack' /\ Hist!NoLapsedAfterSweep'
  BY <1>1 DEF HistoryInv, Hist!TypeOK, SweepsLookBack, Hist!NoLapsedAfterSweep
<1>3. Cardinality(Enforcing') = Cardinality(Enforcing) + 1
  <2>1. Enforcing' = Enforcing \cup {w} /\ w \notin Enforcing
    BY <1>1 DEF Enforcing, HistoryInv, Hist!TypeOK
  <2> QED
    BY <2>1, EnforcingCount
<1>4. TableBound'
  BY <1>1, <1>3, BoundFacts DEF TableBound
<1> QED
  BY <1>1, <1>2, <1>4, TableUntouched DEF HistoryInv

LEMMA ReadCutoffStep == ASSUME HistoryInv, NEW w \in Writers, Hist!ReadCutoff(w) PROVE HistoryInv'
<1>1. /\ UNCHANGED <<rows, arrived, now, hand, swept, reading, excess, historyFaults>>
      /\ historyPc[w] = "ttl"
      /\ historyPc' = [historyPc EXCEPT ![w] = "sweep"]
      /\ cutoff' = [cutoff EXCEPT ![w] = now - TTL]
  BY DEF Hist!ReadCutoff, Hist!Goto
<1>2. /\ TTL \in Nat /\ MaxTime \in Nat /\ now \in 0 .. MaxTime
      /\ cutoff \in [Writers -> -TTL .. MaxTime]
  BY HistoryConstants DEF HistoryInv, Hist!TypeOK
<1>3. cutoff' \in [Writers -> -TTL .. MaxTime]
  BY <1>1, <1>2
<1>4. /\ historyPc' \in [Writers -> {"idle", "insert", "ttl", "sweep", "count", "evict", "query"}]
      /\ \A v \in Writers : historyPc'[v] = "evict" => excess'[v] > 0
      /\ \A v \in Writers : historyPc'[v] = "insert" => hand'[v] \in Hist!Row
  BY <1>1 DEF HistoryInv, Hist!TypeOK
<1>5. Hist!TypeOK'
  BY <1>1, <1>3, <1>4 DEF HistoryInv, Hist!TypeOK
<1>6. SweepsLookBack'
  BY <1>1, <1>2 DEF HistoryInv, SweepsLookBack
<1>7. Hist!NoLapsedAfterSweep'
  BY <1>1, <1>2 DEF HistoryInv, Hist!TypeOK, Hist!NoLapsedAfterSweep
<1>8. Enforcing' = Enforcing
  BY <1>1 DEF Enforcing, HistoryInv, Hist!TypeOK
<1>9. TableBound'
  BY <1>1, <1>8 DEF TableBound, HistoryInv
<1> QED
  BY <1>1, <1>5, <1>6, <1>7, <1>9, TableUntouched DEF HistoryInv

\* A sweep removes rows that have lapsed, wherever they are in the table.
LEMMA TTLSweepStep == ASSUME HistoryInv, NEW w \in Writers, Hist!TTLSweep(w) PROVE HistoryInv'
<1>1. /\ UNCHANGED <<arrived, now, hand, cutoff, reading, excess, historyFaults>>
      /\ historyPc[w] = "sweep"
      /\ historyPc' = [historyPc EXCEPT ![w] = "count"]
      /\ swept' = [swept EXCEPT ![w] = Len(arrived)]
      /\ rows' = {s \in rows : arrived[s].at > cutoff[w]}
  BY DEF Hist!TTLSweep, Hist!Goto, Hist!Unlapsed
<1>2. /\ now \in Int /\ TTL \in Int /\ Len(arrived) \in Nat /\ MaxArrived \in Nat
      /\ Len(arrived) <= MaxArrived
      /\ \A s \in 1 .. Len(arrived) : arrived[s].at \in Int
      /\ rows \subseteq 1 .. Len(arrived) /\ swept \in [Writers -> 0 .. MaxArrived]
      /\ cutoff[w] \in Int /\ cutoff[w] <= now - TTL
  BY HistoryConstants, ArrivedFacts, TableIsFinite DEF HistoryInv, Hist!TypeOK
<1>3. Hist!TypeOK'
  <2>1. swept' \in [Writers -> 0 .. MaxArrived]
    BY <1>1, <1>2
  <2>2. rows' \subseteq 1 .. Len(arrived')
    BY <1>1, <1>2
  <2>3. /\ historyPc' \in [Writers -> {"idle", "insert", "ttl", "sweep", "count", "evict", "query"}]
        /\ \A v \in Writers : historyPc'[v] = "evict" => excess'[v] > 0
        /\ \A v \in Writers : historyPc'[v] = "insert" => hand'[v] \in Hist!Row
    BY <1>1 DEF HistoryInv, Hist!TypeOK
  <2> QED
    BY <1>1, <2>1, <2>2, <2>3 DEF HistoryInv, Hist!TypeOK
<1>4. SweepsLookBack'
  BY <1>1, <1>2 DEF HistoryInv, SweepsLookBack
<1>5. Hist!NoLapsedAfterSweep'
  BY <1>1, <1>2 DEF HistoryInv, Hist!NoLapsedAfterSweep, Hist!TypeOK
<1>6. Hist!NoHoles'
  <2> SUFFICES ASSUME NEW s \in rows', NEW t \in s .. Len(arrived)
               PROVE  t \in rows' \/ arrived[t].at <= now - TTL
    BY <1>1 DEF Hist!NoHoles
  <2>1. s \in rows /\ t \in 1 .. Len(arrived)
    BY <1>1, <1>2
  <2>2. t \in rows \/ arrived[t].at <= now - TTL
    BY <2>1 DEF HistoryInv, Hist!NoHoles
  <2>3. t \in rows => arrived[t].at > cutoff[w] \/ arrived[t].at <= now - TTL
    BY <1>2, <2>1
  <2> QED
    BY <1>1, <2>2, <2>3
<1>7. Hist!StoredOnce'
  BY <1>1 DEF HistoryInv, Hist!StoredOnce
<1>8. TableBound'
  <2>1. Enforcing' = Enforcing
    BY <1>1 DEF Enforcing, HistoryInv, Hist!TypeOK
  <2>2. Cardinality(rows') <= Cardinality(rows) /\ Cardinality(rows') \in Nat
    <3>1. rows' \subseteq rows /\ IsFiniteSet(rows)
      BY <1>1, TableIsFinite
    <3> QED
      BY <3>1, FS_Subset, FS_CardinalityType
  <2> QED
    BY <1>1, <2>1, <2>2, BoundFacts DEF TableBound
<1> QED
  BY <1>3, <1>4, <1>5, <1>6, <1>7, <1>8 DEF HistoryInv

\* A caller that ends or returns to Open enforces nothing any more, and its
\* locals go or stay.
LEMMA ReturnFacts ==
  ASSUME HistoryInv, NEW w \in Writers, Hist!Return(w) \/ Hist!Leave(w), UNCHANGED <<now, arrived>>
  PROVE  /\ \E s \in {"query", "idle"} : historyPc' = [historyPc EXCEPT ![w] = s]
         /\ historyPc' \in [Writers -> {"idle", "insert", "ttl", "sweep", "count", "evict", "query"}]
         /\ cutoff' \in [Writers -> -TTL .. MaxTime] /\ swept' \in [Writers -> 0 .. MaxArrived]
         /\ SweepsLookBack'
         /\ \A v \in Writers : historyPc'[v] \in {"count", "evict", "query"} =>
              UNCHANGED <<cutoff[v], swept[v]>>
         /\ Enforcing' = Enforcing \ {w}
<1>1. \/ historyPc' = [historyPc EXCEPT ![w] = "query"] /\ UNCHANGED <<cutoff, swept>>
      \/ /\ historyPc' = [historyPc EXCEPT ![w] = "idle"]
         /\ cutoff' = [cutoff EXCEPT ![w] = -TTL]
         /\ swept' = [swept EXCEPT ![w] = 0]
  BY DEF Hist!Return, Hist!Leave, Hist!Goto
<1>2. /\ TTL \in Nat /\ MaxTime \in Nat /\ now \in 0 .. MaxTime /\ Len(arrived) \in Nat
      /\ cutoff \in [Writers -> -TTL .. MaxTime] /\ swept \in [Writers -> 0 .. MaxArrived]
      /\ MaxArrived \in Nat
      /\ historyPc \in [Writers -> {"idle", "insert", "ttl", "sweep", "count", "evict", "query"}]
  BY HistoryConstants, TableIsFinite DEF HistoryInv, Hist!TypeOK
<1>3. \A v \in Writers : cutoff[v] <= now - TTL /\ swept[v] <= Len(arrived)
  BY DEF HistoryInv, SweepsLookBack
<1>4. -TTL <= now - TTL /\ 0 <= Len(arrived) /\ -TTL \in -TTL .. MaxTime
  BY <1>2
<1>5. \A v \in Writers : cutoff'[v] <= now - TTL /\ swept'[v] <= Len(arrived)
  BY <1>1, <1>2, <1>3, <1>4
<1>6. SweepsLookBack'
  BY <1>5 DEF SweepsLookBack
<1>7. Enforcing' = Enforcing \ {w}
  BY <1>1, <1>2 DEF Enforcing
<1>8. /\ historyPc' \in [Writers -> {"idle", "insert", "ttl", "sweep", "count", "evict", "query"}]
      /\ cutoff' \in [Writers -> -TTL .. MaxTime] /\ swept' \in [Writers -> 0 .. MaxArrived]
  <2>1. historyPc' \in [Writers -> {"idle", "insert", "ttl", "sweep", "count", "evict", "query"}]
    <3>1. CASE historyPc' = [historyPc EXCEPT ![w] = "query"]
      BY <3>1, <1>2
    <3>2. CASE historyPc' = [historyPc EXCEPT ![w] = "idle"]
      BY <3>2, <1>2
    <3> QED
      BY <1>1, <3>1, <3>2
  <2>2. cutoff' \in [Writers -> -TTL .. MaxTime]
    <3> DEFINE R == -TTL .. MaxTime
    <3>1. -TTL \in R /\ cutoff \in [Writers -> R]
      BY <1>2, <1>4
    <3>2. cutoff' = cutoff \/ cutoff' = [cutoff EXCEPT ![w] = -TTL]
      BY <1>1
    <3> HIDE DEF R
    <3>3. cutoff' \in [Writers -> R]
      BY <3>1, <3>2, Zenon
    <3> QED
      BY <3>3 DEF R
  <2>3. swept' \in [Writers -> 0 .. MaxArrived]
    <3>1. CASE swept' = swept
      BY <3>1, <1>2
    <3>2. CASE swept' = [swept EXCEPT ![w] = 0]
      BY <3>2, <1>2
    <3> QED
      BY <1>1, <3>1, <3>2
  <2> QED
    BY <2>1, <2>2, <2>3
<1>9. \A v \in Writers : historyPc'[v] \in {"count", "evict", "query"} =>
        UNCHANGED <<cutoff[v], swept[v]>>
  BY <1>1, <1>2
<1> QED
  BY <1>1, <1>6, <1>7, <1>8, <1>9

\* A caller that finds the table within the cap is done; another one is going to
\* evict at least one row.
LEMMA CountStep == ASSUME HistoryInv, NEW w \in Writers, Hist!Count(w) PROVE HistoryInv'
<1>1. /\ UNCHANGED <<rows, arrived, now, hand, reading, historyFaults>>
      /\ historyPc[w] = "count"
  BY DEF Hist!Count
<1>2. Hist!NoHoles' /\ Hist!StoredOnce'
  BY <1>1, TableUntouched
<1>3. /\ Cardinality(rows) \in Nat /\ Cardinality(rows) <= MaxArrived
      /\ Cap \in Nat /\ MaxArrived \in Nat
  BY TableIsFinite, HistoryConstants
<1>4. CASE Cardinality(rows) <= Cap
  <2>1. Hist!Return(w) /\ excess' = excess
    BY <1>4, SameCount DEF Hist!Count
  <2>2. /\ \E s \in {"query", "idle"} : historyPc' = [historyPc EXCEPT ![w] = s]
        /\ historyPc' \in [Writers -> {"idle", "insert", "ttl", "sweep", "count", "evict", "query"}]
        /\ cutoff' \in [Writers -> -TTL .. MaxTime] /\ swept' \in [Writers -> 0 .. MaxArrived]
        /\ SweepsLookBack'
        /\ \A v \in Writers : historyPc'[v] \in {"count", "evict", "query"} =>
             UNCHANGED <<cutoff[v], swept[v]>>
    BY <1>1, <2>1, ReturnFacts
  <2>3. /\ \A v \in Writers : historyPc'[v] = "evict" => excess'[v] > 0
        /\ \A v \in Writers : historyPc'[v] = "insert" => hand'[v] \in Hist!Row
    BY <1>1, <2>1, <2>2 DEF HistoryInv, Hist!TypeOK
  <2>4. Hist!TypeOK'
    BY <1>1, <2>1, <2>2, <2>3 DEF HistoryInv, Hist!TypeOK
  <2>5. \A v \in Writers : historyPc'[v] \in {"count", "evict", "query"} =>
          historyPc[v] \in {"count", "evict", "query"}
    BY <1>1, <2>2 DEF HistoryInv, Hist!TypeOK
  <2>6. Hist!NoLapsedAfterSweep'
    BY <1>1, <2>2, <2>5 DEF HistoryInv, Hist!NoLapsedAfterSweep
  <2>7. Cardinality(Enforcing') \in Nat
    <3>1. IsFiniteSet(Enforcing')
      BY HistoryConstants, FS_Subset DEF Enforcing
    <3> QED
      BY <3>1, FS_CardinalityType
  <2>8. TableBound'
    BY <1>1, <1>4, <2>7, BoundFacts DEF TableBound
  <2> QED
    BY <1>2, <2>2, <2>4, <2>6, <2>8 DEF HistoryInv
<1>5. CASE ~(Cardinality(rows) <= Cap)
  <2>1. /\ historyPc' = [historyPc EXCEPT ![w] = "evict"]
        /\ excess' = [excess EXCEPT ![w] = Cardinality(rows) - Cap]
        /\ UNCHANGED <<cutoff, swept>>
    BY <1>5, SameCount DEF Hist!Count, Hist!Goto
  <2>2. Cardinality(rows) - Cap \in 0 .. MaxArrived /\ Cardinality(rows) - Cap > 0
    BY <1>3, <1>5
  <2>3. /\ excess' \in [Writers -> 0 .. MaxArrived]
        /\ historyPc' \in [Writers -> {"idle", "insert", "ttl", "sweep", "count", "evict", "query"}]
        /\ \A v \in Writers : historyPc'[v] = "evict" => excess'[v] > 0
        /\ \A v \in Writers : historyPc'[v] = "insert" => hand'[v] \in Hist!Row
    BY <1>1, <2>1, <2>2 DEF HistoryInv, Hist!TypeOK
  <2>4. Hist!TypeOK'
    BY <1>1, <2>1, <2>3 DEF HistoryInv, Hist!TypeOK
  <2>5. Hist!NoLapsedAfterSweep' /\ SweepsLookBack'
    BY <1>1, <2>1 DEF HistoryInv, Hist!TypeOK, Hist!NoLapsedAfterSweep, SweepsLookBack
  <2>7. Enforcing' = Enforcing
    BY <1>1, <2>1 DEF Enforcing, HistoryInv, Hist!TypeOK
  <2>8. TableBound'
    BY <1>1, <2>7 DEF TableBound, HistoryInv
  <2> QED
    BY <1>2, <2>4, <2>5, <2>8 DEF HistoryInv
<1> QED
  BY <1>4, <1>5

\* An eviction removes at least a row, if there is one: the caller has counted
\* one too many, and others may have evicted since.  What it removes is older
\* than what it leaves.
LEMMA EvictStep == ASSUME HistoryInv, NEW w \in Writers, Hist!Evict(w) PROVE HistoryInv'
<1> DEFINE c == Cardinality(rows)
           k == excess[w]
<1>1. /\ UNCHANGED <<arrived, now, hand, reading, historyFaults>>
      /\ historyPc[w] = "evict"
      /\ Hist!Return(w)
      /\ excess' = [excess EXCEPT ![w] = 0]
      /\ rows' = {s \in rows : Cardinality({t \in rows : t < s}) >= k}
  BY SameCount DEF Hist!Evict, Hist!DropOldest
<1>2. k \in Nat /\ k > 0 /\ MaxArrived \in Nat
  BY <1>1, HistoryConstants DEF HistoryInv, Hist!TypeOK
<1>3. Len(arrived) \in Nat /\ c \in Nat /\ rows \subseteq 1 .. Len(arrived) /\ IsFiniteSet(rows)
  BY TableIsFinite, ArrivedFacts
<1>4. /\ \E s \in {"query", "idle"} : historyPc' = [historyPc EXCEPT ![w] = s]
      /\ historyPc' \in [Writers -> {"idle", "insert", "ttl", "sweep", "count", "evict", "query"}]
      /\ cutoff' \in [Writers -> -TTL .. MaxTime] /\ swept' \in [Writers -> 0 .. MaxArrived]
      /\ SweepsLookBack'
      /\ \A v \in Writers : historyPc'[v] \in {"count", "evict", "query"} =>
           UNCHANGED <<cutoff[v], swept[v]>>
      /\ Enforcing' = Enforcing \ {w}
  BY <1>1, ReturnFacts
<1>5. Cardinality(rows') \in Nat /\ (Cardinality(rows') = 0 \/ Cardinality(rows') <= c - k)
  BY <1>1, <1>2, <1>3, FewerWithoutTheOldest
<1>6. rows' \subseteq rows
  BY <1>1
<1>7. Hist!TypeOK'
  <2>1. rows' \subseteq 1 .. Len(arrived')
    BY <1>1, <1>3, <1>6
  <2>2. excess' \in [Writers -> 0 .. MaxArrived]
    BY <1>1, <1>2 DEF HistoryInv, Hist!TypeOK
  <2>3. /\ \A v \in Writers : historyPc'[v] = "evict" => excess'[v] > 0
        /\ \A v \in Writers : historyPc'[v] = "insert" => hand'[v] \in Hist!Row
    BY <1>1, <1>4 DEF HistoryInv, Hist!TypeOK
  <2> QED
    BY <1>1, <1>4, <2>1, <2>2, <2>3 DEF HistoryInv, Hist!TypeOK
<1>8. Hist!NoLapsedAfterSweep'
  <2>1. \A v \in Writers : historyPc'[v] \in {"count", "evict", "query"} =>
          historyPc[v] \in {"count", "evict", "query"}
    BY <1>1, <1>4 DEF HistoryInv, Hist!TypeOK
  <2> QED
    BY <1>1, <1>4, <1>6, <2>1 DEF HistoryInv, Hist!NoLapsedAfterSweep
<1>9. Hist!NoHoles'
  <2> SUFFICES ASSUME NEW s \in rows', NEW t \in s .. Len(arrived)
               PROVE  t \in rows' \/ arrived[t].at <= now - TTL
    BY <1>1 DEF Hist!NoHoles
  <2> DEFINE Below(i) == {u \in rows : u < i}
  <2>1. s \in rows /\ s \in 1 .. Len(arrived) /\ t \in Nat /\ s <= t /\ Cardinality(Below(s)) >= k
    BY <1>1, <1>3
  <2>2. CASE t \in rows
    <3>1. Below(s) \in SUBSET Below(t) /\ Below(t) \in SUBSET rows
      <4>1. rows \subseteq Nat /\ s \in Nat
        BY <1>3, <2>1
      <4>2. \A u \in rows : u < s => u < t
        BY <2>1, <4>1
      <4> QED
        BY <4>2
    <3>2. IsFiniteSet(Below(t)) /\ Cardinality(Below(t)) \in Nat
      BY <1>3, <3>1, FS_Subset, FS_CardinalityType
    <3>3. Cardinality(Below(s)) <= Cardinality(Below(t)) /\ Cardinality(Below(s)) \in Nat
      BY <3>1, <3>2, FS_Subset, FS_CardinalityType
    <3>4. Cardinality(Below(t)) >= k
      BY <1>2, <2>1, <3>2, <3>3
    <3> QED
      BY <1>1, <2>2, <3>4
  <2>3. CASE t \notin rows
    BY <2>1, <2>3 DEF HistoryInv, Hist!NoHoles
  <2> QED
    BY <2>2, <2>3
<1>10. Hist!StoredOnce'
  BY <1>1, <1>6 DEF HistoryInv, Hist!StoredOnce
<1>11. TableBound'
  <2>1. w \in Enforcing
    BY <1>1 DEF Enforcing
  <2>2. /\ Cardinality(Enforcing) \in Nat
        /\ Cardinality(Enforcing') = Cardinality(Enforcing) - 1
    BY <1>4, <2>1, EnforcingCount
  <2>3. Cardinality(Enforcing') \in Nat
    <3>1. IsFiniteSet(Enforcing')
      BY HistoryConstants, FS_Subset DEF Enforcing
    <3> QED
      BY <3>1, FS_CardinalityType
  <2>4. Cap \in Nat /\ historyFaults \in Nat /\ c <= Cap + Cardinality(Enforcing) + historyFaults
    BY BoundFacts
  <2> HIDE DEF c, k
  <2>6. Cardinality(rows') <= Cap + Cardinality(Enforcing') + historyFaults
    <3>1. CASE Cardinality(rows') = 0
      BY <3>1, <2>3, <2>4
    <3>2. CASE Cardinality(rows') <= c - k
      <4>1. Cardinality(rows') <= c - 1
        BY <1>2, <1>3, <1>5, <3>2
      <4> QED
        BY <1>3, <1>5, <4>1, <2>2, <2>4
    <3> QED
      BY <3>1, <3>2, <1>5
  <2> QED
    BY <1>1, <2>6 DEF TableBound
<1> QED
  BY <1>4, <1>7, <1>8, <1>9, <1>10, <1>11 DEF HistoryInv

LEMMA QueryStep == ASSUME HistoryInv, NEW w \in Writers, Hist!Query(w) PROVE HistoryInv'
<1>1. /\ UNCHANGED <<rows, arrived, now, hand, excess, historyFaults>>
      /\ reading' = reading \ {w} /\ historyPc[w] = "query"
      /\ Hist!Leave(w)
  BY DEF Hist!Query
<1>2. /\ \E s \in {"query", "idle"} : historyPc' = [historyPc EXCEPT ![w] = s]
      /\ historyPc' \in [Writers -> {"idle", "insert", "ttl", "sweep", "count", "evict", "query"}]
      /\ cutoff' \in [Writers -> -TTL .. MaxTime] /\ swept' \in [Writers -> 0 .. MaxArrived]
      /\ SweepsLookBack'
      /\ \A v \in Writers : historyPc'[v] \in {"count", "evict", "query"} =>
           UNCHANGED <<cutoff[v], swept[v]>>
      /\ Enforcing' = Enforcing \ {w}
  BY <1>1, ReturnFacts
<1>3. /\ \A v \in Writers : historyPc'[v] = "evict" => excess'[v] > 0
      /\ \A v \in Writers : historyPc'[v] = "insert" => hand'[v] \in Hist!Row
      /\ \A v \in Writers : historyPc'[v] \in {"count", "evict", "query"} =>
           historyPc[v] \in {"count", "evict", "query"}
  BY <1>1, <1>2 DEF HistoryInv, Hist!TypeOK
<1>4. Hist!TypeOK'
  BY <1>1, <1>2, <1>3 DEF HistoryInv, Hist!TypeOK
<1>5. Hist!NoLapsedAfterSweep'
  BY <1>1, <1>2, <1>3 DEF HistoryInv, Hist!NoLapsedAfterSweep
<1>6. Enforcing' = Enforcing
  BY <1>1, <1>2 DEF Enforcing
<1>7. TableBound'
  BY <1>1, <1>6 DEF HistoryInv, TableBound
<1> QED
  BY <1>1, <1>2, <1>4, <1>5, <1>7, TableUntouched DEF HistoryInv

\* A call that ends early leaves at most its own row above the cap.
LEMMA AbandonStep == ASSUME HistoryInv, NEW w \in Writers, Hist!Abandon(w) PROVE HistoryInv'
<1>1. /\ UNCHANGED <<rows, arrived, now>>
      /\ historyFaults < HistoryMaxFaults /\ historyFaults' = historyFaults + 1
      /\ excess' = [excess EXCEPT ![w] = 0] /\ reading' = reading \ {w}
      /\ hand' = [hand EXCEPT ![w] = Hist!NoRow]
      /\ Hist!Leave(w) /\ historyPc' = [historyPc EXCEPT ![w] = "idle"]
  BY DEF Hist!Abandon, Hist!Leave, Hist!Goto
<1>2. /\ historyPc' \in [Writers -> {"idle", "insert", "ttl", "sweep", "count", "evict", "query"}]
      /\ cutoff' \in [Writers -> -TTL .. MaxTime] /\ swept' \in [Writers -> 0 .. MaxArrived]
      /\ SweepsLookBack'
      /\ \A v \in Writers : historyPc'[v] \in {"count", "evict", "query"} =>
           UNCHANGED <<cutoff[v], swept[v]>>
      /\ Enforcing' = Enforcing \ {w}
  BY <1>1, ReturnFacts
<1>3. /\ hand' \in [Writers -> Hist!Row \cup {Hist!NoRow}]
      /\ \A v \in Writers : historyPc'[v] = "insert" => hand'[v] \in Hist!Row
      /\ \A v \in Writers : historyPc'[v] \in {"count", "evict", "query"} =>
           historyPc[v] \in {"count", "evict", "query"}
  BY <1>1 DEF HistoryInv, Hist!TypeOK
<1>4. /\ excess' \in [Writers -> 0 .. MaxArrived] /\ historyFaults' \in 0 .. HistoryMaxFaults
      /\ \A v \in Writers : historyPc'[v] = "evict" => excess'[v] > 0
      /\ reading' \subseteq Writers
  BY <1>1, HistoryConstants DEF HistoryInv, Hist!TypeOK
<1>5. Hist!TypeOK'
  BY <1>1, <1>2, <1>3, <1>4 DEF HistoryInv, Hist!TypeOK
<1>6. Hist!NoLapsedAfterSweep'
  BY <1>1, <1>2, <1>3 DEF HistoryInv, Hist!NoLapsedAfterSweep
<1>7. Cardinality(Enforcing') >= Cardinality(Enforcing) - 1 /\ Cardinality(Enforcing') \in Nat
  <2>1. IsFiniteSet(Enforcing')
    BY HistoryConstants, FS_Subset DEF Enforcing
  <2>2. Cardinality(Enforcing) \in Nat /\ Cardinality(Enforcing') \in Nat
    BY <2>1, BoundFacts, FS_CardinalityType
  <2>3. Cardinality(Enforcing') \in {Cardinality(Enforcing), Cardinality(Enforcing) - 1}
    BY <1>2, EnforcingCount
  <2> QED
    BY <2>2, <2>3
<1>8. TableBound'
  BY <1>1, <1>7, BoundFacts DEF TableBound
<1> QED
  BY <1>1, <1>2, <1>5, <1>6, <1>8, TableUntouched DEF HistoryInv

\* What has lapsed stays so.
LEMMA TickStep == ASSUME HistoryInv, Hist!Tick PROVE HistoryInv'
<1>1. /\ UNCHANGED <<rows, historyPc, hand, cutoff, swept, reading, excess, arrived, historyFaults>>
      /\ now < MaxTime /\ now' = now + 1
  BY DEF Hist!Tick
<1>2. Hist!TypeOK'
  BY <1>1, HistoryConstants DEF HistoryInv, Hist!TypeOK
<1>3. SweepsLookBack'
  <2>1. \A v \in Writers : cutoff[v] <= (now + 1) - TTL /\ swept[v] <= Len(arrived)
    BY ArrivedFacts
  <2> QED
    BY <1>1, <2>1 DEF SweepsLookBack
<1>4. Hist!NoHoles'
  <2> SUFFICES ASSUME NEW s \in rows, NEW t \in s .. Len(arrived)
               PROVE  t \in rows \/ arrived[t].at <= (now + 1) - TTL
    BY <1>1 DEF Hist!NoHoles
  <2>1. t \in 1 .. Len(arrived)
    BY ArrivedFacts, TableIsFinite
  <2>2. t \in rows \/ arrived[t].at <= now - TTL
    BY DEF HistoryInv, Hist!NoHoles
  <2>3. arrived[t].at \in Int /\ now \in Int /\ TTL \in Int
    BY <2>1, ArrivedFacts
  <2> QED
    BY <2>2, <2>3
<1>5. Hist!NoLapsedAfterSweep' /\ Hist!StoredOnce' /\ TableBound'
  BY <1>1 DEF HistoryInv, Hist!NoLapsedAfterSweep, Hist!StoredOnce, TableBound, Enforcing
<1> QED
  BY <1>2, <1>3, <1>4, <1>5 DEF HistoryInv

-----------------------------------------------------------------------------
(* History: the theorem *)

LEMMA HistoryInit == Hist!Init => HistoryInv
<1> SUFFICES ASSUME Hist!Init PROVE HistoryInv
  OBVIOUS
<1> USE HistoryConstants
<1>1. /\ rows = {} /\ arrived = <<>> /\ now = 0
      /\ historyPc = [w \in Writers |-> "idle"] /\ cutoff = [w \in Writers |-> -TTL]
      /\ hand = [w \in Writers |-> Hist!NoRow] /\ swept = [w \in Writers |-> 0]
      /\ excess = [w \in Writers |-> 0] /\ reading = {} /\ historyFaults = 0
  BY DEF Hist!Init
<1>2. arrived \in Seq(Hist!Row) /\ Len(arrived) = 0
  BY <1>1
<1>3. Hist!TypeOK
  BY <1>1, <1>2 DEF Hist!TypeOK
<1>4. SweepsLookBack
  BY <1>1, <1>2 DEF SweepsLookBack
<1>5. Hist!NoLapsedAfterSweep /\ Hist!NoHoles /\ Hist!StoredOnce
  BY <1>1 DEF Hist!NoLapsedAfterSweep, Hist!NoHoles, Hist!StoredOnce
<1>6. TableBound
  <2>1. Cardinality(rows) = 0 /\ Enforcing = {} /\ Cardinality(Enforcing) = 0
    BY <1>1, FS_EmptySet DEF Enforcing
  <2> QED
    BY <1>1, <2>1 DEF TableBound
<1> QED
  BY <1>3, <1>4, <1>5, <1>6 DEF HistoryInv

LEMMA HistoryStepKeeps == HistoryInv /\ [Hist!Next]_(Hist!vars) => HistoryInv'
<1> SUFFICES ASSUME HistoryInv, [Hist!Next]_(Hist!vars) PROVE HistoryInv'
  OBVIOUS
<1>1. CASE UNCHANGED Hist!vars
  BY <1>1 DEF HistoryInv, Hist!TypeOK, TableBound, Enforcing, SweepsLookBack,
    Hist!NoLapsedAfterSweep, Hist!NoHoles, Hist!StoredOnce, Hist!vars
<1>2. CASE Hist!Next
  <2>1. CASE Hist!Tick
    BY <2>1, TickStep
  <2>2. CASE \E w \in Writers :
               \/ \E id \in 1 .. MaxIds : Hist!Stamp(w, id)
               \/ Hist!Insert(w) \/ Hist!Open(w) \/ Hist!ReadCutoff(w) \/ Hist!TTLSweep(w)
               \/ Hist!Count(w) \/ Hist!Evict(w) \/ Hist!Query(w) \/ Hist!Abandon(w)
    BY <2>2, StampStep, InsertStep, OpenStep, ReadCutoffStep, TTLSweepStep, CountStep, EvictStep,
       QueryStep, AbandonStep
  <2> QED
    BY <1>2, <2>1, <2>2 DEF Hist!Next
<1> QED
  BY <1>1, <1>2

\* Retention holds for any writers, TTL and cap, however the clock reads and the
\* statements of their calls interleave and whichever of them fail: the table
\* stays within the cap but for the calls in flight or lost, a query shows
\* nothing that had arrived and lapsed when its sweep ran, a row that goes
\* before an earlier one has lapsed, and each message is there once.
THEOREM RetentionHoldsAlways == Hist!Spec => []RetentionHolds
<1>1. HistoryInv => RetentionHolds
  <2> SUFFICES ASSUME HistoryInv PROVE RetentionHolds
    OBVIOUS
  <2>1. IsFiniteSet(Hist!Busy) /\ Enforcing \subseteq Hist!Busy
    BY HistoryConstants, FS_Subset DEF Hist!Busy, Enforcing
  <2>2. /\ Cardinality(Enforcing) <= Cardinality(Hist!Busy)
        /\ Cardinality(Enforcing) \in Nat /\ Cardinality(Hist!Busy) \in Nat
    BY <2>1, FS_Subset, FS_CardinalityType
  <2>3. Cardinality(rows) <= Cap + Cardinality(Hist!Busy) + historyFaults
    BY <2>2, BoundFacts
  <2>4. Hist!CapBound
    BY <2>3, SameCount DEF Hist!CapBound
  <2> QED
    BY <2>4 DEF HistoryInv, RetentionHolds, Hist!RetentionHolds
<1> QED
  BY <1>1, HistoryInit, HistoryStepKeeps, PTL DEF Hist!Spec

-----------------------------------------------------------------------------
(* FakeClock: the inductive invariant *)

WaiterSet == [owner : Clock!Owners, at : 1 .. (MaxNow + MaxDelay)]

\* The waiters of a list, and that no two of them are of one owner.
Elems(s) == {s[i] : i \in 1 .. Len(s)}
Distinct(s) == \A i, j \in 1 .. Len(s) : s[i].owner = s[j].owner => i = j

ClockTyped ==
  /\ clockNow \in 1 .. MaxNow
  /\ st \in [Timers -> {"none", "pending", "fired", "stopped"}]
  /\ ch \in [Clock!Owners -> 0 .. MaxNow]
  /\ firing \in [Timers -> 0 .. MaxNow]
  /\ bed \in [Sleepers -> 0 .. (MaxNow + MaxDelay)]
  /\ heard \in [Timers -> BOOLEAN]

ListsTyped ==
  /\ waiters \in Seq(WaiterSet) /\ due \in Seq(WaiterSet)
  /\ Distinct(waiters) /\ Distinct(due)
  /\ \A w \in Elems(waiters) : w.at > clockNow

\* A pending timer is the one that has a waiter in the list.
PendingIsListed ==
  \A t \in Timers : st[t] = "pending" <=> \E w \in Elems(waiters) : w.owner = t

\* So is a goroutine that sleeps until later, at the time it waits for.
SleepIsListed ==
  \A s \in Sleepers :
    /\ bed[s] > clockNow => \E w \in Elems(waiters) : w.owner = s
    /\ \A w \in Elems(waiters) : w.owner = s => w.at = bed[s]

\* The wake-up of a goroutine whose time has come is in one place.
WakesOnce ==
  \A s \in Sleepers :
    /\ ~(ch[s] # 0 /\ \E w \in Elems(due) : w.owner = s)
    /\ bed[s] # 0 /\ bed[s] <= clockNow <=> ch[s] # 0 \/ \E w \in Elems(due) : w.owner = s

\* A fire that nobody has heard is in the channel or on its way to it.
FireIsSomewhere ==
  \A t \in Timers : st[t] = "fired" /\ ~heard[t] =>
    ch[t] # 0 \/ (\E w \in Elems(due) : w.owner = t) \/ firing[t] # 0

ClockInv ==
  /\ ClockTyped /\ ListsTyped
  /\ PendingIsListed /\ SleepIsListed /\ WakesOnce /\ FireIsSomewhere

-----------------------------------------------------------------------------
(* FakeClock: what its operators do to a list *)

LEMMA ClockConstants ==
  /\ MaxNow \in Nat /\ MaxNow > 1 /\ MaxDelay \in Nat /\ MaxDelay > 0
  /\ Timers \cap Sleepers = {}
  BY HostAssumption DEF Clock!FakeClockAssumption

LEMMA ClockCounts == ASSUME NEW S PROVE Clock!Cardinality(S) = Cardinality(S)
  BY Zenon DEF Cardinality, Clock!Cardinality

\* A waiter of a new owner is appended.
LEMMA Appended ==
  ASSUME NEW s \in Seq(WaiterSet), Distinct(s), NEW w \in WaiterSet,
         \A v \in Elems(s) : v.owner # w.owner,
         NEW r, r = Append(s, w)
  PROVE  r \in Seq(WaiterSet) /\ Distinct(r) /\ Elems(r) = Elems(s) \cup {w}
<1>1. /\ r \in Seq(WaiterSet) /\ Len(s) \in Nat /\ Len(r) = Len(s) + 1
      /\ r[Len(s) + 1] = w
  OBVIOUS
<1>2. \A i \in 1 .. Len(s) : r[i] = s[i] /\ s[i] \in Elems(s)
  BY DEF Elems
<1>3. Distinct(r)
  <2> SUFFICES ASSUME NEW i \in 1 .. Len(r), NEW j \in 1 .. Len(r), r[i].owner = r[j].owner
               PROVE  i = j
    BY DEF Distinct
  <2>1. CASE i \in 1 .. Len(s) /\ j \in 1 .. Len(s)
    BY <2>1, <1>2 DEF Distinct
  <2>2. CASE i = Len(s) + 1 /\ j \in 1 .. Len(s)
    BY <2>2, <1>1, <1>2
  <2>3. CASE j = Len(s) + 1 /\ i \in 1 .. Len(s)
    BY <2>3, <1>1, <1>2
  <2>4. QED
    BY <2>1, <2>2, <2>3, <1>1
<1>4. Elems(r) \subseteq Elems(s) \cup {w}
  <2> SUFFICES ASSUME NEW i \in 1 .. Len(r) PROVE r[i] \in Elems(s) \cup {w}
    BY DEF Elems
  <2>1. CASE i \in 1 .. Len(s)
    BY <2>1, <1>2
  <2>2. CASE i = Len(s) + 1
    BY <2>2, <1>1
  <2>3. QED
    BY <2>1, <2>2, <1>1
<1>5. Elems(s) \subseteq Elems(r)
  <2> SUFFICES ASSUME NEW i \in 1 .. Len(s) PROVE s[i] \in Elems(r)
    BY DEF Elems
  <2>1. i \in 1 .. Len(r) /\ r[i] = s[i]
    BY <1>1, <1>2
  <2>2. QED
    BY <2>1 DEF Elems
<1>6. w \in Elems(r)
  <2>1. Len(s) + 1 \in 1 .. Len(r)
    BY <1>1
  <2>2. QED
    BY <2>1, <1>1 DEF Elems
<1>7. QED
  BY <1>1, <1>3, <1>4, <1>5, <1>6

\* removeWaiter takes out the waiter of t and no other.
LEMMA Removed ==
  ASSUME ListsTyped, NEW t, NEW r, r = Clock!removeWaiter(t)
  PROVE  r \in Seq(WaiterSet) /\ Distinct(r) /\ Elems(r) = {w \in Elems(waiters) : w.owner # t}
<1>1. waiters \in Seq(WaiterSet) /\ Len(waiters) \in Nat /\ DOMAIN waiters = 1 .. Len(waiters)
  BY DEF ListsTyped
<1>2. \A i, j \in 1 .. Len(waiters) : waiters[i].owner = waiters[j].owner => i = j
  BY DEF ListsTyped, Distinct
<1>3. CASE \E i \in DOMAIN waiters : waiters[i].owner = t
  <2> DEFINE First(i) == waiters[i].owner = t /\ \A j \in 1 .. (i - 1) : waiters[j].owner # t
             first == CHOOSE i \in DOMAIN waiters : First(i)
  <2>1. PICK k \in 1 .. Len(waiters) : waiters[k].owner = t
    BY <1>1, <1>3
  <2>2. First(k)
    <3> SUFFICES ASSUME NEW j \in 1 .. (k - 1), waiters[j].owner = t PROVE FALSE
      BY <2>1
    <3>1. j \in 1 .. Len(waiters) /\ j # k
      BY <1>1
    <3>2. QED
      BY <3>1, <2>1, <1>2
  <2>3. first \in 1 .. Len(waiters) /\ waiters[first].owner = t
    BY <2>2, <1>1
  <2>4. first = k
    BY <2>1, <2>3, <1>2
  <2>5. r = [j \in 1 .. (Len(waiters) - 1) |-> IF j < k THEN waiters[j] ELSE waiters[j + 1]]
    BY <1>3, <2>4 DEF Clock!removeWaiter
  <2> HIDE DEF First, first
  <2>6. r \in Seq(WaiterSet) /\ Len(r) = Len(waiters) - 1
    <3>1. Len(waiters) - 1 \in Nat
      BY <1>1, <2>1
    <3>2. \A j \in 1 .. (Len(waiters) - 1) : (IF j < k THEN waiters[j] ELSE waiters[j + 1]) \in WaiterSet
      BY <1>1, <2>1
    <3>3. QED
      BY <2>5, <3>1, <3>2
  <2>7. \A j \in 1 .. Len(r) : r[j] = waiters[IF j < k THEN j ELSE j + 1]
    BY <2>5, <2>6
  <2>8. \A j \in 1 .. Len(r) : (IF j < k THEN j ELSE j + 1) \in 1 .. Len(waiters) \ {k}
    BY <2>6, <1>1
  <2>9. Distinct(r)
    <3> SUFFICES ASSUME NEW i \in 1 .. Len(r), NEW j \in 1 .. Len(r), r[i].owner = r[j].owner
                 PROVE  i = j
      BY DEF Distinct
    <3>1. (IF i < k THEN i ELSE i + 1) = (IF j < k THEN j ELSE j + 1)
      BY <2>7, <2>8, <1>2
    <3>2. QED
      BY <3>1, <2>1, <2>6, <1>1
  <2>10. ASSUME NEW w \in Elems(r) PROVE w \in Elems(waiters) /\ w.owner # t
    <3>1. PICK j \in 1 .. Len(r) : w = r[j]
      BY DEF Elems
    <3>2. PICK i \in 1 .. Len(waiters) : i # k /\ w = waiters[i]
      BY <3>1, <2>7, <2>8
    <3>3. QED
      BY <3>2, <2>1, <1>2 DEF Elems
  <2>11. ASSUME NEW w \in Elems(waiters), w.owner # t PROVE w \in Elems(r)
    <3>1. PICK i \in 1 .. Len(waiters) : w = waiters[i]
      BY DEF Elems
    <3>2. i # k
      BY <3>1, <2>1, <2>11
    <3>3. CASE i < k
      <4>1. i \in 1 .. Len(r) /\ r[i] = w
        BY <3>1, <3>3, <2>6, <2>7, <1>1
      <4>2. QED
        BY <4>1 DEF Elems
    <3>4. CASE i > k
      <4>1. i - 1 \in 1 .. Len(r) /\ ~(i - 1 < k) /\ (i - 1) + 1 = i
        BY <3>4, <2>1, <2>6, <1>1
      <4>2. r[i - 1] = w
        BY <4>1, <3>1, <2>7
      <4>3. QED
        BY <4>1, <4>2 DEF Elems
    <3>5. QED
      BY <3>2, <3>3, <3>4, <2>1
  <2>12. QED
    BY <2>6, <2>9, <2>10, <2>11
<1>4. CASE ~\E i \in DOMAIN waiters : waiters[i].owner = t
  <2>1. r = waiters
    BY <1>4 DEF Clock!removeWaiter
  <2>2. \A w \in Elems(waiters) : w.owner # t
    BY <1>1, <1>4 DEF Elems
  <2>3. QED
    BY <2>1, <2>2, <1>1 DEF ListsTyped
<1>5. QED
  BY <1>3, <1>4

\* The members of a finite set of numbers are counted off in their order.
LEMMA Ranks ==
  ASSUME NEW m \in Nat, NEW places, places \subseteq 1 .. m
  PROVE  /\ Cardinality(places) \in Nat
         /\ \A n \in 1 .. Cardinality(places) :
              Clock!Nth(places, n) \in places
         /\ \A n, k \in 1 .. Cardinality(places) : Clock!Nth(places, n) = Clock!Nth(places, k) => n = k
         /\ \A i \in places : \E n \in 1 .. Cardinality(places) : Clock!Nth(places, n) = i
<1> DEFINE Upto(i) == {j \in places : j <= i}
           rank == [i \in places |-> Cardinality(Upto(i))]
           size == Cardinality(places)
<1>1. IsFiniteSet(places) /\ size \in Nat
  <2>1. IsFiniteSet(1 .. m) /\ places \in SUBSET (1 .. m)
    BY FS_Interval
  <2>2. IsFiniteSet(places)
    BY <2>1, FS_Subset
  <2>3. QED
    BY <2>2, FS_CardinalityType
<1>2. ASSUME NEW i \in places
      PROVE  IsFiniteSet(Upto(i)) /\ Cardinality(Upto(i)) \in 1 .. size
  <2>1. IsFiniteSet(Upto(i)) /\ Cardinality(Upto(i)) <= size /\ Cardinality(Upto(i)) \in Nat
    BY <1>1, FS_Subset, FS_CardinalityType
  <2>2. i \in Upto(i)
    OBVIOUS
  <2>3. Cardinality(Upto(i)) # 0
    BY <2>1, <2>2, FS_EmptySet
  <2>4. QED
    BY <2>1, <2>3, <1>1
<1>3. ASSUME NEW i \in places, NEW k \in places, i < k
      PROVE  Cardinality(Upto(i)) # Cardinality(Upto(k))
  <2>1. i \in Nat /\ k \in Nat /\ \A j \in places : j \in Nat
    OBVIOUS
  <2>2. Upto(i) \in SUBSET Upto(k) /\ k \in Upto(k) /\ k \notin Upto(i)
    <3>1. \A j \in places : j <= i => j <= k
      BY <2>1, <1>3
    <3>2. k <= k /\ ~(k <= i)
      BY <2>1, <1>3
    <3>3. QED
      BY <3>1, <3>2
  <2>3. Upto(i) # Upto(k) /\ IsFiniteSet(Upto(k))
    BY <2>2, <1>2
  <2> HIDE DEF Upto
  <2>4. QED
    BY <2>2, <2>3, FS_Subset
<1>4. rank \in [places -> 1 .. size]
  BY <1>2
<1>5. \A i, k \in places : rank[i] = rank[k] => i = k
  <2> SUFFICES ASSUME NEW i \in places, NEW k \in places, i # k PROVE rank[i] # rank[k]
    OBVIOUS
  <2>1. i < k \/ k < i
    OBVIOUS
  <2>2. QED
    BY <2>1, <1>3
<1>6. rank \in Injection(places, 1 .. size)
  BY <1>4, <1>5 DEF Injection, IsInjective
<1>7. IsFiniteSet(1 .. size) /\ Cardinality(1 .. size) = size
  BY <1>1, FS_Interval
<1>8. rank \in Surjection(places, 1 .. size)
  BY <1>6, <1>7, FS_Injection
<1>9. \A n \in 1 .. size : \E i \in places : rank[i] = n
  BY <1>8 DEF Surjection
<1>10. \A n : Clock!Nth(places, n) = CHOOSE i \in places : Cardinality(Upto(i)) = n
  BY ClockCounts DEF Clock!Nth
<1> HIDE DEF Upto
<1>11. \A n \in 1 .. size : Clock!Nth(places, n) \in places /\ rank[Clock!Nth(places, n)] = n
  <2> SUFFICES ASSUME NEW n \in 1 .. size
               PROVE  Clock!Nth(places, n) \in places /\ rank[Clock!Nth(places, n)] = n
    OBVIOUS
  <2>1. \E i \in places : Cardinality(Upto(i)) = n
    BY <1>9
  <2>2. QED
    BY <2>1, <1>10
<1>12. \A i \in places : rank[i] \in 1 .. size
  BY <1>4
<1> HIDE DEF rank, size
<1>13. ASSUME NEW i \in places PROVE Clock!Nth(places, rank[i]) = i
  BY <1>5, <1>11, <1>12
<1>14. \A n, k \in 1 .. size : Clock!Nth(places, n) = Clock!Nth(places, k) => n = k
  BY <1>11
<1>15. QED
  BY <1>1, <1>11, <1>12, <1>13, <1>14 DEF size

\* Pick is the waiters at the places, each once.
LEMMA Picked ==
  ASSUME ListsTyped, NEW places, places \subseteq 1 .. Len(waiters), NEW r, r = Clock!Pick(places)
  PROVE  r \in Seq(WaiterSet) /\ Distinct(r) /\ Elems(r) = {waiters[i] : i \in places}
<1>1. waiters \in Seq(WaiterSet) /\ Len(waiters) \in Nat
  BY DEF ListsTyped
<1> DEFINE size == Cardinality(places)
<1>2. /\ size \in Nat
      /\ \A n \in 1 .. size : Clock!Nth(places, n) \in places
      /\ \A n, k \in 1 .. size : Clock!Nth(places, n) = Clock!Nth(places, k) => n = k
      /\ \A i \in places : \E n \in 1 .. size : Clock!Nth(places, n) = i
  BY <1>1, Ranks
<1>3. r = [n \in 1 .. size |-> waiters[Clock!Nth(places, n)]]
  BY ClockCounts DEF Clock!Pick
<1> HIDE DEF size
<1>4. \A n \in 1 .. size : waiters[Clock!Nth(places, n)] \in WaiterSet
  <2> TAKE n \in 1 .. size
  <2>1. Clock!Nth(places, n) \in 1 .. Len(waiters)
    BY <1>2
  <2>2. QED
    BY <2>1, <1>1
<1>5. r \in Seq(WaiterSet) /\ Len(r) = size
  BY <1>2, <1>3, <1>4
<1>6. Distinct(r)
  <2> SUFFICES ASSUME NEW n \in 1 .. size, NEW k \in 1 .. size, r[n].owner = r[k].owner
               PROVE  n = k
    BY <1>5 DEF Distinct
  <2>1. Clock!Nth(places, n) \in 1 .. Len(waiters) /\ Clock!Nth(places, k) \in 1 .. Len(waiters)
    BY <1>2
  <2>2. waiters[Clock!Nth(places, n)].owner = waiters[Clock!Nth(places, k)].owner
    BY <1>3
  <2>3. QED
    BY <2>1, <2>2, <1>2 DEF ListsTyped, Distinct
<1>7. Elems(r) = {waiters[i] : i \in places}
  <2>1. ASSUME NEW w \in Elems(r) PROVE \E i \in places : w = waiters[i]
    BY <1>2, <1>3, <1>5 DEF Elems
  <2>2. ASSUME NEW i \in places PROVE waiters[i] \in Elems(r)
    <3>1. PICK n \in 1 .. size : Clock!Nth(places, n) = i
      BY <1>2
    <3>2. QED
      BY <3>1, <1>3, <1>5 DEF Elems
  <2>3. QED
    BY <2>1, <2>2 DEF Elems
<1>8. QED
  BY <1>5, <1>6, <1>7

\* The first waiter due leaves the ones behind it.
LEMMA DueTail ==
  ASSUME NEW s \in Seq(WaiterSet), Distinct(s), s # <<>>, NEW r, r = Tail(s)
  PROVE  /\ r \in Seq(WaiterSet) /\ Distinct(r)
         /\ Head(s) \in WaiterSet /\ Head(s) \in Elems(s)
         /\ Elems(r) = {w \in Elems(s) : w.owner # Head(s).owner}
<1>1. /\ r \in Seq(WaiterSet) /\ Len(s) \in Nat /\ Len(s) > 0 /\ Len(r) = Len(s) - 1
      /\ Head(s) = s[1] /\ Head(s) \in WaiterSet
  OBVIOUS
<1>2. \A i \in 1 .. Len(r) : r[i] = s[i + 1]
  OBVIOUS
<1>3. 1 \in 1 .. Len(s) /\ \A i \in 1 .. Len(r) : i + 1 \in 1 .. Len(s) /\ i + 1 # 1
  BY <1>1
<1>4. \A i, j \in 1 .. Len(s) : s[i].owner = s[j].owner => i = j
  BY DEF Distinct
<1>5. Distinct(r)
  <2> SUFFICES ASSUME NEW i \in 1 .. Len(r), NEW j \in 1 .. Len(r), r[i].owner = r[j].owner
               PROVE  i = j
    BY DEF Distinct
  <2>1. i + 1 = j + 1
    BY <1>2, <1>3, <1>4
  <2>2. QED
    BY <2>1
<1>6. Head(s) \in Elems(s)
  BY <1>1, <1>3 DEF Elems
<1>7. ASSUME NEW w \in Elems(r) PROVE w \in Elems(s) /\ w.owner # Head(s).owner
  <2>1. PICK i \in 1 .. Len(r) : w = r[i]
    BY DEF Elems
  <2>2. w = s[i + 1] /\ i + 1 \in 1 .. Len(s) /\ i + 1 # 1
    BY <2>1, <1>2, <1>3
  <2>3. QED
    BY <2>2, <1>1, <1>3, <1>4 DEF Elems
<1>8. ASSUME NEW w \in Elems(s), w.owner # Head(s).owner PROVE w \in Elems(r)
  <2>1. PICK i \in 1 .. Len(s) : w = s[i]
    BY DEF Elems
  <2>2. i # 1
    BY <2>1, <1>1, <1>8
  <2>3. i - 1 \in 1 .. Len(r) /\ (i - 1) + 1 = i
    BY <2>1, <2>2, <1>1
  <2>4. r[i - 1] = w
    BY <2>1, <2>3, <1>2
  <2>5. QED
    BY <2>3, <2>4 DEF Elems
<1>9. QED
  BY <1>1, <1>5, <1>6, <1>7, <1>8

-----------------------------------------------------------------------------
(* FakeClock: each step keeps the invariant *)

LEMMA ClockInvInit == Clock!Init => ClockInv
<1> SUFFICES ASSUME Clock!Init PROVE ClockInv
  OBVIOUS
<1>1. /\ clockNow = 1 /\ waiters = <<>> /\ due = <<>>
      /\ st = [t \in Timers |-> "none"] /\ ch = [o \in Clock!Owners |-> 0]
      /\ firing = [t \in Timers |-> 0] /\ bed = [s \in Sleepers |-> 0]
  BY DEF Clock!Init, Clock!Start, Clock!Empty
<1>2. heard \in [Timers -> BOOLEAN]
  BY DEF Clock!Init
<1>3. ClockTyped
  BY <1>1, <1>2, ClockConstants DEF ClockTyped
<1>4. Elems(waiters) = {} /\ Elems(due) = {}
  BY <1>1 DEF Elems
<1>5. ListsTyped
  <2>1. waiters \in Seq(WaiterSet) /\ due \in Seq(WaiterSet)
    BY <1>1
  <2>2. Distinct(waiters) /\ Distinct(due)
    BY <1>1 DEF Distinct
  <2>3. QED
    BY <2>1, <2>2, <1>4 DEF ListsTyped
<1>6. \A s \in Sleepers : bed[s] = 0 /\ ch[s] = 0 /\ ~(bed[s] > clockNow)
  BY <1>1 DEF Clock!Owners
<1>7. \A t \in Timers : st[t] = "none"
  BY <1>1
<1>8. PendingIsListed /\ SleepIsListed /\ WakesOnce /\ FireIsSomewhere
  BY <1>4, <1>6, <1>7 DEF PendingIsListed, SleepIsListed, WakesOnce, FireIsSomewhere
<1>9. QED
  BY <1>3, <1>5, <1>8 DEF ClockInv

\* Arming a timer, over a list without a waiter of it.
LEMMA Armed ==
  ASSUME ClockInv, NEW t \in Timers, NEW d \in Clock!Delays,
         NEW rest \in Seq(WaiterSet), Distinct(rest),
         Elems(rest) = {w \in Elems(waiters) : w.owner # t},
         Clock!Arm(t, d, rest), UNCHANGED <<clockNow, due, bed>>
  PROVE  /\ ListsTyped' /\ PendingIsListed' /\ SleepIsListed'
         /\ st' \in [Timers -> {"none", "pending", "fired", "stopped"}]
         /\ heard' \in [Timers -> BOOLEAN]
         /\ \A u \in Timers : u # t => st'[u] = st[u] /\ heard'[u] = heard[u]
         /\ d # 0 => st'[t] = "pending"
<1>1. /\ st' = [st EXCEPT ![t] = IF d = 0 THEN "fired" ELSE "pending"]
      /\ waiters' = (IF d = 0 THEN rest ELSE Append(rest, Clock!Waiter(t, clockNow + d)))
      /\ clockNow' = clockNow /\ due' = due /\ bed' = bed
  BY DEF Clock!Arm
<1>2. heard' = [heard EXCEPT ![t] = FALSE]
  BY DEF Clock!Arm
<1>3. ClockTyped /\ ListsTyped /\ PendingIsListed /\ SleepIsListed
  BY DEF ClockInv
<1>4. /\ st \in [Timers -> {"none", "pending", "fired", "stopped"}]
      /\ clockNow \in 1 .. MaxNow /\ d \in 0 .. MaxDelay
  BY <1>3 DEF ClockTyped, Clock!Delays
<1>5. heard \in [Timers -> BOOLEAN]
  BY <1>3 DEF ClockTyped
<1>6. st' \in [Timers -> {"none", "pending", "fired", "stopped"}]
  BY <1>1, <1>4
<1>7. heard' \in [Timers -> BOOLEAN] /\ \A u \in Timers : u # t => heard'[u] = heard[u]
  BY <1>2, <1>5
<1>8. /\ \A u \in Timers : u # t => st'[u] = st[u]
      /\ st'[t] = IF d = 0 THEN "fired" ELSE "pending"
  BY <1>1, <1>4
<1> DEFINE new == Clock!Waiter(t, clockNow + d)
<1>9. d # 0 => new \in WaiterSet /\ new.owner = t /\ new.at > clockNow
  BY <1>4, ClockConstants DEF Clock!Waiter, WaiterSet, Clock!Owners
<1> HIDE DEF new
<1>10. /\ waiters' \in Seq(WaiterSet) /\ Distinct(waiters')
       /\ Elems(waiters') = (IF d = 0 THEN Elems(rest) ELSE Elems(rest) \cup {new})
  <2>1. CASE d = 0
    BY <2>1, <1>1
  <2>2. CASE d # 0
    <3>1. waiters' = Append(rest, new) /\ new \in WaiterSet /\ new.owner = t
      BY <2>2, <1>1, <1>9 DEF new
    <3>2. \A v \in Elems(rest) : v.owner # new.owner
      BY <3>1
    <3>3. waiters' \in Seq(WaiterSet) /\ Distinct(waiters') /\ Elems(waiters') = Elems(rest) \cup {new}
      BY <3>1, <3>2, Appended
    <3>4. QED
      BY <3>3, <2>2
  <2>3. QED
    BY <2>1, <2>2
<1>11. \A w \in Elems(waiters') : w.at > clockNow
  BY <1>3, <1>9, <1>10 DEF ListsTyped
<1>12. ListsTyped'
  <2>1. due' \in Seq(WaiterSet) /\ Distinct(due')
    BY <1>1, <1>3 DEF ListsTyped
  <2>2. QED
    BY <2>1, <1>1, <1>10, <1>11 DEF ListsTyped
<1>13. \A o : o # t => \A w : (w \in Elems(waiters') /\ w.owner = o) <=> (w \in Elems(waiters) /\ w.owner = o)
  BY <1>9, <1>10
<1>14. (\E w \in Elems(waiters') : w.owner = t) <=> d # 0
  BY <1>9, <1>10
<1>15. PendingIsListed'
  <2> SUFFICES ASSUME NEW u \in Timers
               PROVE  st'[u] = "pending" <=> \E w \in Elems(waiters') : w.owner = u
    BY DEF PendingIsListed
  <2>1. CASE u = t
    BY <2>1, <1>8, <1>14
  <2>2. CASE u # t
    BY <2>2, <1>3, <1>8, <1>13 DEF PendingIsListed
  <2>3. QED
    BY <2>1, <2>2
<1>16. SleepIsListed'
  <2> SUFFICES ASSUME NEW s \in Sleepers
               PROVE  /\ bed[s] > clockNow => \E w \in Elems(waiters') : w.owner = s
                      /\ \A w \in Elems(waiters') : w.owner = s => w.at = bed[s]
    BY <1>1 DEF SleepIsListed
  <2>1. s # t
    BY ClockConstants
  <2>2. QED
    BY <2>1, <1>3, <1>13 DEF SleepIsListed
<1>17. QED
  BY <1>6, <1>7, <1>8, <1>12, <1>15, <1>16

LEMMA NewTimerKeeps ==
  ASSUME ClockInv, NEW t \in Timers, NEW d \in Clock!Delays, Clock!NewTimer(t, d)
  PROVE  ClockInv'
<1>1. /\ st[t] = "none" /\ Clock!Arm(t, d, waiters)
      /\ ch' = [ch EXCEPT ![t] = IF d = 0 THEN clockNow ELSE 0]
      /\ clockNow' = clockNow /\ due' = due /\ firing' = firing /\ bed' = bed
  BY DEF Clock!NewTimer, Clock!Empty
<1>2. ClockTyped /\ ListsTyped /\ PendingIsListed /\ WakesOnce /\ FireIsSomewhere
  BY DEF ClockInv
<1>3. Elems(waiters) = {w \in Elems(waiters) : w.owner # t}
  BY <1>1, <1>2 DEF PendingIsListed
<1>4. waiters \in Seq(WaiterSet) /\ Distinct(waiters)
  BY <1>2 DEF ListsTyped
<1>5. /\ ListsTyped' /\ PendingIsListed' /\ SleepIsListed'
      /\ st' \in [Timers -> {"none", "pending", "fired", "stopped"}]
      /\ heard' \in [Timers -> BOOLEAN]
      /\ \A u \in Timers : u # t => st'[u] = st[u] /\ heard'[u] = heard[u]
      /\ d # 0 => st'[t] = "pending"
  BY <1>1, <1>3, <1>4, Armed
<1>6. /\ ch \in [Clock!Owners -> 0 .. MaxNow] /\ clockNow \in 1 .. MaxNow
      /\ t \in Clock!Owners /\ MaxNow \in Nat
  BY <1>2, ClockConstants DEF ClockTyped, Clock!Owners
<1>7. /\ ch' \in [Clock!Owners -> 0 .. MaxNow]
      /\ \A o \in Clock!Owners : o # t => ch'[o] = ch[o]
      /\ d = 0 => ch'[t] # 0
  BY <1>1, <1>6
<1>8. ClockTyped'
  BY <1>1, <1>2, <1>5, <1>7 DEF ClockTyped
<1>9. WakesOnce'
  <2> SUFFICES ASSUME NEW s \in Sleepers
               PROVE  /\ ~(ch'[s] # 0 /\ \E w \in Elems(due) : w.owner = s)
                      /\ bed[s] # 0 /\ bed[s] <= clockNow <=> ch'[s] # 0 \/ \E w \in Elems(due) : w.owner = s
    BY <1>1 DEF WakesOnce
  <2>1. ch'[s] = ch[s]
    BY <1>7, ClockConstants DEF Clock!Owners
  <2>2. QED
    BY <2>1, <1>2 DEF WakesOnce
<1>10. FireIsSomewhere'
  <2> SUFFICES ASSUME NEW u \in Timers, st'[u] = "fired", ~heard'[u]
               PROVE  ch'[u] # 0 \/ (\E w \in Elems(due) : w.owner = u) \/ firing[u] # 0
    BY <1>1 DEF FireIsSomewhere
  <2>1. CASE u = t
    BY <2>1, <1>5, <1>7
  <2>2. CASE u # t
    <3>1. st[u] = "fired" /\ ~heard[u] /\ ch'[u] = ch[u]
      BY <2>2, <1>5, <1>7 DEF Clock!Owners
    <3>2. QED
      BY <3>1, <1>2 DEF FireIsSomewhere
  <2>3. QED
    BY <2>1, <2>2
<1>11. QED
  BY <1>5, <1>8, <1>9, <1>10 DEF ClockInv

LEMMA ResetKeeps ==
  ASSUME ClockInv, NEW t \in Timers, NEW d \in Clock!Delays, Clock!Reset(t, d)
  PROVE  ClockInv'
<1> DEFINE rest == IF st[t] = "pending" THEN Clock!removeWaiter(t) ELSE waiters
<1>1. /\ Clock!Arm(t, d, rest)
      /\ firing' = [firing EXCEPT ![t] = IF d = 0 THEN clockNow ELSE 0]
      /\ clockNow' = clockNow /\ due' = due /\ ch' = ch /\ bed' = bed
  BY DEF Clock!Reset, Clock!Empty
<1>2. ClockTyped /\ ListsTyped /\ PendingIsListed /\ WakesOnce /\ FireIsSomewhere
  BY DEF ClockInv
<1>3. /\ rest \in Seq(WaiterSet) /\ Distinct(rest)
      /\ Elems(rest) = {w \in Elems(waiters) : w.owner # t}
  <2>1. CASE st[t] = "pending"
    BY <2>1, <1>2, Removed
  <2>2. CASE st[t] # "pending"
    BY <2>2, <1>2 DEF ListsTyped, PendingIsListed
  <2>3. QED
    BY <2>1, <2>2
<1> HIDE DEF rest
<1>4. /\ ListsTyped' /\ PendingIsListed' /\ SleepIsListed'
      /\ st' \in [Timers -> {"none", "pending", "fired", "stopped"}]
      /\ heard' \in [Timers -> BOOLEAN]
      /\ \A u \in Timers : u # t => st'[u] = st[u] /\ heard'[u] = heard[u]
      /\ d # 0 => st'[t] = "pending"
  BY <1>1, <1>3, Armed
<1>5. firing \in [Timers -> 0 .. MaxNow] /\ clockNow \in 1 .. MaxNow /\ MaxNow \in Nat
  BY <1>2, ClockConstants DEF ClockTyped
<1>6. /\ firing' \in [Timers -> 0 .. MaxNow]
      /\ \A u \in Timers : u # t => firing'[u] = firing[u]
      /\ d = 0 => firing'[t] # 0
  BY <1>1, <1>5
<1>7. ClockTyped'
  BY <1>1, <1>2, <1>4, <1>6 DEF ClockTyped
<1>8. WakesOnce'
  BY <1>1, <1>2 DEF WakesOnce
<1>9. FireIsSomewhere'
  <2> SUFFICES ASSUME NEW u \in Timers, st'[u] = "fired", ~heard'[u]
               PROVE  ch[u] # 0 \/ (\E w \in Elems(due) : w.owner = u) \/ firing'[u] # 0
    BY <1>1 DEF FireIsSomewhere
  <2>1. CASE u = t
    BY <2>1, <1>4, <1>6
  <2>2. CASE u # t
    <3>1. st[u] = "fired" /\ ~heard[u] /\ firing'[u] = firing[u]
      BY <2>2, <1>4, <1>6
    <3>2. QED
      BY <3>1, <1>2 DEF FireIsSomewhere
  <2>3. QED
    BY <2>1, <2>2
<1>10. QED
  BY <1>4, <1>7, <1>8, <1>9 DEF ClockInv

LEMMA StopKeeps ==
  ASSUME ClockInv, NEW t \in Timers, Clock!Stop(t)
  PROVE  ClockInv'
<1>1. /\ st[t] = "pending" /\ st' = [st EXCEPT ![t] = "stopped"]
      /\ waiters' = Clock!removeWaiter(t)
      /\ clockNow' = clockNow /\ ch' = ch /\ due' = due /\ firing' = firing /\ bed' = bed
  BY DEF Clock!Stop
<1>2. heard' = heard
  BY DEF Clock!Stop
<1>3. ClockTyped /\ ListsTyped /\ PendingIsListed /\ SleepIsListed /\ WakesOnce /\ FireIsSomewhere
  BY DEF ClockInv
<1>4. /\ waiters' \in Seq(WaiterSet) /\ Distinct(waiters')
      /\ Elems(waiters') = {w \in Elems(waiters) : w.owner # t}
  BY <1>1, <1>3, Removed
<1>5. st \in [Timers -> {"none", "pending", "fired", "stopped"}]
  BY <1>3 DEF ClockTyped
<1>6. /\ st' \in [Timers -> {"none", "pending", "fired", "stopped"}]
      /\ st'[t] = "stopped" /\ \A u \in Timers : u # t => st'[u] = st[u]
  BY <1>1, <1>5
<1>7. ClockTyped'
  BY <1>1, <1>2, <1>3, <1>6 DEF ClockTyped
<1>8. ListsTyped'
  BY <1>1, <1>3, <1>4 DEF ListsTyped
<1>9. PendingIsListed'
  <2> SUFFICES ASSUME NEW u \in Timers
               PROVE  st'[u] = "pending" <=> \E w \in Elems(waiters') : w.owner = u
    BY DEF PendingIsListed
  <2>1. CASE u = t
    BY <2>1, <1>4, <1>6
  <2>2. CASE u # t
    BY <2>2, <1>3, <1>4, <1>6 DEF PendingIsListed
  <2>3. QED
    BY <2>1, <2>2
<1>10. SleepIsListed'
  <2> SUFFICES ASSUME NEW s \in Sleepers
               PROVE  /\ bed[s] > clockNow => \E w \in Elems(waiters') : w.owner = s
                      /\ \A w \in Elems(waiters') : w.owner = s => w.at = bed[s]
    BY <1>1 DEF SleepIsListed
  <2>1. s # t
    BY ClockConstants
  <2>2. QED
    BY <2>1, <1>3, <1>4 DEF SleepIsListed
<1>11. WakesOnce'
  BY <1>1, <1>3 DEF WakesOnce
<1>12. FireIsSomewhere'
  <2> SUFFICES ASSUME NEW u \in Timers, st'[u] = "fired", ~heard[u]
               PROVE  ch[u] # 0 \/ (\E w \in Elems(due) : w.owner = u) \/ firing[u] # 0
    BY <1>1, <1>2 DEF FireIsSomewhere
  <2>1. u # t /\ st[u] = "fired"
    BY <1>6
  <2>2. QED
    BY <2>1, <1>3 DEF FireIsSomewhere
<1>13. QED
  BY <1>7, <1>8, <1>9, <1>10, <1>11, <1>12 DEF ClockInv

\* Reset's write leaves the channel full, whether it was written or dropped.
LEMMA ResetFiresKeeps ==
  ASSUME ClockInv, NEW t \in Timers, Clock!ResetFires(t)
  PROVE  ClockInv'
<1>1. /\ firing[t] # 0
      /\ ch' = [ch EXCEPT ![t] = IF ch[t] = 0 THEN firing[t] ELSE ch[t]]
      /\ firing' = [firing EXCEPT ![t] = 0]
      /\ clockNow' = clockNow /\ waiters' = waiters /\ st' = st /\ due' = due /\ bed' = bed
  BY DEF Clock!ResetFires, Clock!Empty
<1>2. heard' = heard
  BY DEF Clock!ResetFires
<1>3. ClockTyped /\ ListsTyped /\ PendingIsListed /\ SleepIsListed /\ WakesOnce /\ FireIsSomewhere
  BY DEF ClockInv
<1>4. /\ ch \in [Clock!Owners -> 0 .. MaxNow] /\ firing \in [Timers -> 0 .. MaxNow]
      /\ t \in Clock!Owners /\ MaxNow \in Nat
  BY <1>3, ClockConstants DEF ClockTyped, Clock!Owners
<1>5. /\ ch' \in [Clock!Owners -> 0 .. MaxNow] /\ ch'[t] # 0
      /\ \A o \in Clock!Owners : o # t => ch'[o] = ch[o]
  BY <1>1, <1>4
<1>6. firing' \in [Timers -> 0 .. MaxNow] /\ \A u \in Timers : u # t => firing'[u] = firing[u]
  BY <1>1, <1>4
<1>7. ClockTyped'
  BY <1>1, <1>2, <1>3, <1>5, <1>6 DEF ClockTyped
<1>8. ListsTyped' /\ PendingIsListed' /\ SleepIsListed'
  BY <1>1, <1>3 DEF ListsTyped, PendingIsListed, SleepIsListed
<1>9. WakesOnce'
  <2> SUFFICES ASSUME NEW s \in Sleepers
               PROVE  /\ ~(ch'[s] # 0 /\ \E w \in Elems(due) : w.owner = s)
                      /\ bed[s] # 0 /\ bed[s] <= clockNow <=> ch'[s] # 0 \/ \E w \in Elems(due) : w.owner = s
    BY <1>1 DEF WakesOnce
  <2>1. ch'[s] = ch[s]
    BY <1>5, ClockConstants DEF Clock!Owners
  <2>2. QED
    BY <2>1, <1>3 DEF WakesOnce
<1>10. FireIsSomewhere'
  <2> SUFFICES ASSUME NEW u \in Timers, st[u] = "fired", ~heard[u]
               PROVE  ch'[u] # 0 \/ (\E w \in Elems(due) : w.owner = u) \/ firing'[u] # 0
    BY <1>1, <1>2 DEF FireIsSomewhere
  <2>1. CASE u = t
    BY <2>1, <1>5
  <2>2. CASE u # t
    <3>1. ch'[u] = ch[u] /\ firing'[u] = firing[u]
      BY <2>2, <1>5, <1>6 DEF Clock!Owners
    <3>2. QED
      BY <3>1, <1>3 DEF FireIsSomewhere
  <2>3. QED
    BY <2>1, <2>2
<1>11. QED
  BY <1>7, <1>8, <1>9, <1>10 DEF ClockInv

LEMMA ReceiveKeeps ==
  ASSUME ClockInv, NEW t \in Timers, Clock!Receive(t)
  PROVE  ClockInv'
<1>1. /\ ch' = [ch EXCEPT ![t] = 0]
      /\ clockNow' = clockNow /\ waiters' = waiters /\ st' = st /\ due' = due
      /\ firing' = firing /\ bed' = bed
  BY DEF Clock!Receive, Clock!Empty
<1>2. heard' = [heard EXCEPT ![t] = TRUE]
  BY DEF Clock!Receive
<1>3. ClockTyped /\ ListsTyped /\ PendingIsListed /\ SleepIsListed /\ WakesOnce /\ FireIsSomewhere
  BY DEF ClockInv
<1>4. ch \in [Clock!Owners -> 0 .. MaxNow] /\ t \in Clock!Owners /\ MaxNow \in Nat
  BY <1>3, ClockConstants DEF ClockTyped, Clock!Owners
<1>5. /\ ch' \in [Clock!Owners -> 0 .. MaxNow]
      /\ \A o \in Clock!Owners : o # t => ch'[o] = ch[o]
  BY <1>1, <1>4
<1>6. heard \in [Timers -> BOOLEAN]
  BY <1>3 DEF ClockTyped
<1>7. heard' \in [Timers -> BOOLEAN] /\ heard'[t] /\ \A u \in Timers : u # t => heard'[u] = heard[u]
  BY <1>2, <1>6
<1>8. ClockTyped'
  BY <1>1, <1>3, <1>5, <1>7 DEF ClockTyped
<1>9. ListsTyped' /\ PendingIsListed' /\ SleepIsListed'
  BY <1>1, <1>3 DEF ListsTyped, PendingIsListed, SleepIsListed
<1>10. WakesOnce'
  <2> SUFFICES ASSUME NEW s \in Sleepers
               PROVE  /\ ~(ch'[s] # 0 /\ \E w \in Elems(due) : w.owner = s)
                      /\ bed[s] # 0 /\ bed[s] <= clockNow <=> ch'[s] # 0 \/ \E w \in Elems(due) : w.owner = s
    BY <1>1 DEF WakesOnce
  <2>1. ch'[s] = ch[s]
    BY <1>5, ClockConstants DEF Clock!Owners
  <2>2. QED
    BY <2>1, <1>3 DEF WakesOnce
<1>11. FireIsSomewhere'
  <2> SUFFICES ASSUME NEW u \in Timers, st[u] = "fired", ~heard'[u]
               PROVE  ch'[u] # 0 \/ (\E w \in Elems(due) : w.owner = u) \/ firing[u] # 0
    BY <1>1 DEF FireIsSomewhere
  <2>1. u # t
    BY <1>7
  <2>2. ~heard[u] /\ ch'[u] = ch[u]
    BY <2>1, <1>5, <1>7 DEF Clock!Owners
  <2>3. QED
    BY <2>2, <1>3 DEF FireIsSomewhere
<1>12. QED
  BY <1>8, <1>9, <1>10, <1>11 DEF ClockInv

\* A goroutine that wakes has no other wake-up on its way.
LEMMA WakeKeeps ==
  ASSUME ClockInv, NEW s \in Sleepers, Clock!Wake(s)
  PROVE  ClockInv'
<1>1. /\ ch[s] # 0 /\ ch' = [ch EXCEPT ![s] = 0] /\ bed' = [bed EXCEPT ![s] = 0]
      /\ clockNow' = clockNow /\ waiters' = waiters /\ st' = st /\ due' = due /\ firing' = firing
  BY DEF Clock!Wake, Clock!Empty
<1>2. heard' = heard
  BY DEF Clock!Wake
<1>3. ClockTyped /\ ListsTyped /\ PendingIsListed /\ SleepIsListed /\ WakesOnce /\ FireIsSomewhere
  BY DEF ClockInv
<1>4. /\ ch \in [Clock!Owners -> 0 .. MaxNow] /\ bed \in [Sleepers -> 0 .. (MaxNow + MaxDelay)]
      /\ s \in Clock!Owners /\ MaxNow \in Nat /\ MaxDelay \in Nat /\ clockNow \in 1 .. MaxNow
  BY <1>3, ClockConstants DEF ClockTyped, Clock!Owners
<1>5. /\ ch' \in [Clock!Owners -> 0 .. MaxNow] /\ ch'[s] = 0
      /\ \A o \in Clock!Owners : o # s => ch'[o] = ch[o]
  BY <1>1, <1>4
<1>6. /\ bed' \in [Sleepers -> 0 .. (MaxNow + MaxDelay)] /\ bed'[s] = 0
      /\ \A r \in Sleepers : r # s => bed'[r] = bed[r]
  BY <1>1, <1>4
<1>7. ClockTyped'
  BY <1>1, <1>2, <1>3, <1>5, <1>6 DEF ClockTyped
<1>8. ListsTyped' /\ PendingIsListed'
  BY <1>1, <1>3 DEF ListsTyped, PendingIsListed
<1>9. bed[s] <= clockNow /\ ~\E w \in Elems(due) : w.owner = s
  BY <1>1, <1>3 DEF WakesOnce
<1>10. ~\E w \in Elems(waiters) : w.owner = s
  <2> SUFFICES ASSUME NEW w \in Elems(waiters), w.owner = s PROVE FALSE
    OBVIOUS
  <2>1. w.at = bed[s] /\ w.at > clockNow /\ bed[s] \in Nat
    BY <1>3, <1>4 DEF SleepIsListed, ListsTyped
  <2>2. QED
    BY <2>1, <1>4, <1>9
<1>11. SleepIsListed'
  <2> SUFFICES ASSUME NEW r \in Sleepers
               PROVE  /\ bed'[r] > clockNow => \E w \in Elems(waiters) : w.owner = r
                      /\ \A w \in Elems(waiters) : w.owner = r => w.at = bed'[r]
    BY <1>1 DEF SleepIsListed
  <2>1. CASE r = s
    BY <2>1, <1>4, <1>6, <1>10
  <2>2. CASE r # s
    BY <2>2, <1>3, <1>6 DEF SleepIsListed
  <2>3. QED
    BY <2>1, <2>2
<1>12. WakesOnce'
  <2> SUFFICES ASSUME NEW r \in Sleepers
               PROVE  /\ ~(ch'[r] # 0 /\ \E w \in Elems(due) : w.owner = r)
                      /\ bed'[r] # 0 /\ bed'[r] <= clockNow <=> ch'[r] # 0 \/ \E w \in Elems(due) : w.owner = r
    BY <1>1 DEF WakesOnce
  <2>1. CASE r = s
    BY <2>1, <1>5, <1>6, <1>9
  <2>2. CASE r # s
    <3>1. ch'[r] = ch[r] /\ bed'[r] = bed[r]
      BY <2>2, <1>5, <1>6 DEF Clock!Owners
    <3>2. QED
      BY <3>1, <1>3 DEF WakesOnce
  <2>3. QED
    BY <2>1, <2>2
<1>13. FireIsSomewhere'
  <2>1. \A u \in Timers : ch'[u] = ch[u]
    BY <1>5, ClockConstants DEF Clock!Owners
  <2>2. QED
    BY <2>1, <1>1, <1>2, <1>3 DEF FireIsSomewhere
<1>14. QED
  BY <1>7, <1>8, <1>11, <1>12, <1>13 DEF ClockInv

\* A goroutine goes to sleep: its wake-up is in its channel or in the list.
LEMMA ParkKeeps ==
  ASSUME ClockInv, NEW s \in Sleepers, NEW at \in 1 .. (MaxNow + MaxDelay), Clock!Park(s, at)
  PROVE  ClockInv'
<1>1. /\ bed[s] = 0 /\ bed' = [bed EXCEPT ![s] = at]
      /\ clockNow' = clockNow /\ st' = st /\ due' = due /\ firing' = firing
      /\ at <= clockNow => ch' = [ch EXCEPT ![s] = clockNow] /\ waiters' = waiters
      /\ ~(at <= clockNow) => waiters' = Append(waiters, Clock!Waiter(s, at)) /\ ch' = ch
  BY DEF Clock!Park, Clock!Empty
<1>2. heard' = heard
  BY DEF Clock!Park
<1>3. ClockTyped /\ ListsTyped /\ PendingIsListed /\ SleepIsListed /\ WakesOnce /\ FireIsSomewhere
  BY DEF ClockInv
<1>4. /\ ch \in [Clock!Owners -> 0 .. MaxNow] /\ bed \in [Sleepers -> 0 .. (MaxNow + MaxDelay)]
      /\ s \in Clock!Owners /\ MaxNow \in Nat /\ MaxDelay \in Nat /\ clockNow \in 1 .. MaxNow
  BY <1>3, ClockConstants DEF ClockTyped, Clock!Owners
<1>5. /\ bed' \in [Sleepers -> 0 .. (MaxNow + MaxDelay)] /\ bed'[s] = at
      /\ \A r \in Sleepers : r # s => bed'[r] = bed[r]
  BY <1>1, <1>4
<1>6. ch[s] = 0 /\ ~\E w \in Elems(due) : w.owner = s
  BY <1>1, <1>3 DEF WakesOnce
<1>7. ~\E w \in Elems(waiters) : w.owner = s
  <2> SUFFICES ASSUME NEW w \in Elems(waiters), w.owner = s PROVE FALSE
    OBVIOUS
  <2>1. w.at = 0 /\ w.at > clockNow
    BY <1>1, <1>3 DEF SleepIsListed, ListsTyped
  <2>2. QED
    BY <2>1, <1>4
<1>8. CASE at <= clockNow
  <2>1. ch' = [ch EXCEPT ![s] = clockNow] /\ waiters' = waiters
    BY <1>1, <1>8
  <2>2. /\ ch' \in [Clock!Owners -> 0 .. MaxNow] /\ ch'[s] # 0
        /\ \A o \in Clock!Owners : o # s => ch'[o] = ch[o]
    BY <2>1, <1>4
  <2>3. ClockTyped'
    BY <2>2, <1>1, <1>2, <1>3, <1>5 DEF ClockTyped
  <2>4. ListsTyped' /\ PendingIsListed'
    BY <2>1, <1>1, <1>3 DEF ListsTyped, PendingIsListed
  <2>5. SleepIsListed'
    <3> SUFFICES ASSUME NEW r \in Sleepers
                 PROVE  /\ bed'[r] > clockNow => \E w \in Elems(waiters) : w.owner = r
                        /\ \A w \in Elems(waiters) : w.owner = r => w.at = bed'[r]
      BY <2>1, <1>1 DEF SleepIsListed
    <3>1. CASE r = s
      BY <3>1, <1>4, <1>5, <1>7, <1>8
    <3>2. CASE r # s
      BY <3>2, <1>3, <1>5 DEF SleepIsListed
    <3>3. QED
      BY <3>1, <3>2
  <2>6. WakesOnce'
    <3> SUFFICES ASSUME NEW r \in Sleepers
                 PROVE  /\ ~(ch'[r] # 0 /\ \E w \in Elems(due) : w.owner = r)
                        /\ bed'[r] # 0 /\ bed'[r] <= clockNow <=> ch'[r] # 0 \/ \E w \in Elems(due) : w.owner = r
      BY <1>1 DEF WakesOnce
    <3>1. CASE r = s
      BY <3>1, <2>2, <1>5, <1>6, <1>8
    <3>2. CASE r # s
      <4>1. ch'[r] = ch[r] /\ bed'[r] = bed[r]
        BY <3>2, <2>2, <1>5 DEF Clock!Owners
      <4>2. QED
        BY <4>1, <1>3 DEF WakesOnce
    <3>3. QED
      BY <3>1, <3>2
  <2>7. FireIsSomewhere'
    <3>1. \A u \in Timers : ch'[u] = ch[u]
      BY <2>2, ClockConstants DEF Clock!Owners
    <3>2. QED
      BY <3>1, <1>1, <1>2, <1>3 DEF FireIsSomewhere
  <2>8. QED
    BY <2>3, <2>4, <2>5, <2>6, <2>7 DEF ClockInv
<1>9. CASE ~(at <= clockNow)
  <2> DEFINE new == Clock!Waiter(s, at)
  <2>1. waiters' = Append(waiters, new) /\ ch' = ch
    BY <1>1, <1>9
  <2>2. new \in WaiterSet /\ new.owner = s /\ new.at = at
    BY <1>4 DEF Clock!Waiter, WaiterSet
  <2> HIDE DEF new
  <2>3. waiters' \in Seq(WaiterSet) /\ Distinct(waiters') /\ Elems(waiters') = Elems(waiters) \cup {new}
    <3>1. waiters \in Seq(WaiterSet) /\ Distinct(waiters)
      BY <1>3 DEF ListsTyped
    <3>2. \A v \in Elems(waiters) : v.owner # new.owner
      BY <2>2, <1>7
    <3>3. QED
      BY <3>1, <3>2, <2>1, <2>2, Appended
  <2>4. at > clockNow
    BY <1>4, <1>9
  <2>5. ClockTyped'
    BY <2>1, <1>1, <1>2, <1>3, <1>5 DEF ClockTyped
  <2>6. ListsTyped'
    BY <2>2, <2>3, <2>4, <1>1, <1>3 DEF ListsTyped
  <2>7. PendingIsListed'
    <3>1. \A t \in Timers : t # s
      BY ClockConstants
    <3>2. QED
      BY <3>1, <2>2, <2>3, <1>1, <1>3 DEF PendingIsListed
  <2>8. SleepIsListed'
    <3> SUFFICES ASSUME NEW r \in Sleepers
                 PROVE  /\ bed'[r] > clockNow => \E w \in Elems(waiters') : w.owner = r
                        /\ \A w \in Elems(waiters') : w.owner = r => w.at = bed'[r]
      BY <1>1 DEF SleepIsListed
    <3>1. CASE r = s
      BY <3>1, <2>2, <2>3, <1>5, <1>7
    <3>2. CASE r # s
      BY <3>2, <2>2, <2>3, <1>3, <1>5 DEF SleepIsListed
    <3>3. QED
      BY <3>1, <3>2
  <2>9. WakesOnce'
    <3> SUFFICES ASSUME NEW r \in Sleepers
                 PROVE  /\ ~(ch[r] # 0 /\ \E w \in Elems(due) : w.owner = r)
                        /\ bed'[r] # 0 /\ bed'[r] <= clockNow <=> ch[r] # 0 \/ \E w \in Elems(due) : w.owner = r
      BY <2>1, <1>1 DEF WakesOnce
    <3>1. CASE r = s
      BY <3>1, <1>5, <1>6, <1>9
    <3>2. CASE r # s
      BY <3>2, <1>3, <1>5 DEF WakesOnce
    <3>3. QED
      BY <3>1, <3>2
  <2>10. FireIsSomewhere'
    BY <2>1, <1>1, <1>2, <1>3 DEF FireIsSomewhere
  <2>11. QED
    BY <2>5, <2>6, <2>7, <2>8, <2>9, <2>10 DEF ClockInv
<1>10. QED
  BY <1>8, <1>9

\* Advance claims the waiters whose time has come and leaves the others.
LEMMA AdvanceKeeps ==
  ASSUME ClockInv, NEW d \in 1 .. MaxNow, Clock!Advance(d)
  PROVE  ClockInv'
<1> DEFINE now2 == clockNow + d
           Ripe == {i \in 1 .. Len(waiters) : waiters[i].at <= now2}
           Unripe == {i \in 1 .. Len(waiters) : ~(waiters[i].at <= now2)}
<1>1. ClockTyped /\ ListsTyped /\ PendingIsListed /\ SleepIsListed /\ WakesOnce /\ FireIsSomewhere
  BY DEF ClockInv
<1>2. waiters \in Seq(WaiterSet) /\ DOMAIN waiters = 1 .. Len(waiters)
  BY <1>1 DEF ListsTyped
<1>3. /\ due = <<>> /\ now2 <= MaxNow /\ clockNow' = now2
      /\ ch' = ch /\ firing' = firing /\ bed' = bed
  BY DEF Clock!Advance
<1>4. heard' = heard
  BY DEF Clock!Advance
<1>5. due' = Clock!Pick(Ripe) /\ waiters' = Clock!Pick(Unripe)
  BY <1>2, <1>3 DEF Clock!Advance, Clock!IsDue
<1>6. st' = [t \in Timers |-> IF \E i \in DOMAIN due' : due'[i].owner = t THEN "fired" ELSE st[t]]
  BY DEF Clock!Advance
<1>7. due' \in Seq(WaiterSet) /\ Distinct(due') /\ Elems(due') = {waiters[i] : i \in Ripe}
  <2>1. Ripe \subseteq 1 .. Len(waiters)
    OBVIOUS
  <2> HIDE DEF Ripe
  <2>2. QED
    BY <2>1, <1>1, <1>5, Picked
<1>8. waiters' \in Seq(WaiterSet) /\ Distinct(waiters') /\ Elems(waiters') = {waiters[i] : i \in Unripe}
  <2>1. Unripe \subseteq 1 .. Len(waiters)
    OBVIOUS
  <2> HIDE DEF Unripe
  <2>2. QED
    BY <2>1, <1>1, <1>5, Picked
<1>9. Elems(due') = {w \in Elems(waiters) : w.at <= now2}
  BY <1>7 DEF Elems
<1>10. Elems(waiters') = {w \in Elems(waiters) : ~(w.at <= now2)}
  BY <1>8 DEF Elems
<1>11. \A o : (\E i \in DOMAIN due' : due'[i].owner = o) <=> \E w \in Elems(due') : w.owner = o
  <2>1. DOMAIN due' = 1 .. Len(due')
    BY <1>7
  <2>2. QED
    BY <2>1 DEF Elems
<1>12. \A t \in Timers : st'[t] = IF \E w \in Elems(due') : w.owner = t THEN "fired" ELSE st[t]
  BY <1>6, <1>11
<1>13. \A v, w \in Elems(waiters) : v.owner = w.owner => v = w
  BY <1>1 DEF ListsTyped, Distinct, Elems
<1>14. Elems(due) = {}
  BY <1>3 DEF Elems
<1>15. /\ clockNow \in Nat /\ clockNow > 0 /\ d \in Nat /\ d > 0 /\ now2 \in Nat /\ now2 > clockNow
       /\ \A w \in Elems(waiters) : w.at \in Nat
  <2>1. clockNow \in Nat /\ clockNow > 0 /\ d \in Nat /\ d > 0
    BY <1>1, ClockConstants DEF ClockTyped
  <2>2. \A w \in Elems(waiters) : w \in WaiterSet
    BY <1>2 DEF Elems
  <2>3. \A w \in Elems(waiters) : w.at \in Nat
    BY <2>2, ClockConstants DEF WaiterSet
  <2>4. QED
    BY <2>1, <2>3
<1> HIDE DEF now2, Ripe, Unripe
<1>16. ClockTyped'
  <2>1. st \in [Timers -> {"none", "pending", "fired", "stopped"}]
    BY <1>1 DEF ClockTyped
  <2>2. st' \in [Timers -> {"none", "pending", "fired", "stopped"}]
    <3>1. \A t \in Timers : (IF \E i \in DOMAIN due' : due'[i].owner = t THEN "fired" ELSE st[t])
                              \in {"none", "pending", "fired", "stopped"}
      BY <2>1
    <3>2. QED
      BY <3>1, <1>6
  <2>3. clockNow' \in 1 .. MaxNow
    BY <1>3, <1>15, ClockConstants
  <2>4. QED
    BY <2>2, <2>3, <1>1, <1>3, <1>4 DEF ClockTyped
<1>17. ListsTyped'
  <2>1. \A w \in Elems(waiters') : w.at > clockNow'
    BY <1>3, <1>10, <1>15
  <2>2. QED
    BY <2>1, <1>7, <1>8 DEF ListsTyped
<1>18. PendingIsListed'
  <2> SUFFICES ASSUME NEW t \in Timers
               PROVE  st'[t] = "pending" <=> \E w \in Elems(waiters') : w.owner = t
    BY DEF PendingIsListed
  <2>1. st[t] = "pending" <=> \E w \in Elems(waiters) : w.owner = t
    BY <1>1 DEF PendingIsListed
  <2>2. CASE \E w \in Elems(due') : w.owner = t
    <3>1. st'[t] = "fired"
      BY <2>2, <1>12
    <3>2. ~\E w \in Elems(waiters') : w.owner = t
      BY <2>2, <1>9, <1>10, <1>13
    <3>3. QED
      BY <3>1, <3>2
  <2>3. CASE ~\E w \in Elems(due') : w.owner = t
    <3>1. st'[t] = st[t]
      BY <2>3, <1>12
    <3>2. (\E w \in Elems(waiters') : w.owner = t) <=> \E w \in Elems(waiters) : w.owner = t
      BY <2>3, <1>9, <1>10
    <3>3. QED
      BY <3>1, <3>2, <2>1
  <2>4. QED
    BY <2>2, <2>3
<1>19. ASSUME NEW s \in Sleepers
       PROVE  /\ bed[s] \in Nat
              /\ bed[s] > clockNow => \E w \in Elems(waiters) : w.owner = s /\ w.at = bed[s]
              /\ \A w \in Elems(waiters) : w.owner = s => w.at = bed[s] /\ bed[s] > clockNow
              /\ bed[s] # 0 /\ bed[s] <= clockNow <=> ch[s] # 0
  <2>1. bed[s] \in Nat
    BY <1>1, ClockConstants DEF ClockTyped
  <2>2. bed[s] # 0 /\ bed[s] <= clockNow <=> ch[s] # 0
    BY <1>1, <1>14 DEF WakesOnce
  <2>3. QED
    BY <2>1, <2>2, <1>1 DEF SleepIsListed, ListsTyped
<1>20. SleepIsListed'
  <2> SUFFICES ASSUME NEW s \in Sleepers
               PROVE  /\ bed[s] > now2 => \E w \in Elems(waiters') : w.owner = s
                      /\ \A w \in Elems(waiters') : w.owner = s => w.at = bed[s]
    BY <1>3 DEF SleepIsListed
  <2>1. bed[s] > now2 => bed[s] > clockNow /\ ~(bed[s] <= now2)
    BY <1>15, <1>19
  <2>2. QED
    BY <2>1, <1>10, <1>19
<1>21. WakesOnce'
  <2> SUFFICES ASSUME NEW s \in Sleepers
               PROVE  /\ ~(ch[s] # 0 /\ \E w \in Elems(due') : w.owner = s)
                      /\ bed[s] # 0 /\ bed[s] <= now2 <=> ch[s] # 0 \/ \E w \in Elems(due') : w.owner = s
    BY <1>3 DEF WakesOnce
  <2>1. (\E w \in Elems(due') : w.owner = s) <=> bed[s] > clockNow /\ bed[s] <= now2
    BY <1>9, <1>19
  <2>2. QED
    BY <2>1, <1>15, <1>19
<1>22. FireIsSomewhere'
  <2> SUFFICES ASSUME NEW t \in Timers, st'[t] = "fired", ~heard[t]
               PROVE  ch[t] # 0 \/ (\E w \in Elems(due') : w.owner = t) \/ firing[t] # 0
    BY <1>3, <1>4 DEF FireIsSomewhere
  <2>1. CASE ~\E w \in Elems(due') : w.owner = t
    <3>1. st[t] = "fired"
      BY <2>1, <1>12
    <3>2. QED
      BY <3>1, <1>1, <1>14 DEF FireIsSomewhere
  <2>2. QED
    BY <2>1
<1>23. QED
  BY <1>16, <1>17, <1>18, <1>20, <1>21, <1>22 DEF ClockInv

\* Advance's next write takes its waiter from the way into the channel.
LEMMA ClockDeliverKeeps ==
  ASSUME ClockInv, Clock!Deliver
  PROVE  ClockInv'
<1> DEFINE o == Head(due).owner
<1>1. /\ due # <<>> /\ ch[o] = 0 /\ ch' = [ch EXCEPT ![o] = clockNow] /\ due' = Tail(due)
      /\ clockNow' = clockNow /\ waiters' = waiters /\ st' = st /\ firing' = firing /\ bed' = bed
  BY DEF Clock!Deliver, Clock!Empty
<1>2. heard' = heard
  BY DEF Clock!Deliver
<1>3. ClockTyped /\ ListsTyped /\ PendingIsListed /\ SleepIsListed /\ WakesOnce /\ FireIsSomewhere
  BY DEF ClockInv
<1>4. /\ due' \in Seq(WaiterSet) /\ Distinct(due')
      /\ Head(due) \in WaiterSet /\ Head(due) \in Elems(due)
      /\ Elems(due') = {w \in Elems(due) : w.owner # o}
  <2>1. due \in Seq(WaiterSet) /\ Distinct(due)
    BY <1>3 DEF ListsTyped
  <2>2. QED
    BY <2>1, <1>1, DueTail
<1>5. o \in Clock!Owners /\ \E w \in Elems(due) : w.owner = o
  BY <1>4 DEF WaiterSet
<1> HIDE DEF o
<1>6. ch \in [Clock!Owners -> 0 .. MaxNow] /\ clockNow \in 1 .. MaxNow /\ MaxNow \in Nat
  BY <1>3, ClockConstants DEF ClockTyped
<1>7. /\ ch' \in [Clock!Owners -> 0 .. MaxNow] /\ ch'[o] # 0
      /\ \A p \in Clock!Owners : p # o => ch'[p] = ch[p]
  BY <1>1, <1>5, <1>6
<1>8. ClockTyped'
  BY <1>1, <1>2, <1>3, <1>7 DEF ClockTyped
<1>9. ListsTyped' /\ PendingIsListed' /\ SleepIsListed'
  BY <1>1, <1>3, <1>4 DEF ListsTyped, PendingIsListed, SleepIsListed
<1>10. WakesOnce'
  <2> SUFFICES ASSUME NEW s \in Sleepers
               PROVE  /\ ~(ch'[s] # 0 /\ \E w \in Elems(due') : w.owner = s)
                      /\ bed[s] # 0 /\ bed[s] <= clockNow <=> ch'[s] # 0 \/ \E w \in Elems(due') : w.owner = s
    BY <1>1 DEF WakesOnce
  <2>1. CASE s = o
    <3>1. bed[s] # 0 /\ bed[s] <= clockNow
      BY <2>1, <1>3, <1>5 DEF WakesOnce
    <3>2. QED
      BY <3>1, <2>1, <1>4, <1>7
  <2>2. CASE s # o
    <3>1. ch'[s] = ch[s]
      BY <2>2, <1>7 DEF Clock!Owners
    <3>2. (\E w \in Elems(due') : w.owner = s) <=> \E w \in Elems(due) : w.owner = s
      BY <2>2, <1>4
    <3>3. QED
      BY <3>1, <3>2, <1>3 DEF WakesOnce
  <2>3. QED
    BY <2>1, <2>2
<1>11. FireIsSomewhere'
  <2> SUFFICES ASSUME NEW t \in Timers, st[t] = "fired", ~heard[t]
               PROVE  ch'[t] # 0 \/ (\E w \in Elems(due') : w.owner = t) \/ firing[t] # 0
    BY <1>1, <1>2 DEF FireIsSomewhere
  <2>1. CASE t = o
    BY <2>1, <1>7
  <2>2. CASE t # o
    <3>1. ch'[t] = ch[t]
      BY <2>2, <1>7 DEF Clock!Owners
    <3>2. (\E w \in Elems(due') : w.owner = t) <=> \E w \in Elems(due) : w.owner = t
      BY <2>2, <1>4
    <3>3. QED
      BY <3>1, <3>2, <1>3 DEF FireIsSomewhere
  <2>3. QED
    BY <2>1, <2>2
<1>12. QED
  BY <1>8, <1>9, <1>10, <1>11 DEF ClockInv

LEMMA ClockInvNext == ClockInv /\ [Clock!Next]_(Clock!vars) => ClockInv'
<1> SUFFICES ASSUME ClockInv, [Clock!Next]_(Clock!vars) PROVE ClockInv'
  OBVIOUS
<1>1. CASE UNCHANGED Clock!vars
  <2>1. /\ clockNow' = clockNow /\ waiters' = waiters /\ st' = st /\ ch' = ch /\ due' = due
        /\ firing' = firing /\ bed' = bed
    BY <1>1 DEF Clock!vars
  <2>2. heard' = heard
    BY <1>1 DEF Clock!vars
  <2>3. ClockTyped' /\ ListsTyped'
    BY <2>1, <2>2 DEF ClockInv, ClockTyped, ListsTyped
  <2>4. PendingIsListed' /\ SleepIsListed' /\ WakesOnce'
    BY <2>1 DEF ClockInv, PendingIsListed, SleepIsListed, WakesOnce
  <2>5. FireIsSomewhere'
    BY <2>1, <2>2 DEF ClockInv, FireIsSomewhere
  <2>6. QED
    BY <2>3, <2>4, <2>5 DEF ClockInv
<1>2. ASSUME NEW t \in Timers, NEW d \in Clock!Delays, Clock!NewTimer(t, d) \/ Clock!Reset(t, d)
      PROVE  ClockInv'
  BY <1>2, NewTimerKeeps, ResetKeeps
<1>3. ASSUME NEW t \in Timers, Clock!Stop(t) \/ Clock!ResetFires(t) \/ Clock!Receive(t)
      PROVE  ClockInv'
  BY <1>3, StopKeeps, ResetFiresKeeps, ReceiveKeeps
<1>4. ASSUME NEW s \in Sleepers, Clock!Wake(s) PROVE ClockInv'
  BY <1>4, WakeKeeps
<1>5. clockNow \in 1 .. MaxNow /\ MaxNow \in Nat /\ MaxDelay \in Nat
  BY ClockConstants DEF ClockInv, ClockTyped
<1>6. ASSUME NEW s \in Sleepers, NEW d \in Clock!Delays, Clock!After(s, d) PROVE ClockInv'
  <2>1. clockNow + d \in 1 .. (MaxNow + MaxDelay)
    BY <1>5 DEF Clock!Delays
  <2>2. QED
    BY <2>1, <1>6, ParkKeeps DEF Clock!After
<1>7. ASSUME NEW s \in Sleepers, NEW at \in Clock!Start .. MaxNow, Clock!Until(s, at) PROVE ClockInv'
  <2>1. at \in 1 .. (MaxNow + MaxDelay)
    BY <1>5 DEF Clock!Start
  <2>2. QED
    BY <2>1, <1>7, ParkKeeps DEF Clock!Until
<1>8. ASSUME NEW d \in 1 .. MaxNow, Clock!Advance(d) PROVE ClockInv'
  BY <1>8, AdvanceKeeps
<1>9. CASE Clock!Deliver
  BY <1>9, ClockDeliverKeeps
<1>10. QED
  BY <1>1, <1>2, <1>3, <1>4, <1>6, <1>7, <1>8, <1>9 DEF Clock!Next

LEMMA ClockInvImplies == ClockInv => WaitersAreServed
<1> SUFFICES ASSUME ClockInv PROVE Clock!WaitersAreServed
  BY DEF WaitersAreServed
<1>1. ClockTyped /\ ListsTyped /\ PendingIsListed /\ SleepIsListed /\ WakesOnce /\ FireIsSomewhere
  BY DEF ClockInv
<1>2. /\ waiters \in Seq(WaiterSet) /\ DOMAIN waiters = 1 .. Len(waiters) /\ Len(waiters) \in Nat
      /\ due \in Seq(WaiterSet) /\ DOMAIN due = 1 .. Len(due)
  BY <1>1 DEF ListsTyped
<1>3. \A o : Clock!OnItsWay(o) <=> \E w \in Elems(due) : w.owner = o
  BY <1>2 DEF Clock!OnItsWay, Elems
<1>4. Clock!TypeOK
  <2>1. \A w \in WaiterSet : Clock!IsWaiter(w)
    BY DEF WaiterSet, Clock!IsWaiter, Clock!Start
  <2>2. \A i \in DOMAIN waiters : Clock!IsWaiter(waiters[i]) /\ waiters[i].at > clockNow
    <3> TAKE i \in DOMAIN waiters
    <3>1. waiters[i] \in WaiterSet /\ waiters[i] \in Elems(waiters)
      BY <1>2 DEF Elems
    <3>2. QED
      BY <3>1, <2>1, <1>1 DEF ListsTyped
  <2>3. \A i \in DOMAIN due : Clock!IsWaiter(due[i])
    BY <1>2, <2>1
  <2>4. QED
    BY <2>2, <2>3, <1>1 DEF ClockTyped, Clock!TypeOK, Clock!Start
<1>5. Clock!OneWaiterPerTimer
  <2> SUFFICES ASSUME NEW t \in Timers
               PROVE  Cardinality({i \in DOMAIN waiters : waiters[i].owner = t}) =
                        IF st[t] = "pending" THEN 1 ELSE 0
    BY ClockCounts DEF Clock!OneWaiterPerTimer
  <2> DEFINE own == {i \in DOMAIN waiters : waiters[i].owner = t}
  <2>1. st[t] = "pending" <=> \E i \in 1 .. Len(waiters) : waiters[i].owner = t
    BY <1>1 DEF PendingIsListed, Elems
  <2>2. CASE st[t] = "pending"
    <3>1. PICK k \in 1 .. Len(waiters) : waiters[k].owner = t
      BY <2>1, <2>2
    <3>2. own = {k}
      BY <3>1, <1>1, <1>2 DEF ListsTyped, Distinct
    <3>3. QED
      BY <3>2, <2>2, FS_Singleton
  <2>3. CASE st[t] # "pending"
    <3>1. own = {}
      BY <2>1, <2>3, <1>2
    <3>2. QED
      BY <3>1, <2>3, FS_EmptySet
  <2>4. QED
    BY <2>2, <2>3
<1>6. Clock!WakesOnTime
  BY <1>1, <1>3 DEF WakesOnce, Clock!WakesOnTime, Clock!Empty
<1>7. Clock!FireIsNotLost
  BY <1>1, <1>3 DEF FireIsSomewhere, Clock!FireIsNotLost, Clock!Empty
<1>8. QED
  BY <1>4, <1>5, <1>6, <1>7 DEF Clock!WaitersAreServed

\* The test clock of internal/clock, for any timers, sleepers, delays and times: a
\* timer has one waiter exactly while it is pending, a sleeper has its wake-up
\* when its time has come and not before, and a fire is never lost, whatever
\* Stop, Reset and Advance do meanwhile.
THEOREM WaitersAreServedAlways == Clock!Spec => []WaitersAreServed
  BY ClockInvInit, ClockInvNext, ClockInvImplies, PTL DEF Clock!Spec

=============================================================================
