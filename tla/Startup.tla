------------------------------- MODULE Startup -------------------------------
(***************************************************************************)
(* An instance of the server from its start to its end: main of            *)
(* cmd/server, db.Connect, and db.Migrate (internal/db/migrations.go) with *)
(* the transaction and the advisory lock that it takes in PostgreSQL.      *)
(*                                                                         *)
(* Several instances may start on one database at once, as when one is     *)
(* replaced: each process that ever starts is an instance of its own, so   *)
(* that a restart is another instance.  An instance knows the scripts of   *)
(* its version; script n is the n-th file of migrations/ by name.  The     *)
(* session of an instance at the database is not the instance: it outlives *)
(* one that is killed or cut off, with its lock, until the server notices. *)
(***************************************************************************)
EXTENDS Naturals

CONSTANTS
    Instances,    \* the processes that are started
    NoInstance,   \* the holder of a lock nobody holds
    Version       \* how many scripts each instance brings along

ASSUME InstanceAssumption == NoInstance \notin Instances
ASSUME VersionAssumption  == Version \in [Instances -> Nat \ {0}]

VARIABLES
    schema,     \* the scripts whose changes are committed
    recorded,   \* the names in schema_migrations, committed
    lock,       \* the advisory lock 'codex-proxy-migrations'
    sessions,   \* the instances with an open transaction at the server
    applied,    \* what each transaction changed of the schema
    noted,      \* what each transaction inserted into schema_migrations
    pc,         \* where each instance is
    at          \* the script that it looks at

database == <<schema, recorded>>
transactions == <<lock, sessions, applied, noted>>
vars == <<database, transactions, pc, at>>

\* The places of an instance that holds the lock.
Migrating == {"check", "apply", "record"}

\* A statement sees what is committed and what its own transaction did.
Seen(i) == recorded \cup noted[i]

\* CREATE, RENAME and ADD COLUMN fail on a schema that has the change or has
\* not the tables of the first script.
Fits(n, scripts) == n \notin scripts /\ (n = 1 \/ 1 \in scripts)

Goto(i, place) == pc' = [pc EXCEPT ![i] = place]

Init ==
    /\ \E i \in Instances : \E k \in 0 .. Version[i] :
          schema = 1 .. k /\ recorded = 1 .. k
    /\ lock = NoInstance
    /\ sessions = {}
    /\ applied = [i \in Instances |-> {}]
    /\ noted = [i \in Instances |-> {}]
    /\ pc = [i \in Instances |-> "off"]
    /\ at = [i \in Instances |-> 1]

-----------------------------------------------------------------------------
\* The transaction of i ends at the server, without what it changed.
Forget(i) ==
    /\ sessions' = sessions \ {i}
    /\ applied' = [applied EXCEPT ![i] = {}]
    /\ noted' = [noted EXCEPT ![i] = {}]

\* The lock is one of the transaction (xact) and goes with it.
Unlock(i) == lock' = IF lock = i THEN NoInstance ELSE lock

Rollback(i) == Forget(i) /\ Unlock(i)

\* main with a configuration that Load refuses, or a database that Connect
\* does not reach.
StartRefused(i) ==
    /\ pc[i] \in {"off", "connect"}
    /\ Goto(i, "exited")
    /\ UNCHANGED <<database, transactions, at>>

Start(i) ==
    /\ pc[i] = "off"
    /\ Goto(i, "connect")
    /\ UNCHANGED <<database, transactions, at>>

\* Connect has reached the database, Migrate begins its transaction and asks
\* for the lock.
Begin(i) ==
    /\ pc[i] = "connect"
    /\ sessions' = sessions \cup {i}
    /\ Goto(i, "lock")
    /\ UNCHANGED <<database, lock, applied, noted, at>>

\* Slip: the lock is not waited for.
LockAtOnce(i) ==
    /\ pc[i] = "lock"
    /\ lock' = i
    /\ Goto(i, "check")
    /\ UNCHANGED <<database, sessions, applied, noted, at>>

\* The lock is granted; the table schema_migrations is made if need be.
Lock(i) ==
    /\ pc[i] = "lock"
    /\ lock = NoInstance
    /\ lock' = i
    /\ Goto(i, "check")
    /\ UNCHANGED <<database, sessions, applied, noted, at>>

\* Slip: the script after one that is recorded is passed over.
SkipTwo(i) ==
    /\ pc[i] = "check"
    /\ at[i] \in Seen(i)
    /\ at' = [at EXCEPT ![i] = @ + 2]
    /\ UNCHANGED <<database, transactions, pc>>

\* SELECT EXISTS finds the script recorded, or not.
Skip(i) ==
    /\ pc[i] = "check"
    /\ at[i] \in 1 .. Version[i] /\ at[i] \in Seen(i)
    /\ at' = [at EXCEPT ![i] = @ + 1]
    /\ UNCHANGED <<database, transactions, pc>>

Check(i) ==
    /\ pc[i] = "check"
    /\ at[i] \in 1 .. Version[i] /\ at[i] \notin Seen(i)
    /\ Goto(i, "apply")
    /\ UNCHANGED <<database, transactions, at>>

Apply(i) ==
    /\ pc[i] = "apply"
    /\ Fits(at[i], schema \cup applied[i])
    /\ applied' = [applied EXCEPT ![i] = @ \cup {at[i]}]
    /\ Goto(i, "record")
    /\ UNCHANGED <<database, lock, sessions, noted, at>>

\* Slip: every script is committed with its record.
RecordAndCommit(i) ==
    /\ pc[i] = "record"
    /\ schema' = schema \cup applied[i]
    /\ recorded' = recorded \cup {at[i]}
    /\ applied' = [applied EXCEPT ![i] = {}]
    /\ at' = [at EXCEPT ![i] = @ + 1]
    /\ Goto(i, "check")
    /\ UNCHANGED <<lock, sessions, noted>>

Record(i) ==
    /\ pc[i] = "record"
    /\ noted' = [noted EXCEPT ![i] = @ \cup {at[i]}]
    /\ at' = [at EXCEPT ![i] = @ + 1]
    /\ Goto(i, "check")
    /\ UNCHANGED <<database, lock, sessions, applied>>

\* All scripts are there: the transaction commits, and Migrate returns; or
\* its answer is lost or late, and main ends with an error.
Commit(i) ==
    /\ pc[i] = "check"
    /\ at[i] > Version[i]
    /\ schema' = schema \cup applied[i]
    /\ recorded' = recorded \cup noted[i]
    /\ Rollback(i)
    /\ Goto(i, "serving") \/ Goto(i, "exited")
    /\ UNCHANGED at

-----------------------------------------------------------------------------
\* Slips: the lock is one of the session, which goes back to the pool; main
\* goes on when Migrate has failed.
FailsWithLock(i) ==
    /\ pc[i] \in Migrating \cup {"lock"}
    /\ Forget(i)
    /\ Goto(i, "exited")
    /\ UNCHANGED <<database, lock, at>>
FailsAndServes(i) ==
    /\ pc[i] \in Migrating \cup {"lock"}
    /\ Rollback(i)
    /\ Goto(i, "serving")
    /\ UNCHANGED <<database, at>>

\* A statement of Migrate fails, or the 30 seconds of the start are over: the
\* deferred Rollback reaches the server, and main ends.
Fails(i) ==
    /\ pc[i] \in Migrating \cup {"lock"}
    /\ Rollback(i)
    /\ Goto(i, "exited")
    /\ UNCHANGED <<database, at>>

\* The process is killed or cut off from the database, or it is told to stop;
\* a transaction that it has open stays open.
End(i) ==
    /\ pc[i] \in Migrating \cup {"connect", "lock", "serving"}
    /\ Goto(i, "exited")
    /\ UNCHANGED <<database, transactions, at>>

\* The server notices that nobody is behind a session.
SessionEnds(i) ==
    /\ pc[i] = "exited"
    /\ i \in sessions
    /\ Rollback(i)
    /\ UNCHANGED <<database, pc, at>>

-----------------------------------------------------------------------------
Migrate(i) == Lock(i) \/ Skip(i) \/ Check(i) \/ Apply(i) \/ Record(i) \/ Commit(i)

Next ==
    \E i \in Instances :
        \/ StartRefused(i) \/ Start(i) \/ Begin(i)
        \/ Migrate(i)
        \/ Fails(i) \/ End(i) \/ SessionEnds(i)

Spec == Init /\ [][Next]_vars

\* The database answers, and notices a dead session by TCP keepalive.  That
\* the 30 seconds end a wait (Fails) is not assumed.
LiveSpec ==
    /\ Spec
    /\ \A i \in Instances : WF_vars(Migrate(i)) /\ WF_vars(SessionEnds(i))

-----------------------------------------------------------------------------
Scripts == UNION {1 .. Version[i] : i \in Instances}

TypeOK ==
    /\ schema \in SUBSET Scripts /\ recorded \in SUBSET Scripts
    /\ lock \in Instances \cup {NoInstance}
    /\ sessions \in SUBSET Instances
    /\ applied \in [Instances -> SUBSET Scripts]
    /\ noted \in [Instances -> SUBSET Scripts]
    /\ pc \in [Instances -> Migrating \cup
                 {"off", "connect", "lock", "serving", "exited"}]
    /\ at \in [Instances -> Nat]
    /\ \A i \in Instances : at[i] \in 1 .. Version[i] + 1

\* A script is about to be applied only when all before it are there and it
\* is not itself, whatever another instance did between the start and now.
ScriptsFit ==
    \A i \in Instances :
        pc[i] = "apply" => /\ 1 .. at[i] - 1 \subseteq schema \cup applied[i]
                           /\ at[i] \notin schema \cup applied[i]

\* What is recorded is what was done, and one step takes the tables from an
\* older version to that of an instance, however transactions end: never to a
\* part of a version, nor to a change without its record.
AllOrNothing ==
    [][/\ schema' = recorded'
       /\ schema' # schema =>
            \E i \in Instances : schema' = 1 .. Version[i]]_vars

\* An instance takes requests only when all its scripts are committed.
ServesMigrated ==
    \A i \in Instances : pc[i] = "serving" => 1 .. Version[i] \subseteq schema

\* The lock does not stay with the dead: whoever waits for it gets it, or
\* has failed, without help of the deadline.
LockIsPassedOn ==
    \A i \in Instances : pc[i] = "lock" ~> pc[i] # "lock"

=============================================================================
