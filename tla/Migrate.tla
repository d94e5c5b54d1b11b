-------------------------------- MODULE Migrate --------------------------------
(***************************************************************************)
(* The schema of a database: processes that migrate it and servers that    *)
(* only check it (packages/postgres: migrate.ts; packages/http-api:        *)
(* server.ts).  Every process has the migrations of its own build: a list  *)
(* of checksums, the i-th of version i.  The lock is a session-level        *)
(* advisory lock, which its own session may take again.                     *)
(***************************************************************************)
EXTENDS Naturals, Sequences

CONSTANTS
  Migrators,    \* processes calling migrate
  Servers,      \* processes calling startServer
  Code,         \* Code[p]: the checksums of p's MIGRATIONS
  Calls         \* bound: Calls[p] calls of migrate by p

ASSUME Callers ==
  Migrators # {} /\ Calls \in [Migrators -> Nat] /\ Code \in [Migrators \cup Servers -> Seq(STRING)]

VARIABLES
  ledger,   \* qe_schema_migrations: [made, sums], the checksums in version order
  holds,    \* holds[p]: how often p's session took the lock
  conn,     \* conn[p]: p's pooled connection: "none", "idle" or "used"
  mig,      \* mig[p]: the call of migrate in progress
  server    \* server[s]: "down", "serving" or "refused"

migrateVars == <<ledger, holds, conn, mig, server>>

Ended(p) == [mig EXCEPT ![p] = [pc |-> "idle", recorded |-> <<>>, at |-> 0, left |-> mig[p].left, failed |-> "no"]]

\* pool.connect: the idle connection, or a new session.
Connect(p) ==
  /\ mig[p].pc = "idle" /\ mig[p].left > 0
  /\ conn' = [conn EXCEPT ![p] = "used"]
  /\ mig' = [mig EXCEPT ![p].pc = "locking", ![p].left = @ - 1]
  /\ UNCHANGED <<ledger, holds, server>>

\* Slip: the lock is not waited for.
LockFreeAlways(p) == TRUE

LockFree(p) == \A q \in Migrators \ {p} : holds[q] = 0

Lock(p) ==
  /\ mig[p].pc = "locking" /\ LockFree(p)
  /\ holds' = [holds EXCEPT ![p] = @ + 1]
  /\ mig' = [mig EXCEPT ![p].pc = "reading"]
  /\ UNCHANGED <<ledger, conn, server>>

\* The statement that waits for the lock fails: nothing is held, nothing to unlock.
LockFails(p) ==
  /\ mig[p].pc = "locking"
  /\ conn' = [conn EXCEPT ![p] = "idle"]
  /\ mig' = Ended(p)
  /\ UNCHANGED <<ledger, holds, server>>

\* CREATE TABLE IF NOT EXISTS, then what is recorded.
ReadLedger(p) ==
  /\ mig[p].pc = "reading"
  /\ ledger' = [ledger EXCEPT !.made = TRUE]
  /\ mig' = [mig EXCEPT ![p].pc = "applying", ![p].recorded = ledger.sums, ![p].at = 1]
  /\ UNCHANGED <<holds, conn, server>>

Matches(p, i) == mig[p].recorded[i] = Code[p][i]

\* A recorded migration is compared, never run again.
Skip(p) ==
  /\ mig[p].pc = "applying" /\ mig[p].at <= Len(Code[p]) /\ mig[p].at <= Len(mig[p].recorded)
  /\ mig' = IF Matches(p, mig[p].at) THEN [mig EXCEPT ![p].at = @ + 1]
            ELSE [mig EXCEPT ![p].pc = "unlocking", ![p].failed = "checksum"]
  /\ UNCHANGED <<ledger, holds, conn, server>>

\* One transaction: the SQL and its record.  The primary key refuses a version
\* that is recorded already; any statement may fail.
Apply(p) ==
  /\ mig[p].pc = "applying" /\ mig[p].at <= Len(Code[p]) /\ mig[p].at > Len(mig[p].recorded)
  /\ \E failed \in {Len(ledger.sums) >= mig[p].at, TRUE} :
       /\ ledger' = IF failed THEN ledger ELSE [ledger EXCEPT !.sums = Append(@, Code[p][mig[p].at])]
       /\ mig' = IF failed THEN [mig EXCEPT ![p].pc = "unlocking",
                                            ![p].failed = IF Len(ledger.sums) >= mig[p].at THEN "collided" ELSE "statement"]
                 ELSE [mig EXCEPT ![p].at = @ + 1]
  /\ UNCHANGED <<holds, conn, server>>

Applied(p) ==
  /\ mig[p].pc = "applying" /\ mig[p].at > Len(Code[p])
  /\ mig' = [mig EXCEPT ![p].pc = "unlocking"]
  /\ UNCHANGED <<ledger, holds, conn, server>>

\* Slip: the connection goes back to the pool whatever the unlock said.
ReleaseAnyway(p, unlocked) ==
  /\ conn' = [conn EXCEPT ![p] = "idle"]
  /\ holds' = [holds EXCEPT ![p] = IF unlocked THEN @ - 1 ELSE @]

\* client.release(broken): a connection that may hold the lock is closed, and
\* its session ends.
Release(p, unlocked) ==
  /\ conn' = [conn EXCEPT ![p] = IF unlocked THEN "idle" ELSE "none"]
  /\ holds' = [holds EXCEPT ![p] = IF unlocked THEN @ - 1 ELSE 0]

\* The unlock answers, or fails and leaves the lock with the session.
Unlock(p) ==
  /\ mig[p].pc = "unlocking"
  /\ \E unlocked \in BOOLEAN : (unlocked => holds[p] > 0) /\ Release(p, unlocked)
  /\ mig' = Ended(p)
  /\ UNCHANGED <<ledger, server>>

\* The server loses the session of a call: its transaction and its lock are gone.
LoseSession(p) ==
  /\ mig[p].pc \in {"reading", "applying"}
  /\ holds' = [holds EXCEPT ![p] = 0]
  /\ mig' = [mig EXCEPT ![p].pc = "unlocking", ![p].failed = "lost"]
  /\ UNCHANGED <<ledger, conn, server>>

--------------------------------------------------------------------------------

\* schemaStatus: nothing missing, changed or unknown.
SchemaCurrent(s) == ledger.made /\ ledger.sums = Code[s]

StartServer(s) ==
  /\ server[s] = "down"
  /\ server' = [server EXCEPT ![s] = IF SchemaCurrent(s) THEN "serving" ELSE "refused"]
  /\ UNCHANGED <<ledger, holds, conn, mig>>

StopServer(s) ==
  /\ server[s] \in {"serving", "refused"}
  /\ server' = [server EXCEPT ![s] = "down"]
  /\ UNCHANGED <<ledger, holds, conn, mig>>

MigrateInit ==
  /\ ledger = [made |-> FALSE, sums |-> <<>>]
  /\ holds = [p \in Migrators |-> 0] /\ conn = [p \in Migrators |-> "none"]
  /\ mig = [p \in Migrators |-> [pc |-> "idle", recorded |-> <<>>, at |-> 0, left |-> Calls[p], failed |-> "no"]]
  /\ server = [s \in Servers |-> "down"]

MigrateStep(p) ==
  Connect(p) \/ Lock(p) \/ ReadLedger(p) \/ Skip(p) \/ Apply(p) \/ Applied(p) \/ Unlock(p)

MigrateNext ==
  \/ \E p \in Migrators : MigrateStep(p) \/ LockFails(p) \/ LoseSession(p)
  \/ \E s \in Servers : StartServer(s) \/ StopServer(s)

MigrateSpec == MigrateInit /\ [][MigrateNext]_migrateVars

--------------------------------------------------------------------------------
(* Properties *)

\* The ledger is the beginning of one build's list: versions are applied in
\* order without a gap, and two builds that disagree about a version never both
\* contribute (migrate: the checksums are compared before anything is applied).
OneHistory ==
  \E p \in Migrators : /\ Len(ledger.sums) <= Len(Code[p])
                       /\ ledger.sums = SubSeq(Code[p], 1, Len(ledger.sums))

\* No migration is attempted that another process has applied in the meantime:
\* under the lock the record that was read stays true until it is acted on.
NeverCollides == \A p \in Migrators : mig[p].failed # "collided"

\* A server that serves has every migration of its build applied, with its own
\* checksums, however long ago it looked; a newer build may only have added.
ServesItsSchema ==
  \A s \in Servers : server[s] = "serving" =>
    /\ Len(ledger.sums) >= Len(Code[s])
    /\ SubSeq(ledger.sums, 1, Len(Code[s])) = Code[s]

\* Every call of migrate ends: no lock is left behind in a pooled connection,
\* where nobody would ever release it.
EveryMigrateEnds == \A p \in Migrators : mig[p].pc # "idle" ~> mig[p].pc = "idle"

\* The schema is sound: one build's history, applied once each, and every server
\* on a schema of its own.
SchemaIsSound == NeverCollides /\ OneHistory /\ ServesItsSchema
===============================================================================
