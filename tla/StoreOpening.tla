---------------------------- MODULE StoreOpening ----------------------------
(***************************************************************************)
(* Opening a durable store: the ownership lock, the chain of schema        *)
(* migrations, the ratification key and the startup validators, from the   *)
(* configuration an operator gives to a serving process and back to a      *)
(* closed store.  A SQLite file is opened by one process at a time and     *)
(* migrated by one transaction per version; a PostgreSQL schema is opened  *)
(* by several replicas and migrated by one transaction.  A process may     *)
(* stop between any two steps, and the next one may be configured          *)
(* differently.                                                            *)
(*                                                                         *)
(* The contents of the store are abstracted to what opening looks at:      *)
(*   version  user_version, or the last row of schema_migrations;          *)
(*   tenant   the identity its rows are bound to (from version 5 on);      *)
(*   rows     the tenants its rows carry;                                  *)
(*   key      the key that ratification_key_check was made with;           *)
(*   anchor   the key that seals the ratification ledger anchor;           *)
(*   pending  ratification_migration_pending (PostgreSQL);                 *)
(*   notice   some event carries the text of a ratification request;       *)
(*   flaw     which family of validators refuses a row of this store.      *)
(***************************************************************************)
EXTENDS Naturals, FiniteSets

CONSTANTS
  Processes,    \* processes that open the store
  Tenants,      \* tenants a legacy store can be bound to
  Development,  \* the tenant of a store created without a binding
  Keys,         \* ratification keys
  None,
  Starts,       \* the stores found at first: [backend, db]
  MaxCrashes    \* bound on the crashes of one behaviour

ASSUME OpeningAssumption ==
  /\ Development \in Tenants
  /\ None \notin Tenants \cup Keys \cup Processes
  /\ MaxCrashes \in Nat

VARIABLES backend, db, owner, proc, crashes
storeVars == <<backend, db, owner, proc, crashes>>

Legacy == "legacy"   \* the sentinel scope of rows written before version 5
Flaws == {"none", "task", "history", "dispatch", "snapshot", "audit", "usage", "quota",
          "artifact", "callback", "keyring", "inline", "login"}
DB == [version : 0 .. 13, tenant : Tenants \cup {None}, rows : SUBSET (Tenants \cup {Legacy}),
       key : Keys \cup {None}, anchor : Keys \cup {None}, pending : BOOLEAN,
       notice : BOOLEAN, flaw : Flaws]
Down == [pc |-> "down", conn |-> FALSE, binding |-> None, fresh |-> FALSE,
         key |-> None, tenant |-> None, seen |-> None]
StoreTypeOK ==
  /\ db \in DB
  /\ owner \in Processes \cup {None}
  /\ \A p \in Processes : proc[p].pc \in
       {"down", "opening", "migrating", "keying", "installing", "validating", "serving", "closing"}

StoreInit ==
  /\ \E s \in Starts : backend = s.backend /\ db = s.db
  /\ owner = None
  /\ proc = [p \in Processes |-> Down]
  /\ crashes = 0

Sqlite == backend = "sqlite"
Postgres == backend = "postgres"
Go(p, pc) == proc' = [proc EXCEPT ![p].pc = pc]

-----------------------------------------------------------------------------
(* Ownership of a SQLite file *)

\* prepare_secure_path and acquire_ownership_lock: a call that finds the file
\* locked answers AlreadyOpen and changes nothing.
AcquireOwnership(p) ==
  /\ Sqlite /\ proc[p].pc = "down" /\ owner = None
  /\ owner' = p
  /\ \E b \in Tenants \cup {None}, f \in BOOLEAN, k \in Keys \cup {None} :
       /\ f => b = None
       /\ proc' = [proc EXCEPT ![p] =
            [Down EXCEPT !.pc = "opening", !.binding = b, !.fresh = f, !.key = k]]
  /\ UNCHANGED <<backend, db, crashes>>

\* open_database opens the connection and selects the tenant binding: a store
\* older than version 5 has to be given one, and is refused where only a new
\* development store may be opened.
SelectBinding(p) ==
  /\ Sqlite /\ proc[p].pc = "opening"
  /\ db.version \in 1 .. 4 => ~proc[p].fresh /\ proc[p].binding # None
  /\ proc' = [proc EXCEPT ![p].pc = "migrating", ![p].conn = TRUE,
       ![p].tenant = IF proc[p].binding = None THEN Development ELSE proc[p].binding]
  /\ UNCHANGED <<backend, db, owner, crashes>>

\* Any error of open_database, of a validator or of the database: the
\* connection is dropped with the blocking call, the lock when open_inner
\* returns.
RefuseOpen(p) ==
  /\ proc[p].pc \in {"opening", "migrating", "keying", "installing", "validating"}
  /\ proc' = [proc EXCEPT ![p].pc = "closing", ![p].conn = FALSE]
  /\ UNCHANGED <<backend, db, owner, crashes>>

\* shutdown_shared and close_shared_sync: the connection is dropped once no
\* operation holds the admission permit.  (A shutdown that times out changes
\* nothing.)
ShutdownShared(p) ==
  /\ proc[p].pc = "serving"
  /\ proc' = [proc EXCEPT ![p].pc = "closing", ![p].conn = FALSE]
  /\ UNCHANGED <<backend, db, owner, crashes>>

\* The ownership lock is dropped after the connection.
ReleaseOwnership(p) ==
  /\ proc[p].pc = "closing"
  /\ owner' = IF owner = p THEN None ELSE owner
  /\ proc' = [proc EXCEPT ![p] = Down]
  /\ UNCHANGED <<backend, db, crashes>>

\* The operating system closes the files; an open transaction is rolled back.
Crash(p) ==
  /\ crashes < MaxCrashes
  /\ proc[p].pc # "down"
  /\ crashes' = crashes + 1
  /\ owner' = IF owner = p THEN None ELSE owner
  /\ proc' = [proc EXCEPT ![p] = Down]
  /\ UNCHANGED <<backend, db>>

-----------------------------------------------------------------------------
(* Startup validators *)

\* validate_persisted_records.
PersistedValid == db.flaw # "task"
\* validate_snapshot_chains.
SnapshotValid == db.flaw # "snapshot"
\* validate_atomic_records and the receiver, stream, cancellation and tenant
\* validators that follow it.
DispatchValid == db.flaw # "dispatch"
\* validate_authorization_accounting, part of every schema check from 9 on.
AccountingValid == db.flaw # "audit"
\* validate_callback_records and validate_callback_semantics.
CallbackValid == db.flaw # "callback"
\* The materialized usage of a tenant, its accounts and its principals.
UsageValid == db.flaw # "usage"
\* validate_runtime_login: the roles of the runtime user, before and after the
\* migration.
LoginValid == db.flaw # "login"
\* Every key generation that stored artifacts need is in the keyring, and no
\* artifact is still inline unless a completed plan says so.
KeyringValid == db.flaw # "keyring"
InlineMigrated == db.flaw # "inline"
\* validate_semantics of each tenant: artifacts, quota evidence, tasks, the
\* chain of task events, and the frozen lists.
ArtifactValid == db.flaw # "artifact"
QuotaValid == db.flaw # "quota"
TasksValid == db.flaw # "task"
HistoryValid == db.flaw # "history"
ListsValid == db.flaw # "snapshot"

-----------------------------------------------------------------------------
(* SQLite: one transaction per version *)

Migrate(p, from, valid, new) ==
  /\ Sqlite /\ proc[p].pc = "migrating"
  /\ db.version = from
  /\ valid
  /\ db' = new
  /\ UNCHANGED <<backend, owner, proc, crashes>>
To(v) == [db EXCEPT !.version = v]

InitializeSchema(p) ==
  Migrate(p, 0, TRUE, [To(12) EXCEPT !.tenant = proc[p].tenant])
MigrateV1toV2(p) == Migrate(p, 1, PersistedValid /\ DispatchValid, To(2))
MigrateV2toV3(p) == Migrate(p, 2, PersistedValid /\ DispatchValid, To(3))
\* Only the owner of each dispatch row is looked up again; the dispatch records
\* themselves are not validated.
RebuildOutbox == PersistedValid
MigrateV3toV4(p) == Migrate(p, 3, RebuildOutbox, To(4))
\* Every row is bound to the tenant of the configuration, and every validator
\* runs before the commit.
BindAll(t) == [To(5) EXCEPT !.tenant = t, !.rows = {t : r \in db.rows}]
MigrateV4toV5(p) ==
  Migrate(p, 4, PersistedValid /\ DispatchValid, BindAll(proc[p].tenant))
MigrateV5toV6(p) == Migrate(p, 5, TRUE, To(6))
MigrateV6toV7(p) == Migrate(p, 6, TRUE, To(7))
MigrateV7toV8(p) == Migrate(p, 7, TRUE, To(8))
\* The accounting row is computed from the decisions that are there.
MigrateV8toV9(p) == Migrate(p, 8, TRUE, To(9))
MigrateV9toV10(p) == Migrate(p, 9, AccountingValid, To(10))
\* A version 10 store may already hold a key check; with a key supplied the
\* check and the anchor are written by the transaction that adds the anchor.
MigrateV10toV11(p) ==
  /\ db.key # None => proc[p].key = db.key
  /\ Migrate(p, 10, AccountingValid,
       [To(11) EXCEPT !.key = proc[p].key, !.anchor = proc[p].key])
MigrateV11toV12(p) == Migrate(p, 11, AccountingValid, To(12))
\* validate_schema at the current version ends the chain.
MigrationDone(p) ==
  /\ Sqlite /\ proc[p].pc = "migrating" /\ db.version = 12
  /\ AccountingValid
  /\ Go(p, "keying")
  /\ UNCHANGED <<backend, db, owner, crashes>>

SqliteKeyKept(p) == db.key = proc[p].key /\ db.anchor = proc[p].key
\* reconcile_ratification_key: without a key nothing may be stored; a stored
\* key must be the supplied one; a key is installed only in a store that shows
\* no trace of ratification.
SqliteReconcileKey(p) ==
  /\ Sqlite /\ proc[p].pc = "keying"
  /\ \/ SqliteKeyKept(p) /\ UNCHANGED db
     \/ /\ proc[p].key # None /\ db.key = None /\ db.anchor = None /\ ~db.notice
        /\ db' = [db EXCEPT !.key = proc[p].key, !.anchor = proc[p].key]
  /\ Go(p, "validating")
  /\ UNCHANGED <<backend, owner, crashes>>

\* The identity a store is served under is read back from store_identity.
ServeAs(p) == db.tenant

\* The validators of the current version, then recover_orphaned_tasks and the
\* callback policy (modelled in DurableAuthority and CallbackAuthority).
ValidateSqlite(p) ==
  /\ Sqlite /\ proc[p].pc = "validating"
  /\ SnapshotValid /\ PersistedValid /\ DispatchValid /\ CallbackValid
  /\ proc' = [proc EXCEPT ![p].pc = "serving", ![p].tenant = ServeAs(p)]
  /\ UNCHANGED <<backend, db, owner, crashes>>

\* An operation of a serving process writes rows of its tenant, and may write
\* an event with the text of a ratification request.
Operate(p) ==
  /\ proc[p].pc = "serving" /\ proc[p].conn
  /\ \E n \in {db.notice, TRUE} :
       db' = [db EXCEPT !.notice = n,
                !.rows = IF Sqlite THEN @ \cup {proc[p].tenant} ELSE @]
  /\ UNCHANGED <<backend, owner, proc, crashes>>

-----------------------------------------------------------------------------
(* PostgreSQL: one migration transaction, several replicas *)

\* open: the login of the migrator and its validation.
ConnectReplica(p) ==
  /\ Postgres /\ proc[p].pc = "down"
  /\ \E k \in Keys \cup {None} :
       proc' = [proc EXCEPT ![p] = [Down EXCEPT !.pc = "migrating", !.conn = TRUE, !.key = k]]
  /\ UNCHANGED <<backend, db, owner, crashes>>

\* A revision of the schema is applied when its row is missing.
Apply(d, n) == IF d.version < n THEN [d EXCEPT !.version = n] ELSE d
AuthorityRevision(d) == Apply(d, 1)
QuotaRevision(d) == Apply(AuthorityRevision(d), 2)
ReceiverFenceRevision(d) == Apply(QuotaRevision(d), 3)
DistributedQuotaRevision(d) == Apply(ReceiverFenceRevision(d), 4)
ArtifactRevision(d) == Apply(DistributedQuotaRevision(d), 5)
AuditRevision(d) == Apply(ArtifactRevision(d), 6)
CallbackRevision(d) == Apply(AuditRevision(d), 7)
\* reconcile_callback_retained_usage: usage rows are rewritten from what is
\* stored.
Recount(d) == IF d.flaw = "usage" THEN [d EXCEPT !.flaw = "none"] ELSE d
CallbackFenceRevision(d) ==
  LET e == CallbackRevision(d) IN IF e.version < 8 THEN Apply(Recount(e), 8) ELSE e
RetentionRevision(d) ==
  LET e == CallbackFenceRevision(d) IN IF e.version < 9 THEN Apply(Recount(e), 9) ELSE e
RatificationRevision(d) == Apply(RetentionRevision(d), 10)
\* Revision 11 records that a keyed authority still has to make its anchor.
AnchorRevision(d) ==
  LET e == RatificationRevision(d) IN
  IF e.version < 11 THEN [Apply(e, 11) EXCEPT !.pending = (d.key # None)] ELSE e
RuntimeRevision(d) == Apply(AnchorRevision(d), 12)
EvidenceRevision(d) == Apply(RuntimeRevision(d), 13)
\* migrate: every missing revision in one transaction under an advisory lock.
\* The answer of the commit may be lost, and it is never retried.
MigratePostgres(p) ==
  /\ Postgres /\ proc[p].pc = "migrating"
  /\ LoginValid
  /\ db' = EvidenceRevision(db)
  /\ \/ Go(p, "keying")
     \/ proc' = [proc EXCEPT ![p].pc = "closing", ![p].conn = FALSE]
  /\ UNCHANGED <<backend, owner, crashes>>

\* validate_catalog, with validate_callback_semantics at its end.
CatalogValid == db.version = 13 /\ CallbackValid
\* The key transaction takes its REPEATABLE READ snapshot.
ReadKey(p) ==
  /\ Postgres /\ proc[p].pc = "keying"
  /\ CatalogValid
  /\ proc' = [proc EXCEPT ![p].pc = "installing",
       ![p].seen = [key |-> db.key, anchor |-> db.anchor]]
  /\ UNCHANGED <<backend, db, owner, crashes>>

\* reconcile_postgres_ratification_anchor: an anchor is made once, by the
\* transaction that inserts the key or by the first keyed start after revision
\* 11.  One that another replica made after the snapshot fails the row lock.
Anchor(k, seen, installs) ==
  /\ db.anchor = seen.anchor
  /\ \/ /\ seen.anchor = None /\ (installs \/ db.pending)
        /\ db' = [db EXCEPT !.key = k, !.anchor = k, !.pending = FALSE]
     \/ seen.anchor = k /\ ~db.pending /\ UNCHANGED db
\* A key check inserted by another replica after the snapshot fails the insert.
KeyInsertedAnyway(k, seen) == seen.key = None /\ db' = [db EXCEPT !.key = k, !.anchor = k]
KeyInserted(k, seen) == seen.key = None /\ db.key = None /\ Anchor(k, seen, TRUE)
\* reconcile_ratification_key and the commit of its transaction.
InstallKey(p) ==
  /\ Postgres /\ proc[p].pc = "installing"
  /\ LET k == proc[p].key
         seen == proc[p].seen IN
     \/ k = None /\ seen.key = None /\ UNCHANGED db
     \/ k # None /\ KeyInserted(k, seen)
     \/ k # None /\ seen.key = k /\ Anchor(k, seen, FALSE)
  /\ Go(p, "validating")
  /\ UNCHANGED <<backend, owner, crashes>>

\* The artifact checks of the migrator, then the tenant-scoped
\* validation of a pooled connection.  (It reads the events and the tasks of a
\* tenant in two statements: a change by a serving replica between them is
\* taken for a flaw, which is a RefuseOpen.)
ValidatePostgres(p) ==
  /\ Postgres /\ proc[p].pc = "validating"
  /\ KeyringValid /\ InlineMigrated
  /\ UsageValid /\ ArtifactValid /\ QuotaValid /\ TasksValid /\ HistoryValid
  /\ DispatchValid /\ ListsValid
  /\ Go(p, "serving")
  /\ UNCHANGED <<backend, db, owner, crashes>>

-----------------------------------------------------------------------------
SqliteStep(p) ==
  \/ AcquireOwnership(p) \/ SelectBinding(p) \/ InitializeSchema(p)
  \/ MigrateV1toV2(p) \/ MigrateV2toV3(p) \/ MigrateV3toV4(p) \/ MigrateV4toV5(p)
  \/ MigrateV5toV6(p) \/ MigrateV6toV7(p) \/ MigrateV7toV8(p) \/ MigrateV8toV9(p)
  \/ MigrateV9toV10(p) \/ MigrateV10toV11(p) \/ MigrateV11toV12(p) \/ MigrationDone(p)
  \/ SqliteReconcileKey(p) \/ ValidateSqlite(p)
PostgresStep(p) ==
  \/ ConnectReplica(p) \/ MigratePostgres(p) \/ ReadKey(p) \/ InstallKey(p)
  \/ ValidatePostgres(p)
StoreNext ==
  \E p \in Processes :
    \/ SqliteStep(p) \/ PostgresStep(p) \/ Operate(p)
    \/ RefuseOpen(p) \/ ShutdownShared(p) \/ ReleaseOwnership(p) \/ Crash(p)
StoreSpec == StoreInit /\ [][StoreNext]_storeVars

-----------------------------------------------------------------------------
\* Two connections to one SQLite file never exist at a time: whoever holds one
\* also holds the ownership lock, from before the connection is opened until
\* after it is closed, whichever way opening, shutdown or a crash ends
\* (open_inner, shutdown_shared).
OneWriter ==
  Sqlite => \A p \in Processes : proc[p].conn => owner = p

\* A store belongs to one tenant for ever: a crash inside the migration chain
\* and a restart with another binding neither rebind its rows nor serve them to
\* the tenant of the new configuration (migrate_v4_to_v5, open_database).
OneTenant ==
  Sqlite /\ db.version >= 5 =>
    /\ db.rows \subseteq {db.tenant}
    /\ \A p \in Processes : proc[p].pc = "serving" => proc[p].tenant = db.tenant

\* Processes that serve with a ratification key have the same one: the key that
\* the stored check and the ledger anchor were made with, whichever of several
\* starting replicas installed it (reconcile_ratification_key).
KeysAgree ==
  \A p \in Processes :
    proc[p].pc = "serving" /\ proc[p].key # None =>
      db.key = proc[p].key /\ db.anchor = proc[p].key

\* No store is served while one of its validators would refuse it, whichever
\* versions it was migrated through and wherever earlier starts stopped; a usage
\* row is served only once a revision has rewritten it (open_database, open).
ServedIsValid ==
  \A p \in Processes : proc[p].pc = "serving" => db.flaw = "none"

\* What a process serves is a valid store of its own tenant, with its own key,
\* and on SQLite it serves it alone.
ServedStoreSound == OneWriter /\ OneTenant /\ KeysAgree /\ ServedIsValid
=============================================================================
