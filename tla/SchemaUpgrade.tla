---------------------------- MODULE SchemaUpgrade ----------------------------
(***************************************************************************)
(* alembic (src/backend/db/env.py) taking the database through the         *)
(* migrations, up to the newest or one down, while rows of the application *)
(* wait in the tables.  A run is one transaction, except that the          *)
(* autocommit block of a migration commits what was done before it, with   *)
(* the version of the migration before; a statement that fails, a lock     *)
(* timeout or a crash rolls back to the last commit.                       *)
(***************************************************************************)
EXTENDS StorageWrites

CONSTANTS MaxRows,       \* bound: rows the application has written
          MaxFailures    \* bound: runs that end early

VARIABLES stored,        \* what is committed: [at |-> version, db |-> database]
          run,           \* the transaction: <<>> or <<[dir, at, db]>>
          written, failures

vars == <<stored, run, written, failures>>

Idle == run = <<>>
Trans == run[1]

Init == /\ stored = [at |-> 0, db |-> Empty]
        /\ run = <<>>
        /\ written = 0 /\ failures = 0

-----------------------------------------------------------------------------
\* alembic upgrade head and alembic downgrade -1.
Begin(dir) ==
  /\ Idle
  /\ IF dir = "up" THEN stored.at < Newest ELSE stored.at > 0
  /\ run' = <<[dir |-> dir, at |-> stored.at, db |-> stored.db]>>
  /\ UNCHANGED <<stored, written, failures>>

Upgraded(at, db) == Run(db, Chain[at + 1].up)

StepUpUnchecked ==
  /\ ~Idle /\ Trans.dir = "up" /\ Trans.at < Newest
  /\ LET up == Upgraded(Trans.at, Trans.db)
     IN  run' = <<[Trans EXCEPT !.at = @ + 1, !.db = up]>>
  /\ UNCHANGED <<stored, written, failures>>
\* One migration up inside the run.
StepUp ==
  /\ ~Idle /\ Trans.dir = "up" /\ Trans.at < Newest
  /\ LET m  == Chain[Trans.at + 1]
         up == Upgraded(Trans.at, Trans.db)
         built == [up EXCEPT !.index = @ \cup {m.block[i] : i \in DOMAIN m.block}]
     IN  /\ up.ok
         /\ stored' = IF m.block = <<>> THEN stored
                      ELSE [at |-> Trans.at, db |-> built]
         /\ run' = <<[Trans EXCEPT !.at = @ + 1, !.db = built]>>
  /\ UNCHANGED <<written, failures>>

Undone(at, db) ==
  LET m == Chain[at]
  IN  Run([db EXCEPT !.index = @ \ {m.block[i] : i \in DOMAIN m.block}], m.down)

\* The one migration of a downgrade; its block commits before the rest of it.
StepDown ==
  /\ ~Idle /\ Trans.dir = "down" /\ Trans.at = stored.at
  /\ LET m == Chain[Trans.at]
         down == Undone(Trans.at, Trans.db)
     IN  /\ down.ok
         /\ stored' = [stored EXCEPT !.db.index =
                         @ \ {m.block[i] : i \in DOMAIN m.block}]
         /\ run' = <<[Trans EXCEPT !.at = @ - 1, !.db = down]>>
  /\ UNCHANGED <<written, failures>>

\* context.begin_transaction() ends: version and schema together.
Commit ==
  /\ ~Idle
  /\ Trans.at = IF Trans.dir = "up" THEN Newest ELSE stored.at - 1
  /\ stored' = [at |-> Trans.at, db |-> Trans.db]
  /\ run' = <<>>
  /\ UNCHANGED <<written, failures>>

\* PostgreSQL refuses a statement of the next migration.
Refused ==
  /\ ~Idle
  /\ \/ Trans.dir = "up" /\ Trans.at < Newest /\ ~Upgraded(Trans.at, Trans.db).ok
     \/ Trans.dir = "down" /\ Trans.at = stored.at /\ ~Undone(Trans.at, Trans.db).ok
  /\ run' = <<>>
  /\ UNCHANGED <<stored, written, failures>>

\* lock_timeout, a lost connection, a crash: at any point of the run.
Aborted ==
  /\ ~Idle /\ failures < MaxFailures
  /\ failures' = failures + 1
  /\ run' = <<>>
  /\ UNCHANGED <<stored, written>>

\* CREATE INDEX CONCURRENTLY breaks off: what came before it is committed, and
\* so is the (invalid) index, which IF NOT EXISTS finds from then on.
IndexBuildFails ==
  /\ ~Idle /\ Trans.dir = "up" /\ failures < MaxFailures /\ Trans.at < Newest
  /\ LET m == Chain[Trans.at + 1]
     IN  /\ m.block # <<>>
         /\ \E left \in {{}, {m.block[1]}} :
              stored' = [at |-> Trans.at,
                         db |-> [Upgraded(Trans.at, Trans.db) EXCEPT !.index = @ \cup left]]
  /\ failures' = failures + 1
  /\ run' = <<>>
  /\ UNCHANGED written

-----------------------------------------------------------------------------
\* Rows the application leaves in the tables while no migration runs.
Put(rows) ==
  /\ Idle /\ written < MaxRows
  /\ stored' = [stored EXCEPT !.db.rows = rows]
  /\ written' = written + 1
  /\ UNCHANGED <<run, failures>>

Rows == stored.db.rows
Has(t) == t \in Tables(stored.db)

PatchThreshold(u) ==
  /\ u \in Known(stored.db) /\ Has("whale_thresholds")
  /\ Put([Rows EXCEPT !["whale_thresholds"] =
            {r \in @ : r.u # u} \cup {[u |-> u, custom |-> TRUE]}])

SavePrice(u) ==
  /\ u \in Known(stored.db) /\ Has("market_snapshots")
  /\ Put([Rows EXCEPT !["market_snapshots"] = @ \cup {[u |-> u]}])

Allows(c) == c \in DOMAIN stored.db.cols[GA] /\ stored.db.cols[GA][c] = "opt"

\* The aggregate and its strikes, in one transaction.
SaveAggregate(u, view, nulls) ==
  /\ u \in Known(stored.db) /\ Has(GA)
  /\ view = "structural" \/ "view" \in DOMAIN stored.db.cols[GA]
  /\ \A c \in nulls : Allows(c)
  /\ Put([Rows EXCEPT
            ![GA] = {r \in @ : <<r.u, r.view>> # <<u, view>>}
                      \cup {[u |-> u, view |-> view, nulls |-> nulls]},
            ![GI] = IF Has(GI) THEN @ \cup {[u |-> u, view |-> view]} ELSE @])

Application ==
  \E u \in Symbols :
    \/ PatchThreshold(u) \/ SavePrice(u)
    \/ \E view \in {"structural", "tactical"},
          nulls \in {{}, {"gamma_flip", "call_wall"}} : SaveAggregate(u, view, nulls)

RunStep == StepUp \/ StepDown \/ Commit \/ Refused
Next == \/ \E dir \in {"up", "down"} : Begin(dir)
        \/ RunStep \/ Aborted \/ IndexBuildFails \/ Application

Spec == Init /\ [][Next]_vars

-----------------------------------------------------------------------------
TypeOK ==
  /\ stored.at \in 0..Newest /\ stored.db.ok
  /\ run = <<>> \/ (Trans.at \in 0..Newest /\ Trans.db.ok)
  /\ written \in 0..MaxRows /\ failures \in 0..MaxFailures

\* The schema each revision has when the chain is run on an empty database.
Bare(db) == [db EXCEPT !.rows = Empty.rows]
SchemaAt ==
  FoldLeft(LAMBDA dbs, m : Append(dbs, Bare(Run(dbs[Len(dbs)],
      m.up \o [i \in DOMAIN m.block |-> BuildIndex(m.block[i])]))),
    <<Empty>>, Chain)
SchemaOf(at) == SchemaAt[at + 1]

\* What an index block that broke off may leave behind, at any older revision.
Stripped(db) ==
  LET rest == [db EXCEPT !.index = {}]
  IN  IF OCS \in Tables(db) /\ "underlying_id" \in DOMAIN db.cols[OCS]
      THEN Apply(rest, Drop(OCS, "underlying_id")) ELSE rest

\* Upgrades and downgrades in any order leave the schema of the recorded
\* revision: every downgrade undoes its upgrade.  A run broken off anywhere
\* leaves at most the column and the index of an autocommit block (0036, 0037),
\* which the next upgrade finds and keeps.
SchemaMatchesRevision ==
  Idle =>
  LET here == Bare(stored.db)
  IN  IF failures = 0
      THEN here = SchemaOf(stored.at)
      ELSE Stripped(here) = Stripped(SchemaOf(stored.at))

\* Whatever the schema went through, at the newest revision every INSERT of the
\* storage adapters finds its columns and the key its ON CONFLICT names.
WritesFitNewest ==
  Idle /\ stored.at = Newest => \A w \in Writes : WriteFits(stored.db, w)

\* The seeds of later revisions leave a customised threshold alone ("re-asserting
\* defaults across every symbol here would silently clobber any real
\* customization", 0018 and 0019); only RemoveNq and downgrades delete rows.
Customised(db) == {r.u : r \in {q \in db.rows["whale_thresholds"] : q.custom}}
UpgradesKeepThresholds ==
  [][stored'.at > stored.at =>
       Customised(stored.db) \ {"NQ"} \subseteq Customised(stored'.db)]_vars

\* Rows of NQ that point at it are the only ones that can stop an upgrade (0035
\* deletes the symbol, its thresholds, aggregates and anchors, but not its prices,
\* bars or alerts; the prices stand for these here): whatever was interrupted,
\* undone or stored before, PostgreSQL refuses no other statement on the way up.
NqHasPrices(db) == [u |-> "NQ"] \in db.rows["market_snapshots"]
UpgradeGoesThrough ==
  ~Idle /\ Trans.dir = "up" /\ Trans.at < Newest /\ ~NqHasPrices(Trans.db) =>
    Upgraded(Trans.at, Trans.db).ok

\* The statements of a downgrade are in an order PostgreSQL accepts: it is only
\* ever refused because of rows the application has stored.
DowngradeOrdered ==
  Idle /\ stored.at > 0 /\ written = 0 => Undone(stored.at, stored.db).ok

\* The schema is the one of the recorded revision, whatever was run before.
SchemaHolds == TypeOK /\ SchemaMatchesRevision

\* PostgreSQL refuses a statement of the chain because of stored rows only.
StatementsGoThrough == UpgradeGoesThrough /\ DowngradeOrdered
=============================================================================
