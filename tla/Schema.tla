------------------------------- MODULE Schema -------------------------------
(***************************************************************************)
(* What one statement of a migration does to the database: the schema      *)
(* (columns, keys, foreign keys, the CHECK on underlyings.kind, the two    *)
(* concurrently built indexes) and the few tables whose rows decide        *)
(* whether a statement succeeds.  A column is "req" (NOT NULL without a    *)
(* default), "def" (filled by the database) or "opt" (nullable).  Plain    *)
(* indexes, types and hypertables are left out.                            *)
(***************************************************************************)
EXTENDS FiniteSets, Sequences, SequencesExt

CONSTANTS Symbols,          \* symbols that may be stored
          KindOf,           \* kind of each symbol: "equity", "index", "future"
          Active            \* ACTIVE_UNDERLYINGS, imported live by the seeds

Rowed == {"underlyings", "whale_thresholds", "gamma_aggregates",
          "gamma_aggregate_items", "market_snapshots"}

Empty == [cols |-> <<>>, keys |-> {}, refs |-> {}, kinds |-> {}, index |-> {},
          rows |-> [t \in Rowed |-> {}], ok |-> TRUE]

Tables(db) == DOMAIN db.cols
Fail(db)   == [db EXCEPT !.ok = FALSE]

(***************************************************************************)
(* The statements, as records; s.op selects what Apply does.               *)
(***************************************************************************)
Columns(req, def, opt) ==
  [c \in req \cup def \cup opt |->
     IF c \in req THEN "req" ELSE IF c \in def THEN "def" ELSE "opt"]
Key(t, cs)          == [table |-> t, cols |-> cs]
Ref(t, cs, to, tcs) == [from |-> t, cols |-> cs, to |-> to, key |-> tcs]
ToUnderlying(t)     == Ref(t, {"underlying_id"}, "underlyings", {"id"})

Create(t, cols, keys, refs) ==
  [op |-> "create", table |-> t, cols |-> cols, keys |-> keys, refs |-> refs]
CreateNew(t, cols, keys, refs) ==
  [op |-> "create new", table |-> t, cols |-> cols, keys |-> keys, refs |-> refs]
DropTable(t)       == [op |-> "drop table", table |-> t]
Add(t, c, kind)    == [op |-> "add", table |-> t, col |-> c, kind |-> kind]
AddMissing(t, c, kind) ==
  [op |-> "add missing", table |-> t, col |-> c, kind |-> kind]
Drop(t, c)         == [op |-> "drop", table |-> t, col |-> c]
NotNull(t, c)      == [op |-> "not null", table |-> t, col |-> c]
Nullable(t, c)     == [op |-> "nullable", table |-> t, col |-> c]
FillNulls(t, c)    == [op |-> "fill", table |-> t, col |-> c]
AddKey(t, cs)      == [op |-> "add key", table |-> t, cols |-> cs]
DropKey(t, cs)     == [op |-> "drop key", table |-> t, cols |-> cs]
AddRef(r)          == [op |-> "add ref", ref |-> r]
DropRef(r)         == [op |-> "drop ref", ref |-> r]
Kinds(ks)          == [op |-> "kinds", kinds |-> ks]
Seed(ks)           == [op |-> "seed", kinds |-> ks]
SeedOne(u)         == [op |-> "seed one", u |-> u]
Thresholds(us)     == [op |-> "thresholds", symbols |-> us]
ResetThresholds    == [op |-> "reset thresholds"]
Delete(t, us)      == [op |-> "delete", table |-> t, symbols |-> us]
DeleteTactical(t)  == [op |-> "delete tactical", table |-> t]
DeleteFutures      == [op |-> "delete futures"]
BuildIndex(i)      == [op |-> "index", index |-> i]
DropIndex(i)       == [op |-> "drop index", index |-> i]

-----------------------------------------------------------------------------
Restricted(f, S) == [x \in S |-> f[x]]
WithoutTable(db, t) ==
  [db EXCEPT !.cols = Restricted(@, DOMAIN @ \ {t}),
             !.keys = {k \in @ : k.table # t},
             !.refs = {r \in @ : r.from # t},
             !.index = {i \in @ : i.table # t},
             !.kinds = IF t = "underlyings" THEN {} ELSE @,
             !.rows = [x \in Rowed |-> IF x = t THEN {} ELSE @[x]]]

WithTable(db, s) ==
  [db EXCEPT !.cols = [t \in DOMAIN @ \cup {s.table} |->
                         IF t = s.table THEN s.cols ELSE @[t]],
             !.keys = @ \cup {Key(s.table, cs) : cs \in s.keys},
             !.refs = @ \cup s.refs]

WithColumn(db, t, c, kind) ==
  [db EXCEPT !.cols[t] = [x \in DOMAIN @ \cup {c} |->
                            IF x = c THEN kind ELSE @[x]]]

\* A foreign key needs the key it points to, and holds on to it.
RefFits(db, r) == Key(r.to, r.key) \in db.keys
Depends(db, k) == \E r \in db.refs : r.to = k.table /\ r.key = k.cols

\* Rows of t that belong to symbol u, and the rows that keep u alive.
Of(db, t, us)  == {r \in db.rows[t] : r.u \in us}
Children(db, us) ==
  {t \in Rowed \ {"underlyings"} :
     ToUnderlying(t) \in db.refs /\ Of(db, t, us) # {}}

HasNull(db, t, c) ==
  t = "gamma_aggregates" /\ \E r \in db.rows[t] : c \in r.nulls

\* The rows a key set tells apart: a smaller key must not merge two rows.
KeyHolds(db, t, cs) ==
  t = "gamma_aggregates" /\ "view" \notin cs =>
    \A r, q \in db.rows[t] : r.u = q.u => r.view = q.view

\* ToUnderlying rows block an underlying, items block their aggregate.
Referenced(db, t, us) ==
  \/ t = "underlyings" /\ Children(db, us) # {}
  \/ t = "gamma_aggregates" /\ Of(db, "gamma_aggregate_items", us) # {}

DeleteRows(db, t, us) ==
  IF Referenced(db, t, us) THEN Fail(db)
  ELSE IF t \notin Rowed THEN db
  ELSE [db EXCEPT !.rows[t] = {r \in @ : r.u \notin us}]

\* INSERT ... ON CONFLICT (symbol) DO UPDATE of the live constant.
SeedRows(db, us) ==
  IF \E u \in us : KindOf[u] \notin db.kinds THEN Fail(db)
  ELSE [db EXCEPT !.rows["underlyings"] =
          {r \in @ : r.u \notin us} \cup {[u |-> u, kind |-> KindOf[u]] : u \in us}]

Known(db) == {r.u : r \in db.rows["underlyings"]}
Limits(db) == {r.u : r \in db.rows["whale_thresholds"]}
DefaultLimits(us) == {[u |-> u, custom |-> FALSE] : u \in us}

(***************************************************************************)
(* Apply one statement.  A statement that PostgreSQL refuses leaves ok     *)
(* FALSE, and the whole transaction is rolled back by the caller.          *)
(***************************************************************************)
Apply(db, s) ==
  IF ~db.ok THEN db ELSE
  CASE s.op = "create" ->
         IF s.table \in Tables(db) THEN db
         ELSE IF \A r \in s.refs : RefFits(db, r) THEN WithTable(db, s)
         ELSE Fail(db)
    [] s.op = "create new" ->
         IF s.table \notin Tables(db) /\ \A r \in s.refs : RefFits(db, r)
         THEN WithTable(db, s) ELSE Fail(db)
    [] s.op = "drop table" ->
         IF \E r \in db.refs : r.to = s.table /\ r.from # s.table THEN Fail(db)
         ELSE WithoutTable(db, s.table)
    [] s.op = "add" ->
         IF s.col \in DOMAIN db.cols[s.table] THEN Fail(db)
         ELSE WithColumn(db, s.table, s.col, s.kind)
    [] s.op = "add missing" ->
         IF s.col \in DOMAIN db.cols[s.table] THEN db
         ELSE WithColumn(db, s.table, s.col, s.kind)
    [] s.op = "drop" ->
         [db EXCEPT !.cols[s.table] = Restricted(@, DOMAIN @ \ {s.col}),
                    !.keys = {k \in @ : k.table # s.table \/ s.col \notin k.cols},
                    !.refs = {r \in @ : r.from # s.table \/ s.col \notin r.cols},
                    !.index = {i \in @ : i.table # s.table \/ s.col # i.col}]
    [] s.op = "not null" ->
         IF HasNull(db, s.table, s.col) THEN Fail(db)
         ELSE WithColumn(db, s.table, s.col, "req")
    [] s.op = "nullable" -> WithColumn(db, s.table, s.col, "opt")
    [] s.op = "fill" ->
         IF s.table # "gamma_aggregates" THEN db
         ELSE [db EXCEPT !.rows[s.table] =
                 {[r EXCEPT !.nulls = @ \ {s.col}] : r \in @}]
    [] s.op = "add key" ->
         IF KeyHolds(db, s.table, s.cols)
         THEN [db EXCEPT !.keys = @ \cup {Key(s.table, s.cols)}] ELSE Fail(db)
    [] s.op = "drop key" ->
         IF Depends(db, Key(s.table, s.cols)) THEN Fail(db)
         ELSE [db EXCEPT !.keys = @ \ {Key(s.table, s.cols)}]
    [] s.op = "add ref" ->
         IF RefFits(db, s.ref) THEN [db EXCEPT !.refs = @ \cup {s.ref}] ELSE Fail(db)
    [] s.op = "drop ref" -> [db EXCEPT !.refs = @ \ {s.ref}]
    [] s.op = "kinds" ->
         IF \E r \in db.rows["underlyings"] : r.kind \notin s.kinds THEN Fail(db)
         ELSE [db EXCEPT !.kinds = s.kinds]
    [] s.op = "seed" -> SeedRows(db, {u \in Active : KindOf[u] \in s.kinds})
    [] s.op = "seed one" ->
         IF s.u \in Known(db) THEN db ELSE SeedRows(db, {s.u})
    [] s.op = "thresholds" ->       \* ON CONFLICT DO NOTHING
         [db EXCEPT !.rows["whale_thresholds"] =
            @ \cup DefaultLimits((s.symbols \cap Known(db)) \ Limits(db))]
    [] s.op = "reset thresholds" -> \* ON CONFLICT DO UPDATE
         [db EXCEPT !.rows["whale_thresholds"] =
            {r \in @ : r.u \notin Active} \cup DefaultLimits(Active \cap Known(db))]
    [] s.op = "delete" -> DeleteRows(db, s.table, s.symbols)
    [] s.op = "delete tactical" ->
         IF /\ s.table = "gamma_aggregates"
            /\ \E r \in db.rows["gamma_aggregate_items"] : r.view # "structural"
         THEN Fail(db)
         ELSE [db EXCEPT !.rows[s.table] = {r \in @ : r.view = "structural"}]
    [] s.op = "delete futures" ->
         DeleteRows(db, "underlyings",
                    {r.u : r \in {q \in db.rows["underlyings"] : q.kind = "future"}})
    [] s.op = "index" -> [db EXCEPT !.index = @ \cup {s.index}]
    [] s.op = "drop index" -> [db EXCEPT !.index = @ \ {s.index}]

Run(db, statements) == FoldLeft(Apply, db, statements)
=============================================================================
