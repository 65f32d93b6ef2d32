----------------------------- MODULE StoreViews -----------------------------
(***************************************************************************)
(* The tables a write batch touches: entities, the aliases and view rows   *)
(* that refer to them, the row counts kept by triggers and the revisions.  *)
(* A batch is collected first and applied in one transaction, operation by *)
(* operation; a foreign key that does not hold, or a cipher that fails,    *)
(* rolls all of it back, and so does the death of the process.             *)
(*                                                                         *)
(* A payload is a version number; positions are small numbers.             *)
(***************************************************************************)
EXTENDS Naturals, Sequences, FiniteSets

CONSTANTS
    Entities,       \* local ids
    Aliases,
    Views,
    Positions,      \* position keys, as numbers
    MaxBatch,       \* bound: operations in a batch
    MaxBatches      \* bound: batches committed or rolled back

(* Local ids and positions have an order; a page starts before them all.    *)
ASSUME ViewsAssumption ==
    /\ IsFiniteSet(Entities) /\ Entities \subseteq Nat /\ Positions \subseteq Nat \ {0}
    /\ {MaxBatch, MaxBatches} \subseteq Nat

VARIABLES
    stored,     \* the committed tables
    working,    \* the transaction's view of them
    batch,      \* the batch being committed
    done,       \* operations of it that were applied
    batches

viewsVars == <<stored, working, batch, done, batches>>

Tables == [entities : [Entities -> Nat],             \* 0: no row
           aliases : SUBSET (Aliases \X Entities),
           rows : SUBSET (Views \X Entities \X Positions),
           counts : [Views -> Nat],                  \* 0: no row
           revisions : [Views -> Nat]]

Operations ==
    [op : {"putEntity", "removeEntity"}, entity : Entities]
      \cup [op : {"putAlias"}, alias : Aliases, entity : Entities]
      \cup [op : {"putRow"}, view : Views, entity : Entities, position : Positions]
      \cup [op : {"removeRow"}, view : Views, entity : Entities]
      \cup [op : {"bump"}, view : Views]

Batches == UNION {[1..n -> Operations] : n \in 1..MaxBatch}

ViewsTypeOK ==
    /\ stored \in Tables /\ working \in Tables
    /\ batch \in Batches \cup {<<>>}
    /\ done \in 0..MaxBatch
    /\ batches \in 0..MaxBatches

EmptyTables == [entities |-> [e \in Entities |-> 0], aliases |-> {}, rows |-> {},
                counts |-> [v \in Views |-> 0], revisions |-> [v \in Views |-> 0]]

ViewsInit ==
    /\ stored = EmptyTables /\ working = EmptyTables
    /\ batch = <<>> /\ done = 0 /\ batches = 0

-----------------------------------------------------------------------------
(* What each operation does to the tables, with the triggers and cascades   *)
(* of the schema.                                                           *)
Exists(t, e) == t.entities[e] > 0
RowsOf(t, v) == {r \in t.rows : r[1] = v}
RowOf(t, v, e) == {r \in t.rows : r[1] = v /\ r[2] = e}

RemoveEntity(t, e) ==       \* ON DELETE CASCADE fires entity_view_count_delete
    [t EXCEPT !.entities[e] = 0,
              !.aliases = {a \in @ : a[2] # e},
              !.rows = {r \in @ : r[2] # e},
              !.counts = [v \in Views |-> @[v] - Cardinality(RowOf(t, v, e))]]

PutRowCounting(t, v, e, p) ==   \* mutant: the upsert of a row counts it again
    [t EXCEPT !.rows = (@ \ RowOf(t, v, e)) \cup {<<v, e, p>>},
              !.counts[v] = @ + 1]
PutRow(t, v, e, p) ==
    [t EXCEPT !.rows = (@ \ RowOf(t, v, e)) \cup {<<v, e, p>>},
              !.counts[v] = IF RowOf(t, v, e) = {} THEN @ + 1 ELSE @]

RemoveRow(t, v, e) ==
    [t EXCEPT !.rows = @ \ RowOf(t, v, e),
              !.counts[v] = @ - Cardinality(RowOf(t, v, e))]

PutAlias(t, a, e) == [t EXCEPT !.aliases = {x \in @ : x[1] # a} \cup {<<a, e>>}]

(* Foreign keys are enforced (configure), so the row's entity must exist. *)
Allowed(t, o) == o.op \in {"putAlias", "putRow"} => Exists(t, o.entity)

Applied(t, o) ==
    CASE o.op = "putEntity" -> [t EXCEPT !.entities[o.entity] = @ + 1]
      [] o.op = "removeEntity" -> RemoveEntity(t, o.entity)
      [] o.op = "putAlias" -> PutAlias(t, o.alias, o.entity)
      [] o.op = "putRow" -> PutRow(t, o.view, o.entity, o.position)
      [] o.op = "removeRow" -> RemoveRow(t, o.view, o.entity)
      [] o.op = "bump" -> [t EXCEPT !.revisions[o.view] = @ + 1]

-----------------------------------------------------------------------------
Idle == batch = <<>>

BeginCommit(b) ==
    /\ Idle /\ batches < MaxBatches
    /\ batch' = b /\ done' = 0
    /\ working' = stored
    /\ batches' = batches + 1
    /\ UNCHANGED stored

ApplyOperation ==
    /\ ~Idle /\ done < Len(batch)
    /\ Allowed(working, batch[done + 1])
    /\ working' = Applied(working, batch[done + 1])
    /\ done' = done + 1
    /\ UNCHANGED <<stored, batch, batches>>

(* A refused operation, a cipher error, or the process dying mid-way. *)
RollbackKeeping ==          \* mutant: each operation commits by itself
    /\ ~Idle
    /\ stored' = working
    /\ batch' = <<>> /\ done' = 0
    /\ UNCHANGED <<working, batches>>
Rollback ==
    /\ ~Idle
    /\ batch' = <<>> /\ done' = 0
    /\ working' = stored
    /\ UNCHANGED <<stored, batches>>

Commit ==
    /\ ~Idle /\ done = Len(batch)
    /\ stored' = working
    /\ batch' = <<>> /\ done' = 0
    /\ UNCHANGED <<working, batches>>

ViewsNext == (\E b \in Batches : BeginCommit(b)) \/ ApplyOperation \/ Rollback \/ Commit
ViewsSpec == ViewsInit /\ [][ViewsNext]_viewsVars

-----------------------------------------------------------------------------
(* read_view_window: rows by position, then local id, `after` a position.   *)
(* Entities are numbers here, so that they have an order.                   *)
Before(r, s) == r[3] < s[3] \/ (r[3] = s[3] /\ r[2] < s[2])
PageAfter(t, v, limit, after) ==
    LET rows == {r \in RowsOf(t, v) : r[3] > after} IN
    {r \in rows : Cardinality({s \in rows : Before(s, r)}) < limit}
LastPosition(rows, after) ==
    IF rows = {} THEN after ELSE CHOOSE p \in Positions :
        (\E r \in rows : r[3] = p) /\ \A r \in rows : r[3] <= p
(* The rows a reader gets who asks for one window after the other. *)
Paged(t, v, limit) ==
    LET page[n \in 0..Cardinality(Entities)] ==
            IF n = 0 THEN [rows |-> {}, after |-> 0]
            ELSE LET next == PageAfter(t, v, limit, page[n - 1].after) IN
                 [rows |-> page[n - 1].rows \cup next,
                  after |-> LastPosition(next, page[n - 1].after)]
    IN page[Cardinality(Entities)].rows

-----------------------------------------------------------------------------
(* The counts the triggers keep are the rows there are, whatever was        *)
(* inserted, upserted, removed or cascaded away in whatever batches.        *)
CountsAreTrue == \A v \in Views : stored.counts[v] = Cardinality(RowsOf(stored, v))

(* Nothing refers to an entity that is gone: read_view_window's join and    *)
(* resolve_alias never meet a dangling id.                                  *)
NothingDangles ==
    /\ \A r \in stored.rows : Exists(stored, r[2])
    /\ \A a \in stored.aliases : Exists(stored, a[2])

(* A change of the tables is a whole batch: a reader never sees an entity   *)
(* without the projections and revisions that were collected with it.       *)
WholeBatch(t, b) ==
    LET after[n \in 0..Len(b)] == IF n = 0 THEN t ELSE Applied(after[n - 1], b[n])
    IN after[Len(b)]
BatchesAreWhole == [][stored' # stored => stored' = WholeBatch(stored, batch)]_viewsVars

(* A reader who pages through a view sees every row of it, as long as no    *)
(* two rows share a position.                                               *)
PagingIsComplete ==
    \A v \in Views :
        (\A r, s \in RowsOf(stored, v) : r[3] = s[3] => r = s)
            => Paged(stored, v, 1) = RowsOf(stored, v)
(* What readers rely on after any history of batches: counts, references    *)
(* and pages all agree with the rows.                                       *)
TablesAgree == CountsAreTrue /\ NothingDangles /\ PagingIsComplete
=============================================================================
