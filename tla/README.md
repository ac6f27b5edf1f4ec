# A specification of sqlx-v2 in TLA+

This directory models `github.com/rpadovani/sqlx-v2`: its caches, its scan-buffer
pool, the calls that read rows through `database/sql`, how struct types are
flattened into addresses, how named queries are compiled and grown, and how
handles are made from each other and execute. Lines are given as `path:line` below
`src/`. `PROJECT.json` lists, for every definition of the modules, the code it
stands for.

## 1. The system

sqlx-v2 is a library on top of `database/sql`. It has no goroutines of its own:
concurrency is its callers'. What they share is process-wide state.

| Component | Code | State | Operations |
| --- | --- | --- | --- |
| Mapper type cache | `internal/reflectx/reflectx.go:40-188` | `Mapper.cache` (a `sync.Map` from a type to its `*StructMap`), 256 singleflight groups | `TypeMap`, `NewMapper*` |
| Struct flattening and field access | `internal/reflectx/reflectx.go:190-446` | none (builds a `StructMap`); allocates nil pointers of the destination | `mapType`, `flattenFields`, `AddrByTraversal`, `FieldByIndexes*`, `TraversalsByNameFunc` |
| Column plan cache | `engine.go:80-170` | `metaCache` (a process-wide `sync.Map`) | `buildMeta` |
| Scan buffer pool | `engine.go:30-78` | `scanPool` (`sync.Pool` of `[]any`) | `getScanDest`, `populateScanDest`, `putScanDest` |
| Query calls and row scanning | `engine.go:172-332`, `generics.go`, `helpers.go`, `rows.go:27-62`, `db.go:197-220` | a call's locals, `sql.Rows`, a connection of the pool | `Select`, `Get`, `SelectG`, `GetG`, `SelectIter`, `QueryRowx` with `Row.Scan` or `Row.StructScan` |
| `Rows.StructScan`, `MapScan`, `SliceScan` | `rows.go:64-end`, `helpers.go` | the plan kept in a `Rows` | the caller's own `Next` loop |
| Named parameters | `internal/bind/bind.go` | `compileCache`, `binds` (process-wide `sync.Map`s) | `compileNamedQuery`, `CompileNamedQuery`, `bindArray`, `bindStruct`, `In`, `Rebind` |
| Statements | `stmt.go`, `named_stmt.go` | the configuration of a statement, `NamedStmt.Params` | `Preparex`, `PrepareNamed`, `NamedStmt.Exec` (a batch over a slice) |
| `DB`, `Tx`, `Conn` | `db.go`, `tx.go`, `conn.go`, `sqlx.go`, `types.go`, `errors.go` | `Mapper`, `Unsafe`, `StrictTagParsing` | delegation, inheritance of the configuration |
| Public `reflectx` facade | `reflectx/reflectx.go` | none | aliases |
| Mock driver | `internal/mockdb/mockdb.go` | injected faults | test code |

How they interact: a query call obtains `sql.Rows` from `database/sql` (which
takes a connection out of a bounded pool), asks the type cache for the
`StructMap`, asks the plan cache for the plan of the column list, borrows a
scan buffer, and for each row points the buffer's slots into a destination and
lets `rows.Scan` write through them. The deferred `putScanDest` and
`rows.Close` run on the way out. `SelectIter` calls back into the caller's
loop between two rows, while it holds connection and buffer.

What is hard here, and what makes each part correct:

- *type cache*: a stampede. A type must be mapped once, all callers must hold
  the same map, a panic in `mapType` must release the waiters, and two types
  that print the same name must not share a flight.
- *plan cache*: hash collisions (the column names are hashed with no
  separator), concurrent `Unsafe` and default scans of one type, several
  Mappers in one process. A scan must get the plan its own request calls for.
- *buffer pool*: a buffer must have one user, no slot may point at an earlier
  row or another call's destination, and the pool must keep nothing alive.
- *query calls*: failures at every operation of the driver, a context that is
  cancelled between any two, an error from `Close`. A truncated result must not
  pass for a whole one, `ErrNoRows` must not hide an error, and the connection
  must come back on every path.
- *named parameters*: algorithms over strings whose boundary cases matter; and
  slices shared through a cache.
- *struct flattening*: types that embed, point to and contain each other. A
  column is written through a raw address (`Offset`, or `Traversal` past a
  pointer) and read back by reflection (`Index`): the two must meet, also for
  rows scanned one after the other into the same struct.
- *handles*: a configuration copied from handle to handle in some twenty places
  must reach the scan; `Rows` keep a plan of raw offsets across calls and result
  sets; a slice executed element by element fails half way, or loses its
  transaction to another goroutine.

## 2. The modules

| Module | What it is |
| --- | --- |
| `TypeMapOnce` | what `TypeMap` promises: a memo and its callers |
| `TypeMapCache` | `Mapper.TypeMap`: cache, singleflight, `mapType`, one action per synchronised operation |
| `MetaCache` | `buildMeta`: key, entry, comparison of the columns, plan |
| `ScanPool` | `scanPool` and the three functions that use it; the state and actions that `ScanEngine` composes |
| `ScanEngine` | the query calls over `ScanPool`, `sql.Rows` and a bounded connection pool |
| `CompileNamed` | `compileNamedQuery`, one byte per step |
| `CompileCache` | `compileCache` and who holds the slices of names it hands out |
| `BindExpand` | `In`, `bindArray` and `Rebind`, one token or argument per step |
| `FieldMap` | `mapType` and `flattenFields`, one field of a struct per step |
| `FieldScan` | rows scanned through the `StructMap` of `FieldMap` into memory, and fields read back by reflection; extends `FieldMap` |
| `Handles` | `DB`, `Conn`, `Tx`, `Stmt`, `NamedStmt` and `Rows`: which configuration reaches a scan |
| `Statements` | executions of named queries, in and out of transactions; extends `Handles` |
| `MC*` | the constants of the runs |
| `*_proofs` | the theorems |

### 2.1 TypeMapCache

`cache` is `Mapper.cache`; `flight[k]` is the goroutine whose call runs for the
singleflight key `k` (the type's name and its address, `reflectx.go:168-173`);
`want`, `result` and `pc` are a goroutine's locals; `built[t]` counts the maps
made of `t`, so that two of them are two pointers. `Load` is the lookup outside
the flight, `Join` enters it (or waits for the goroutine in it), `Recheck` is
the second lookup inside, `MapType`, `Store`, `Release` (singleflight wakes the
waiters with the value or the panic) and `Return` are the rest of `TypeMap`.
`sync.Map` and `singleflight.Group.Do` are taken at their documented atomicity.
A type in `Unmappable` makes `mapType` panic (`reflectx.go:319`: no tag and no
`mapFunc`).

`TypeMapOnce` keeps only the published map of each type and what each caller
got. `TypeMapCache!ImplementsOnce` is that refinement: the abstract memo is
`cache`, the abstract answer of a caller is its `result` once it is done.

### 2.2 MetaCache

A request is (type, columns, `Unsafe`, Mapper). `Key` is `metaCacheKey` with the
hash of the columns, which is a constant function, so that collisions are
possible for any hash; `Matches` is the comparison of an entry with the request
that follows a hit; `Plan` is what `buildMeta` computes: a field or a discard
slot per column, or `Missing` (an error). `Load`, `Build` and `Store` are three
steps, so another goroutine may replace the entry between any two of them. The
Mapper is part of the request and not of the key: that is the code.

### 2.3 ScanPool and ScanEngine

A buffer is a backing array: `slots[b]` is its content (a pointer into the
destination of row *r* of call *c* is `<<c, r>>`), `buf[c]` and `width[c]` are
the slice a call has borrowed. `GetScanDest` takes a pooled buffer that is large
enough or makes one, `PopulateScanDest` points the slots, `PutScanDest` clears
and hands back. `CollectPool` is the garbage collector emptying the `sync.Pool`.

`ScanEngine` follows the control of each function with one `pc`:

| Function | Path |
| --- | --- |
| `Select`, `SelectContext` (`helpers.go`, `selectScan`, `iterateScan`) | query, destination check, prepare, (next, populate, scan)*, put, close |
| `Get`, `GetContext` (`getScan`) | the same for one row; `ErrNoRows` only after `Close` |
| `SelectG`, `GetG` (`generics.go`) | prepare, rows, put, close; `GetG` looks at `rows.Err` before `ErrNoRows` |
| `SelectIter` | like `Select`, with the loop body between two rows; an error is yielded (`report`) |
| `QueryRowx` + `Row.Scan` | no columns, no buffer; next, scan, close |
| `QueryRowx` + `Row.StructScan` | columns, plan, buffer and populate *before* `Row.Scan`; close inside it, put after it |

`rows[c]` is the `sql.Rows`, and "open" means a connection of the pool is out;
`fault[c]` is what `rows.Err` would say. The driver's choices are
nondeterministic: the query, `Columns`, `Next`, `Scan` and `Close` may fail
(`QueryFails`, `ColumnsFail`, `NextEnds`, `ScanFails`, `Close`), the result may
not fit the type (`PlanFails`, `PopulateFails`), and `Cancel` closes the rows
of a context that is done between any two steps, as `database/sql` does.
`Start` with a parent is a call made by the body of a loop over `SelectIter`.

### 2.4 CompileNamed

The variables are the loop's (`inName`, `name`, `names`, `rebound`,
`currentVar`) plus the bytes read so far; the query is chosen byte by byte and
any byte may be its last (`last`), so that one run covers all queries up to the
bound. There is one action per branch of the loop. The five kinds of byte are the
ones the branches tell apart. The properties compare with a definition that
looks at positions and has no state: `Starts` (the colons that begin a
parameter), `NameAt`, `Kept`.

### 2.5 CompileCache

What compiling gives is a constant. A slice of names is a cell of `heap`; an
entry of the cache, the result of a binding and `NamedStmt.Params` hold cells.
`Compile` allocates, `Store` publishes (over another goroutine's entry, too),
`Bind` reads, `Copy` is the defensive copy of `CompileNamedQuery`, and
`WriteParams` is a caller that assigns to `NamedStmt.Params`, an exported field.
`NamedStmt(p, q)` is `Tx.NamedStmt` (`tx.go:193`): the statement in the
transaction has the `Params` of the one it is bound from, so the two are a
*family* (`family`), and a write by any member reaches the others. That
sharing is the code; the property is that it goes no further.

### 2.6 BindExpand

`Init` chooses a call: `In` with a query of `?` and text and arguments that are
scalars, slices of each length, a failing `driver.Valuer` or a pointer to a
slice; or `bindArray` with a query that compiles or does not, and elements that have
all its names, lack one or are nil pointers, given as they are or by pointer. `Measure` and its failing variants are the first loop of `In`,
`KeepScalar` and `ExpandSlice` the second; `ReadElement`, `RepeatGroup` and
`RebindNext` are `bindArray`. `rest` and `offset` are the code's `query` and
`offset`. `In` panics on a pointer to a slice (`asSliceForIn` looks through the
pointer, `Len` does not), and `bindArray` refuses one (`bindNamedMapper` looks
through the pointer, `bind.go:514`, `bindArray` does not, `bind.go:349`) and
panics at an element that is a nil pointer (`bind.go:376`). The refusals are
actions of their own, each with the guards of those before it: `NotAnArray`,
`EmptyArray`, `CompileFails`, `NoNames`, `NameMissing`, `NilPanics`,
`NoParentheses`. `RefusedForCause` computes from the call alone, without
a loop, which of them it meets first. Left out: a text with a literal `?` (the code takes it for a bindvar
everywhere) and the branch `bind.go:418-420`, which no query with a name reaches.

### 2.7 FieldMap and FieldScan

`stack` is the recursion of `flattenFields`, one frame per call: the type, the
FieldInfo of the struct, the prefix of its names and the index of the next
field. `visited` is the guard of `reflectx.go:209-213`, set and lifted with the
frames. `SkipField`, `MapLeaf`, `Descend` and `Return` are the ways through the
loop body; `Register` is the order in which a field is entered under its path and,
if it is free, under its bare name; `Validate` is `validateTagName`. Names are
sequences of words, so that a tag with a dot is two words; a name is what
`tagMapFunc` or `mapFunc` makes of the tag or the Go name. Offsets are counted in
words: the layout is the compiler's, and `Size` gives it.

`FieldScan` adds memory: a sequence of objects, each with its words; a pointer is
the number of an object. `Slot` is `populateScanDest` for one column (by offset,
or by `AddrByTraversal`, which fills nil pointers in), `Scan` is `rows.Scan`
writing through the slots, `FieldByName` a caller that reaches a field by
reflection and fills in pointers that way. `ReadOnly` reads a field back as
`FieldByIndexesReadOnly` does for a named argument. The caller scans into a new
struct per row (`Select`, `Get`, the generic calls) or, with `Rows.StructScan`,
into the one it has, and keeps the struct or a copy. `RowsAreKept` then says
that what was kept is what the row delivered, with one exception that is the
code's: behind the pointers of a struct that is scanned into again, a kept copy
shows the last row, because `AddrByTraversal` follows pointers that are set.

`MappedAsDeclared` compares the map with a definition over the declarations
that has no stack: the paths that reach a field without passing a type twice.

`LayoutAssumption` is what the Go compiler guarantees: a value has its words, a
scalar one, and the fields of a struct lie in its words and apart. Nothing is
assumed of the order of fields, of padding or of the sizes of structs. `NilAssumption`
tells nil from an address, and `MaxRows`, the bound on the rows read, is any natural.

### 2.8 Handles and Statements

A handle has the configuration the code copies into it (`cfg`) and, for the
properties only, `asked`: the configuration its caller last gave to it or to the
handle it descends from. `README.md:92-107` promises Unsafe mode of a handle and
knows no handle that starts anew, so what is made from a handle is asked for
with its configuration, whatever the code does. A statement bound to a
transaction descends from two handles; no document says which counts, so `asked` has
both. `lost` is the settings the code did not pass on: a statement from
`Preparex` has the default Mapper and neither flag (`stmt.go:105`,
`stmt.go:114`), one from `PrepareNamed` the flags of its owner and the default
Mapper (`db.go:262`, `tx.go:151`). `Connx`, `Beginx`, `Preparex`, `PrepareNamed`
and `Stmtx` (`Stmtx`, `NamedStmt` of a `Tx`) make handles, `Configure` assigns to the
exported fields. Bound to a transaction, a statement has the configuration
of the transaction, also if it had lost its own.

`ConfigurationIsKept` is about what is not lost: a scan through any handle shows
one of the configurations asked for, its flags and its Mapper together. What is
lost is not excused by that: `UnsafeIsInherited` states the promise of
`README.md:92-107` without a look at `lost`, and is violated. So are
`RowsCheckTags` and `RowsReportDrift`, about `Rows.StructScan`; the three
together are `ModesAreHonoured` (finding 4).
`README.md:96` mentions a `db.UnsafeDB()` that the
source does not have.

`cursor` is an open `Rows`. `FirstStructScan` makes the plan of
`Rows.StructScan`, `NextStructScan` uses it again, after `NextResultSet` too
(`moved`); it refuses another struct type, a number of columns other than the
plan's is refused by `Rows.Scan`, and malformed tags it never looks at, unlike
`StructScan` on the same `Rows`. The tags, and the plan kept in another result set,
are against the documents: `RowsCheckTags` and `RowsReportDrift`.

`Statements` adds executions. A `NamedStmt` over a slice is one element per
step (`BindFails`, `ExecFails`, `ExecElement`), `NamedExec` is one query for the whole
slice; `End` commits or rolls back a transaction, from any goroutine, between
any two steps. `table` holds the rows in the database, `res` is the element
whose `sql.Result` the caller gets.

## 3. The runs

| Run | Shows |
| --- | --- |
| `typemap` | no stampede maps a type twice, everybody gets the cached map or the panic, publication is final, the refinement of `TypeMapOnce`, and every call returns |
| `metacache` | with one Mapper a scan gets the plan its own request calls for, whatever the hash collides and whoever stores meanwhile |
| `metacache_mappers` | *violation*: with two Mappers, drift goes unreported (finding 1) |
| `scan_safety` | whole results or an error, `ErrNoRows` for empty results only, exclusive buffers, slots of the row being read, a clear pool, everything released |
| `row_drift_leak` | *violation*: `Row.StructScan` keeps the connection when the plan fails (finding 2) |
| `iter_late_yield` | *violation*: `SelectIter` yields after the loop was left (finding 3) |
| `compile_named` | parameters found, numbered and spelled right, text kept, in all queries up to seven bytes and four dialects |
| `compile_cache` | bindings use the names of their query and dialect while owners of statements overwrite their `Params` |
| `field_map` | every field is in the map under its path and its bare name, marked if behind a pointer; rows scanned through addresses are what reflection reads back; flattening ends for types that contain themselves |
| `statements` | what preparing has not dropped of a configuration reaches the scan, whole, through any chain of handles; `Rows` fill the struct they are given; an execution over a slice leaves a prefix; a transaction decides over all that ran through it |
| `modes` | *violation*: a statement prepared on a `DB` in Unsafe mode refuses unmatched columns (finding 4) |
| `bind_expand` | bindvars and arguments of a grown query correspond; the right group is repeated; refusals are for cause |

Bounds, and why they are enough:

- `typemap`: 3 goroutines (a leader, a waiter, and one that stalls between its
  load and the flight), 3 types: two with one name, one that panics.
- `metacache`: 2 goroutines, 2 types, 3 column lists that all collide (`ab`+`c`,
  `a`+`bc`, `abc`), so that entries are replaced while in use and comparisons
  fail by length and by content.
- `scan_*`: 2 calls (two goroutines, or a loop and its body), 2 rows (a first, a
  later one, and an early end before either), 2 columns and 2 buffers (a pooled
  one may be too small, too large, or taken), `MaxOpen` 2.
- `compile_named`: seven bytes hold two parameters with text between, and
  each of `::`, `:::`, `:=`, an unexpected colon, and every last byte after a
  name. `MaxLen` is the guard of `Read`.
- `compile_cache`: 3 goroutines (one prepares, one binds its statement to a
  transaction, one binds arguments through the cache), one query in two
  dialects, told apart by the text they compile to, and one query that does not
  compile; 5 slices: two entries and three
  more. A goroutine that finds none free goes on when another has left; what it
  shares with whom does not depend on it.
- `bind_expand`: 6 tokens hold a column list and a group of two values,
  3 arguments of up to 3 elements hold a scalar between two slices. A query
  that does not compile, or is never read because the array came by pointer, is empty.
- `field_map`: a struct of two fields that may hold, embed or point to a second
  struct of two and to itself, the second one to a third and back: a type in two
  places, a path below a pointer below a value, a circle of two types, a bare
  name that is another field's path (through a tag with a dot), and every kind of
  tag. `MaxRows` 2: a first and a later row of a reused struct.
- `statements`: 4 handles are a `DB`, a `Tx` or `Conn`, a statement and its
  binding to a transaction; `MaxChanges` 1 assigns one configuration after handles
  were made from it. Two Mappers of which one lacks a column, two types of which
  one has a malformed tag, three column lists (two orders, another length).
  `modes` has a `DB` as `NewDb` makes it and one with both modes set, and result
  sets of one column, which a type has a field for or not. `MaxSlice` 2 has an element before and after a failure, `MaxExecs` 1: executions
  share nothing but the end of their transaction. Bounds on the interplay: one
  `Rows` at a time and of the newest handle, no handle made while `Rows` are open
  (they have copied what they need), and a behaviour that executes no longer queries.

`CHECK_DEADLOCK FALSE` appears where a behaviour ends: a compiled query, a
finished call of `In` or `bindArray`, handles and executions at their bounds. Symmetry is used in safety runs only.

### Fairness

`TypeMapCache` assumes weak fairness of the steps of a call: goroutines are
scheduled and `mapType` terminates. Nothing is assumed of new calls. `FieldScan` assumes weak fairness of `Map` only: the goroutine inside
`mapType` keeps running. `ScanEngine` and `Statements` assume none; all they state is
safety. What a call that waits for a connection needs of the others is
`ReleasedOnReturn`: that whatever ends them they have given theirs back.

## 4. What the runs found

1. *Plans cross Mappers* (`engine.go:92`). The key of `metaCache` has no Mapper.
   With two in a process (`DB.MapperFunc`, or `DB.Mapper` assigned), a scan
   can be given a plan made with the other one's names: in the default mode a
   column without a field is then not reported, against `README.md:90`.
2. *`Row.StructScan` keeps its connection* (`helpers.go:262`). A strict tag
   error, or a column without a field, returns before `Row.Scan`, the only
   place that closes the rows, and `Row` has no `Close`.
   `ReleasedOnReturn` is checked, and proved, for everything else.
3. *A yield too many* (`generics.go:269`). If `rows.Close` fails after the loop
   was left, `SelectIter` yields that error to a loop that has ended, which the
   Go runtime turns into a panic.
4. *Preparing drops the configuration* (`stmt.go:105`, `stmt.go:114`). A
   statement prepared on a `DB`, `Conn` or `Tx` in Unsafe mode refuses unmatched
   columns, against `README.md:92-107` (`db.Unsafe = true` discards them,
   "inherited from `jmoiron/sqlx` for full behavioral compatibility") and the
   drop-in replacement of `README.md:7` and `shadow/harness_test.go:15-16`: the
   `Preparex` of jmoiron/sqlx passes the flag and the Mapper on. The Mapper and
   `StrictTagParsing` go the same way, the Mapper for `PrepareNamed` too.

   `Rows.StructScan` breaks the other two parts of `ModesAreHonoured`, each of which
   is violated also when it is checked by itself:
   - it never looks at `StrictTagParsing` (`rows.go:155`), though `Rows` carry the
     flag and every other scan checks it; `config_test.go:26-27` says the flag
     "causes an error when a struct has a tag with invalid characters";
   - it keeps its plan after `NextResultSet` (`rows.go:141`): with as many columns, of
     which one has no field, values go into the fields of the earlier columns
     and no error is returned, against `README.md:90`. `rows.go:132` announces the
     cached plan, but asks for the same type only.

## 5. What is proved

`tlapm` checks every theorem below, for all values of the constants that satisfy
the assumptions stated in the modules.

**`TypeMapCache_proofs`** — `TypeCorrect`, `StampedeMapsOnce`, `AnswersAgree`,
`NeverReplaced`, `Refinement`. The invariant adds to the types: the goroutine
named by a flight is the only one inside it (`LeaderInv`); a type with a map has
been mapped exactly once, and one mapped but not published has its map with a
goroutine about to store it (`CacheInv`); and what a goroutine knows at each
place (`ProcInv`), above all that the cache is still empty after the second
lookup, which only the exclusivity of the flight makes stable. The refinement
maps every step to a step of `TypeMapOnce` or a stutter.

**`MetaCache_proofs`** — `TypeCorrect`, `PlansAreRight`. Hypothesis of the second: the Mappers in use agree
on the names of each type, and there is a request to make. `EntriesInv` says
that an entry that matches a request holds its plan; with the hypothesis a plan
depends only on what the key and the comparison look at. Finding 1 shows that
the hypothesis cannot be dropped.

**`ScanEngine_proofs`** — `TypeCorrect`, `BuffersAreExclusive`,
`RowsGoWhereTheyShould`, `PoolKeepsNothingAlive`, `ResultsAreComplete`,
`NoRowsIsNoError`, `CallsRelease`. The invariant has two parts. `CallInv` is
about one call: how `fetched`, `got` and `total` relate at each place
(`Counts`, `AtRow`), that rows that are being read have no error yet
(`Reading`), what the error of a call that has read its rows says of them
(`Ended`; `Get` may pass `close` with no row and no error, because it turns that into
`ErrNoRows` afterwards), and who may still hold a buffer or open rows
(`Released`). `PoolInv` is about buffers: one user each, long enough, slots
filled for the current row from populate to scan, pooled ones clear. `PoolInv`
needs `CallInv` to know that a call without a buffer cannot put one back, and
the lengths to know that a truncated slice of a longer array is cleared whole.

**`CompileCache_proofs`** — `TypeCorrect`, `BindingsAreAsCompiled`,
`ParamsAreOwned`. The slice of a prepared statement is in no entry and with
nobody else but the statements `Tx.NamedStmt` bound from it or it from (`Owned`;
within such a family the code shares it), so a write to it disturbs neither the entries
(`CacheInv`) nor a binding (`ProcInv`); compiling and copying write to fresh
slices (`FreshSlice`).

**`CompileNamed_proofs`** — `TypeCorrect`, `BindvarsAreTheNames`,
`NamesFoundWhole`, `TextIsKept`, for queries of any length. Two inductive
invariants. `Inv` is about the bindvars: their positions are a witness that grows
with the names (`NameMatch`) and that text leaves alone (`TextMatch`), and
`currentVar` is one more than there are names. `WholeInv` is about what the loop
has read: `ReadInv` says of the prefix `qs` that `names` are the names of the
parameters that have ended in it (`Closed`), that `rebound` is what it leaves
(`Written`), and that `inName` and `name` are those of the parameter that is open
at its end (`Open`, `NoneOpen`), if there is one. All of that is defined by
positions. A byte is added to the prefix, never to its middle, so what the proof
needs of every definition is how it grows with one byte (`ColonGrows`,
`StartsGrow`, `ClosedGrows`, `WrittenGrows`, `NamesAdd`, `TextAdd`); the last byte
is different (a mark that ends the query is no part of a name), which is why the
final properties follow from `ReadInv` in the closing step and not before.

**`BindExpand_proofs`** — `TypeCorrect`, `ExpandedInPlace`, `BindvarsMatched`,
`GroupsRepeated`, `RefusedRightly`, for queries, argument lists, slices and arrays
of any length (the bounds `MaxLen`, `MaxArgs`, `MaxSlice` are any naturals). Assumed
is that the tokens and the kinds of arguments are told apart. That a refusal is for
the first cause (`RefusedRightly`) needs of both loops that the arguments read
so far have nothing wrong with them, and from that that the first bad one is
where the loop stands (`FirstBadElementIs`). `ExpandInv` is the
loop of `In`: what has been written, followed by what has been read and not
written (`Reading`: the code's `offset` lags behind), is what the prefix read
grows to (`Grown`), and `newArgs` is what is passed for the arguments read
(`PassedUpTo`). Neither can be left out: a scalar moves `offset` and writes
nothing, a slice writes both its bindvars and the scalars before it. `RowsInv`
counts the values of the elements read; `RebindInv` says that what is written,
with its numbers taken away, followed by the rest, always has the groups that
`RepeatGroup` made, and that the bindvars written are numbered from 1. What the
folds build (`FlattenSeq`) is proved from how they grow with one more element
(`FlattenNext`, `GrownSteps`, `RepeatOneMore`), by induction over sets of
naturals (`Induction`, from the well-foundedness of `<` on `Nat`).

**`FieldScan_proofs`** — about the flattening (`MapSpec` of `FieldMap`):
`MapTypeCorrect`, `GuardHolds`, `RecursionIsBounded`, `MarksAreRight`,
`FullPathsWin`; about the whole of `FieldScan`: `ScanTypeCorrect`, `KeptRowsStay`
(the invariant `RowsAreKept`), `MapIsAsDeclared` (`MappedAsDeclared`),
`ScanImplementsMap` and `MapStaysRight`. All of them are for any declarations, any
layout that satisfies `LayoutAssumption` and any number of rows;
`RecursionIsBounded` and `MapIsAsDeclared` assume that there are finitely many
types, as there are in a program.

The four invariants of the flattening are inductive together (`Inv`): the guard
needs the types of the frames, a frame's mark needs its parent's. `GuardHolds`
says that the frames are of different types and that these are the visited ones,
from which the depth of the recursion is bounded by the number of types; `Return`
lifts the guard of exactly one frame because no other has its type. Scanning
leaves the flattening alone (`ScanImplementsMap`), so what holds of it holds here.

`MapIsAsDeclared` compares the map with the declarations. Its inductive invariant
`DeclInv` says what has been done when the innermost call is at the field `i` of
the struct at `q`: the maps have the columns of exactly the declared fields that
lie before `Append(q, i)` in the order of positions (`Lt`), each path with the
last of its fields and each bare name that is no path with the first (`Reflects`);
the errors are the bad tags before that place and those on the way to it (`Told`);
and every call is at the field of its parent, with the types on the way to it in
the calls outside it (`Stands`). A step moves the place, and what lies before it
grows by nothing, by the field mapped or by the struct that is left (`DoneSkip`,
`DoneLeaf`, `DoneDown`, `DoneUp`). That a struct is registered after its fields is why
`Sooner`, the order of registration, is `Lt` with longer paths first.

`KeptRowsStay` needs an account of memory. `Nodes` are the values that the
declarations of a type lead to, whatever pointers there are on the way, each with
its path, its traversal, the object it is in (that of the last pointer before it)
and its word there. `ScanInv` says that every `FieldInfo` of a frame or of the
maps describes a node (`Describes`: the `Index`, the `Traversal` and the `Offset`
lead to the same place, which is what reading by reflection and writing by
address must agree on); that memory is as some `L` says, which names for every
struct made for the caller the object behind each of its pointers (`Good`: all of
these differ, and a pointer without one is nil); that a slot that has been filled is
the word of its column's field (`Slots`); and that every kept row has the cells it
should have (`Keeps`), in the struct or in a copy of it that is no object of `L`. Without
`L` the invariant is not inductive: that writing through one slot leaves the others
and the rows kept earlier alone rests on the objects being different, and within
one object on fields apart in the declarations being apart in the words (`Apart`,
from `LayoutAssumption`). Walks and traversals are folds; they are proved from how a fold
goes on by one element (`FoldAppend`), by induction over sets of naturals.

**`Statements_proofs`** — `TypeCorrect`, `ConfigurationsAreKept`, `ScansFillTheirOwn`,
`APrefixIsLeft`, `TransactionsDecide`, for any number of handles, executions,
Mappers, types and columns. `HandlesInv`: every handle's `cfg` is a configuration
that was asked for, up to the settings it has lost (`Kept`), only statements have
lost any, and what is made from a transaction runs in it (`WellMade`). That
only statements have lost settings is what a transaction, which every binding
takes its configuration from, needs: without it `Kept` is not inductive.
`CursorInv`: `Rows` have kept their configuration in the same sense, and those
that have a plan have it for the type and the columns they
remember, and for the present columns unless they have moved. `ExecsInv`: what an
execution has left is the prefix before its next element, or nothing after a
rollback. `TransactionsDecide` needs `WellMade` to know that an execution through
a statement made from a transaction is undone with it.

**Only model-checked.** The liveness properties (`WF_` and `ENABLED` are out of
the prover's reach). Every invariant and every other action property of the runs
is stated by a theorem; where a theorem has a hypothesis that the run does not
need (`PlansAreRight`), it is named above. The runs that expect a violation are
counterexamples, and there is nothing to prove about them.

## 6. What is not modelled

- In `FieldMap`: a root that is no struct, for which `mapType` returns an empty map
  (`reflectx.go:198-200`); fields that are pointers to pointers, and the `Options` of a
  tag, which nothing reads. In `FieldScan`: NULL, whose conversion is
  `database/sql`'s (a NULL into a `*T` is an error, because the slot is the `*T`).
- In `Handles`: callers that reassign the exported fields of open `Rows`; what
  the driver may fail there is in `ScanEngine`. Of the wrappers, `Open`, `Connect`,
  `Ping`, the `Must` variants (a panic for an error), `LoadFile` and the error values.
- In `ScanEngine`: queries on a `Tx` or `Conn` (their connection belongs to the
  transaction and stays out after `Close`); a `Row` that is never scanned (the
  caller breaks the contract of `sql.Row`); `SelectIter[*T]`, which panics on
  the first row (`generics.go:263`); conversions of values. A loop body that
  queries the same `DB` while every connection is with such a loop waits for ever
  (`MaxOpenConns` 1, or as many loops as connections): the runs with `Nesting`
  keep `MaxOpen` above the depth. That a call gets a connection in the end is not
  stated: it rests on the request queue of `database/sql`, and of the library only on
  `ReleasedOnReturn`.
- In `BindExpand`: which group is meant by nested parentheses (`bind.go:399`); no
  document says.
- The facade `reflectx/` (aliases), the mock driver (test code; its faults are the
  environment's choices here), `BindDriver`/`BindType` (a map), error texts.

## 7. What is left

1. `ScanEngine` over a `Tx` and a `Conn`: the connection stays with the
   transaction, whose end closes its rows while a call reads them.
2. `BindExpand` with nested parentheses, once a document says what is meant.
3. NULL in `FieldScan`: what `database/sql` makes of it, for fields by value and
   behind pointers.
