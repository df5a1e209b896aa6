# Models of the sonar survey coverage planner

TLA+ models of the Go backend in `src/backend` and of the runs page in front of it
(`src/frontend`), checked with TLC and proved, in part, with TLAPS. Paths below are
relative to `src/backend/internal` unless they start with `src/`.

## 1. The system

The backend is one process of gin handlers over one SQL database (PostgreSQL, or
SQLite for smoke tests). Every request runs in its own goroutine. The state that
survives is in five tables; the process keeps none but the rate limiter's map.

| Component | State | Operations | What makes it correct |
| --- | --- | --- | --- |
| Survey areas (`service/survey_area.go`) | `survey_areas`: code, content, status, version | Create, Update; List, Get | one area per normalized code; an archived area never changes; no lost edit |
| Transect plans (`service/transect_plan.go`) | `transect_plans`: lines, name, draft/locked, version | Create, Generate, Update, Lock, Copy; List, Get | a locked plan never changes; no lost edit; no plan for an archived area |
| Sonar runs (`service/sonar_run.go`) | `sonar_runs`: plan, checksum, code, navigation, state, version | Import, Transition; List, Get, Quality | one run per checksum; versions count moves along the graph; invalid navigation is held back |
| Coverage gaps (`service/coverage_gap.go`) | `coverage_gaps`: input hash, frozen result, notes, state, version | Detect, Transition; List, Get | one gap per input hash; sources processed; no review or note lost |
| Audit (`service/audit.go`) | `audit_events` | Record; List | one event for each write, snapshots that match it |
| State graphs (`constants`) | none | CanTransition, parsers, SeverityForRatio | graphs as documented |
| Rate limiter (`middleware/audit.go`) | client -> window start, count | Middleware | at most `capacity` requests in a window; nobody below it is refused |
| Authentication and roles (`service/auth.go`, `middleware/auth.go`, `rbac.go`, `router`) | `users`, signed tokens at clients | Login, Parse, RBAC | a token dies with the account's role or activity |
| Geometry (`geometry/coverage.go`) | none; the counters of a loop over cells | CalculateCoverage, StableInputHash, parsers | cells agree with areas; of the parts of a boundary one has each cell; the recommended line closes the gap; the cell limit |
| Configuration, schema, seed (`config/config.go`) | all tables | OpenDatabase, seed | the services can work from whatever the seed leaves |
| Server (`src/backend/cmd/server/main.go`) | none | start, graceful shutdown | in-flight handlers end or are cut off |
| Frontend session and stores (`src/frontend/src/stores`, `api/client.ts`) | token and user in `sessionStorage`; lists, selection, evidence, progress bar; requests in flight | login, logout, fetch, select, transition | a click acts on what was shown, once; the progress bar goes away; a refreshing user catches up |
| Frontend pages (`src/frontend/src/pages`) | forms | clicks | a button is there only when its transition is legal for what is shown |

Interactions: plans read areas (status, boundary), runs read plans (locked), gaps
read areas and runs (processed, same area); all four record audit events. They
meet only in the database: no handler calls another service's writes. The browser
calls the handlers over HTTP; every call but the login passes the token check, which
reads the account again, and a role check.

The hard behaviours come from one fact: **no transaction spans a handler**. Each
GORM call commits by itself, so that between two calls of one handler any other
handler may write, a statement may fail, its acknowledgement may be lost, or the
process may die. Each service therefore checks a row it read earlier and relies on
conditional updates and unique indexes to make that check hold; the audit event is
a separate insert after the write. In the browser the hard part is that **no click
waits for the one before**: answers arrive in any order or never, and the versions
that a click sends come from whatever the tab shows at that moment.
`PROJECT.json` lists the hazards at their lines.

## 2. Modules

| Module | Models |
| --- | --- |
| `WorkflowStates` | the state graphs of runs and gaps and the other enumerations |
| `VersionedLifecycle` | abstract: a row is made once per key at version 1; each step moves one row one edge and one version; key and body never change |
| `AuditTrail` | abstract: each write is recorded, still owed by its handler, or cut off, and stays recorded or cut off |
| `SonarRunService` | Import and Transition of runs |
| `CoverageGapService` | Detect and Transition of gaps |
| `EditableRows` | abstract: rows whose body is replaced, one version each time, until they freeze |
| `SurveyAreaService` | Create and Update of areas; "archived" freezes |
| `TransectPlanService` | Create, Generate, Update, Lock, Copy of plans; "locked" freezes |
| `SurveyPlanning` | the area and plan services composed over one `survey_areas` table |
| `RateLimiter` | the windows of clients, their pruning, a clock read before the lock |
| `RunsPage` | one browser tab on the runs page: session, run store, requests in flight, over the login, the token check and the run handlers |
| `CoverageGrid` | the lines of a generated plan, the cells of `CalculateCoverage` one by one, the recommended line |
| `SonarRunService_proofs`, `CoverageGapService_proofs`, `TransectPlanService_proofs`, `RateLimiter_proofs`, `RunsPage_proofs`, `CoverageGrid_proofs` | the theorems about these modules |
| `SurveyPlanning_proofs` | the theorems about the area service, and about its composition with the plan service |
| `MC*` | constants for TLC |

How a service module corresponds to its code:

- A *slot* is a handler goroutine. `pc[s]` names the database call it makes next;
  each call is one action, and the pure code up to the next call belongs to it.
  `request`, `subject`, `before`, `after` are the handler's local variables.
- A table is a function from the ids in use to rows. Ids are taken in any order.
- Columns that no property tells apart are merged (`Content`, `Lines`, `Source`)
  or left out. A check of the code on such data is a constant: which sources parse,
  which contents pass `validateAreaGeometry`, which grids `CalculateCoverage` can
  compute, which lines `Generate` draws. Text is kept as a length where a column
  width bites (`explanation`, `name`), since PostgreSQL refuses longer values.
- `DatabaseError` fails any call with no effect; the `...Unacknowledged` actions
  commit a write and lose its acknowledgement; `Crash` ends all handlers. In each
  case the handler's reply is 500 or never comes.
- `acked`, `lost` and `first`, and the field `wrote` of an audit event, are history:
  no guard reads them. So is `grants` in `RateLimiter`: for each admitted request
  the client, the start of the window, the place in it and the tick.
- The other services appear as environment steps (`PlanStep`, `AreaStep`,
  `RunStep`) that may happen between any two calls. `SurveyPlanning` replaces
  `AreaStep` by the real area service and checks that the assumption holds
  (`PlanServiceAssumptionsHold`).
- The initial states are what `seed` (`config/config.go:103`) leaves before the server
  listens. It is on by default and stores an active area, a locked plan and a run that
  is already "processed", all of version 1 and without audit events; with `SEED_DATA`
  off the tables are empty. Its inserts are statements of their own, and the next start
  skips them once there is an area, so that a start which died leaves only the first of
  them. `SeededTables` has all these cases. The seeded run has a literal checksum, which
  an import of the same data would not produce, so `SeedSource` is in no `ImportInput`.
  In the run service the audited versions of a row begin at `FirstWritten`, which is 2
  for the seeded run; the plan and area services have the seeded version in `lost`. In
  `CoverageGapService` no gap is seeded, and `AreaStep` and `RunStep` make the seeded
  area and run, which no event of that module is about. A run of `RunsPage` starts as
  imported or as processed.
- `Generate` has an answer `GEOJSON_INVALID` of its own (`service/transect_plan.go:66`)
  for a stored boundary that does not parse. No boundary that passed the checks of
  Create or Update, or that is seeded, leads there.
- Binding (`dto`) is part of the request sets: a request that it refuses changes
  nothing and has no slot. For this reason `AREA_STATUS_INVALID` never occurs.
- In `RateLimiter` a slot is a request that reads the clock (`Arrive`), waits, and
  passes the critical section in one step (`Enter`). A wait is at most `MaxWait`
  ticks: `sync.Mutex` hands over to a waiter of more than a millisecond, and a window
  is a minute. Without a bound on the wait a request could bring back a window that
  has been pruned.
- `KnownVersions` says that clients send no `expected_version` above the one the
  row had when they sent the request, as the frontend does. The run and gap modules
  do not need it: their conditional updates compare the state as well. The edits of
  areas and plans compare the version only, and their guarantees depend on it: a
  client that sends the version after the lock edits a locked plan (section 4).

How `RunsPage` corresponds to its code:

- A *slot* is one `request` of `api/client.ts` from the call to its continuation.
  Its stages are sent, admitted (past `Auth` and `RBAC`), moved (a transition whose
  update has been made), answered. `open` is false
  once the tab has stopped waiting: the connection failed or the page was reloaded,
  but the server may still carry the request out. Such a request is kept only if it
  is a transition; an abandoned read or login changes nothing.
- `items`, `selected`, `quality` and `loading` are the fields of the run store;
  `session` is the role in the stored token, the same in `sessionStorage` and in the
  auth store. `entitled` is history.
- A server handler is two steps, the token check with its own read of the account
  and then its work on the table. The statements inside that work are those of
  `SonarRunService`. A transition has two steps of it, the update (`ServeTransition`)
  and the row read back for the answer (`ServeMoved`), which may be another operator's
  by then; the statement after the update may fail. The list comes ordered by
  `started_at`, then `id`, both descending (`ListedBefore`), and a fetch without a
  selection selects its first row. All runs have usable navigation here: the
  others can only be rejected.
- `OtherMoves` is an operator elsewhere, `AccountChanges` an administrator on the
  database; the code has no route that changes an account.
- `MaxVersion` bounds how often a run moves, in the guards of `Click` and
  `OtherMoves`; `TypeOK` says that no late request gets a row past it. The number of
  slots bounds the requests in flight.
- Left out: the import dialog, the restore of a session whose user was lost, the
  expiry of a token (eight hours), and the other stores, whose `fetch` is the same line.

How `CoverageGrid` corresponds to its code:

- A length is a whole number of half cells, so that centres of cells are points and
  a comparison is exact: quotients are multiplied out, distances squared. What is
  lost is the rounding of `float64` and the width of `int`.
- `Visit` is one pass through the inner loop; `Detect` and `Report` are what comes
  before and after it. `GeneratePlan` is the loop of the plan service.
- A cut is a straight border between two corners of a boundary, given by the path along
  the boundary from one corner to the other (`there`) and the path back. `Whole` is the
  boundary, `Parts` the two that the border leaves. `Separates` says that the border has
  one path on each side. `CellInOnePart` asks `polygonContains` about the centres of the
  boundary's own grid. It says nothing of two detections: `CalculateCoverage` lays the
  grid of each area from the corner of its own bounding box (`geometry/coverage.go:140`),
  and the counts need not add up. Cut at x = 3, the rectangle of 8 by 6 half cells, which
  has 12 cells, gives two areas for which detections count 3 and 6.
- `Simple` says what a boundary on a map is: its rings are closed, go round a cell at
  most once and always the same way, and its holes are apart and inside. The code checks
  none of this. `Coil`, whose ring goes twice round its middle, is why `AreasAgree` has
  to say it: ray casting leaves the middle out, the shoelace formula counts it twice.
- `DetectPlanned` and `Resurvey` are external: somebody sails along the generated or
  the recommended line, and the detection is asked again with that track.
- Left out: parsing of GeoJSON, `TrackLength`, the MultiLineString of fragments, the
  ratios, which are quotients of the counters.

## 3. Runs

Two slots in flight are enough for the races at hand: each hazard is a step of one
handler between two calls of another, and every handler touches one row. A third
writer between the same two calls is the second one again, through `Collect` and
a new `Submit`.

| Run | Instance | Question |
| --- | --- | --- |
| `sonar_runs` | 2 slots, 2 ids, 2 good sources, one unparsable, one reversed in time, 2 codes, invalid navigation; two moves with versions stale, current or ahead, and rejections; the seeded run may be there, and be superseded | imports are idempotent; conflicts are real; moves are counted exactly; every write is audited, pending or lost; refinement of `VersionedLifecycle`. For an imported run, what follows "quality_checked" but a rejection is left out for size, and left to the theorems |
| `gap_detect` | 2 slots, 2 ids, 2 areas, 2 boundaries, 2 resolutions, 1 run | one gap per inputs; sources stay processed |
| `gap_review` | 2 slots, 1 gap, notes of 8 and 600 characters, column of 1200 | no review or note lost; refinement. The branch "resurveyed" is left out for size |
| `plan_edit` | 2 slots, 1 plan and one more id, versions 1..2, names of 150 and 154; the seeded plan may be there, locked from the start. Lines are generated, and lines that do not parse refused, in `survey_planning` | a locked plan stays as locked; refinement of `EditableRows` |
| `survey_planning` | 2 area slots, 1 plan slot, `MaxInFlight` = 2, 2 area ids, 2 spellings of a code; the seeded area and plan may be there | archived areas stay; the audit log is one history; the plan module's environment is the real area service |
| `rate_limiter` | 2 requests, 2 clients, capacity 1, windows of 2 ticks, waits of 1, 7 points in time | at most two windows' worth in a window's length; refusals are justified. Three windows fit, and entries are pruned (beyond one entry, older than two windows) while the other request waits |
| `browser_client` | 2 requests in flight, 1 run, imported or seeded, versions 1..3, a role that is lost or an account deactivated | a click moves a run from what was shown, and once; a lost role reaches no handler; every refresh ends; a user who refreshes and selects catches up |
| `coverage_grid` | 14 boundaries of up to 6 by 6 cells (slanted, with holes, concave, coiled, degenerate, too large), 23 sets of tracks, 6 headings, 6 line spacings, 5 cuts | the grid agrees with the area; each centre is in one part; the recommended line closes the gap; a plan covers up to its last strip |
| `audit_loss`, `stale_coverage`, `note_overflow`, `stale_selection` | as above | each finds a behaviour that contradicts a document of the repository; see section 4 |

No run checks deadlock away: the system never really stops, since a crash, another
operator or the next request is always possible or a handler has a step left, and a
state without a successor would be reported. Unbounded counters are bounded by the request sets
(a version grows only with a request that expects it), names by `NameLength`,
time by `MaxTime`; the count of a window stands at `MaxCount` > `Capacity`, beyond
which the code does not tell counts apart. With waits of two ticks or more a third
window comes in sight, which is why `BurstBound` reads as it does.

Properties worth a word:

- `AuditLedger`: the versions that were written are exactly those audited, about to
  be audited, or cut off, and no two of these overlap. It fails when any write can
  happen twice, or when an event can name a version it did not write.
- `AuditSnapshots`, `SnapshotsAgree`, `LockAuditStands`: the audit event is put
  together from three statements; these say that it still tells the truth.
- `StageVersion`: a version determines how many moves a run has made since it was
  imported at "imported" or seeded at "processed" (`StageVersions`), so a lost or
  doubled update would show in the table itself.
- `ConflictHonest`: whoever is refused for a conflict finds the row past the version
  that was sent. The exception is a version that the row had not reached when the
  handler read it: a request that guesses 2 for a row of version 1 may be refused on a
  row that is at 2 by then, since the state moved with it.
- `MovesAsShown`: the check of the version, the graph and the role are made on the
  server, minutes after the click was decided on what the tab showed. The property
  relates the two: it fails if any request is carried out twice or on another row
  than was shown, through double clicks, lost connections and reloads.
- `ReselectingCatchesUp` and its negative `RefreshingCatchesUp`: the first needs the
  selection; section 4 shows that refreshing alone is not enough.
- `RecommendationClosesGap`: the swath that `Resurvey` takes is the least that can do
  for the narrow side of the box, so that a line along the wrong side fails. No code
  ties the swath of a run to the gap: with a narrower one a gap may remain.

## 4. Findings

Runs that contradict a document:

- `stale_selection`: `src/README.md` tells the user to refresh and try again after a
  `VERSION_CONFLICT`, but `fetch` keeps the selected row, whose version the buttons
  send; the same refusal comes back until the user selects the row anew.
- `note_overflow`: legal review notes overflow the explanation column (500 on
  PostgreSQL); a gap whose column is full cannot be closed.
- `stale_coverage`: the input hash leaves the boundary out, so a detection after a
  change of the boundary is answered with the old result.
- `audit_loss`: a write whose handler fails before its audit insert is never audited,
  and the idempotent retry does not repair that.

Observations that contradict no document:

- Plan and area edits compare the version only. A plan locked between the check of
  Update and its statement is edited after all if the request carries the version
  that the lock has produced, which no client can have been shown. `KnownVersions`
  keeps this out of `plan_edit` and `survey_planning`.
- Copy looks neither at the plan's state nor at the area: it adds drafts to an
  archived area, which Create refuses.
- Of two racing imports of one source the loser is answered 409, not with the run that
  holds the checksum; a retry gets that run (`ImportIdempotent`).
- A generated plan may leave a strip of up to half a spacing at the far edge; nothing
  else is left open (`PlanCoversToLastStrip`).
- The 401 of an old request also ends a session that was opened after it was sent.
- A boundary whose ring goes round a place twice is accepted, and the two areas that a
  detection works with then differ (`Coil`).

## 5. Proofs

`SonarRunService_proofs` proves for any sets of slots, runs, plans, sources and
codes and any inputs, crashes and faults included:

- `TypeCorrect`: `Spec => []TypeOK`.
- `StageVersionHolds` (for imported runs and the seeded one) and
  `InvalidNavigationHeldBackHolds`: inductive with
  `CheckedMoves`, which says that a slot that is about to update has a `before` state
  from which its target is an edge, with its checks passed. The invariant alone does
  not carry this over the gap between read and update; the WHERE clause on the state
  then links `before` to the row.
- `ImportIdempotentHolds`: inductive with `UniqueChecksums` (no two rows share one),
  `OwnRow` (a slot past its insert owns a row with its request's checksum) and
  `AckedRows`.
- `Refinement`: `Spec => ImplementsLifecycle`. The lemma `TableStep` shows that a step
  leaves the table alone, creates a row or moves one row; each is an abstract step.

`CoverageGapService_proofs` proves for any sets of slots, areas, runs, boundaries and
notes, with the same faults:

- `TypeCorrect`, `SourcesStayProcessedHolds` and `NotesKeptHolds`, from one inductive
  invariant, `Checked`. `GapsStaged` ties the notes of a gap to its state: each move
  leaves one, and every state but "closed" has one number of moves. `MovesChecked`
  says that what a transition has read is an earlier form of its row; a WHERE clause
  that matches the state then meets as many notes as were read, hence the same ones.
  This is why comparing the state suffices where the column of notes is overwritten.
  `SourcesChecked` carries the check of the runs to the insert.
- `DetectIdempotentHolds`: inductive with `UniqueHashes`, `OwnRow` and `AckedRows`.
- `Refinement`: `Spec => ImplementsLifecycle`, again over a `TableStep`.

`TransectPlanService_proofs` proves for any sets of slots, plans, areas and lines:

- `TypeCorrect`, whatever versions clients send.
- `LockStands`, `EditsFollow` and `Refinement` (`Spec => ImplementsEditableRows`) under
  `KnownVersions`. The inductive invariant says of each slot that a version to be edited
  has been `Shown` (the row has reached it), that the row it has read is an earlier form
  of the stored one (`ReadRow`), a draft and not older than the version it names
  (`ReadDraft`). A WHERE clause on the version alone then finds the very draft that was
  read (`MatchedDraft`), so that no step changes a locked plan, and what a lock has
  read back and recorded stays true. Without `KnownVersions` the step from `Shown` to
  `ReadDraft` fails: that is the edit of a locked plan of section 4.

`RunsPage_proofs` proves for any set of runs that has a first one in the order
of the list, any number of requests in flight, and any `MaxVersion`:

- `TypeCorrect`, `RevokedSessionGetsNothingHolds` and `MovesAsShownHolds`, from one
  inductive invariant, `Inv`. Beyond the types it says that every row that is held
  anywhere, in the list, in the selection, in a request or in an answer, is `Known`:
  an older version of its run, or exactly the stored row. `MovesAsShown` follows,
  because the update matches the version and an item of the stored version has the
  stored state. Roles that were handed out are `Past`: still held, or lost for good.
  A request that was admitted was `entitled`, because a token equal to the account at
  the check was equal to it when it was sent; this is where it matters that a lost
  role is not given back.

The audit trail is the same argument for all four services. `AuditTrail` says what a
service promises: one write becomes visible at a time, its handler owes the event until
it records it or is cut off, and what has been recorded or cut off stays so. Its
theorem `LedgerBalances` says that each write is then in exactly one of these three,
and owed by one handler only. Each service refines it (`TrailRefinement`, one lemma per
action: the writes are read off the table, what a handler owes off its `pc`), and with
`UniqueEvents` (two events of one write are the same event) this gives
`AuditLedgerHolds` for the run, gap, plan and area services. The refinement, stated in
each module as `ImplementsAuditTrail`, is proved and part of no run; the runs check
`AuditLedger`, its consequence.

Further results on what clients and the audit log are told:

- `AuditSnapshotsHold` and `ConflictHonestHolds` of the run service come from one
  invariant, `Told`. It says of each slot that the row it has read is the stored one or
  an older version of it (`RowRead`), that what it holds after its update is that write
  or a later one (`WriteHeld`), and that its refusal is still true of the table
  (`Refused`). That a row never goes back, `RowsGrow`, is what carries these over the
  steps of the others.
- `AuditSnapshotsHold` of the gap service: the same on sequences of notes, ordered
  by extension.
- The area service: `TypeCorrect`; `CodesStayUnique`, because the unique index is
  consulted by the very statement that writes; and `SnapshotsTellOneHistory`, from
  `OneHistory`. It collects all rows that are `Told` of an area, by the table, by an
  event or by a handler that will put them in one: two of one version are the same row,
  and none is ahead of the table. A new version is therefore new to all of them, which is
  what keeps the invariant when an update is read back by another statement. None of
  this supposes anything of the clients. `Refinement` (`Spec => ImplementsEditableRows`)
  holds under `KnownVersions`, with `Checked` as for the plans.
- `AssumptionsHold`: the composition of the area and plan services implements the plan
  module's own specification (`PlanServiceAssumptionsHold`), each step of the area
  service being an `AreaStep` or none. The environment that the proofs about
  the plan service suppose is thus proved to be the one it has. The invariant is
  `Typed /\ (KnownVersions => Checked)`, because the archived area that stays archived
  depends on the clients in one as in the other.

`RateLimiter_proofs` proves for every capacity, window, bound on waits up to a window,
and number of requests, with pruning:

- `TypeCorrect`, `RefusalJustifiedHolds` and `BurstBoundHolds`, from `Inv`. It says that
  the windows a client has used do not overlap (`WindowsApart`), that each place of a
  window is given once (`PlacesOnce`), that the entry of a client counts the places of
  its last window (`EntriesCount`), and that a client without an entry has no window
  that a request in flight could still count in (`Forgotten`); this is where the bound on
  waits is needed. A refusal then finds all places of a window given (`Refused`).
  `BurstBound` is a count: what is admitted in a window's length of time lies in windows
  that start in two (three) such lengths, each has room for the start of one
  window, and a window for `Capacity` places, by an injection into them.

`CoverageGrid_proofs` proves for every boundary, all tracks and any limit of cells:

- `TypeCorrect`: the counters are nested and within the limit, and there is a box
  exactly if a cell was counted as uncovered.
- `RecommendationClosesGapHolds`: `GapInBox` says that the centre of every uncovered cell
  that was visited is half a cell inside the box. The recommended line runs along the
  box through its middle (`CellBox`: the sides are whole cells, so the middle is
  exact), and a point beside a line along an axis is as far from it as their other
  coordinates differ (`BesideX`, `BesideY`, from the formula with the clamped
  projection). So the new track covers all that was left (`Closed`), and a box that has
  an uncovered cell at its edge (`BoxTight`) cannot come up again.
- `PlanCoversToLastStripHolds`: by `NumberOfLines` the loop stops at the first line at
  or beyond the far edge, so that the last line is within a spacing of it; by
  `NearestLine` a centre that is up to half a spacing beyond the last line is within
  half a spacing of some line. With `BoxTight` the box begins beyond that strip.
- `CellInOnePartHolds`, for every straight border between two corners of a boundary. A
  closed ring has an even number of edges across any height (`AcrossEven`, by a bijection
  between the edges that start above it and those that end above it), so that the edges
  right of a centre have the parity of those left of it (`Parity`). A ring on one side of
  a line has nothing of the other side inside (`InLeftRing`, `InRightRing`). The crossings
  of the two parts are those of the boundary and twice those of the border
  (`JoinedCrossed`), because an edge is crossed from either end alike (`EdgeReversed`):
  this is what the half-open comparison of `EdgeCrosses` is for, also for a centre on the
  border.
- `AreasAgreeHolds`, a discrete Green's theorem. The term of an edge in the shoelace
  formula is 8 for each cell on its left, signed, up to a rest that the next edge gives
  back (`EdgeTerm`, from the `Block` of cells beside it), so that the area of a ring
  counts pairs of an edge and a cell (`RingSum`). Counted cell by cell, the same pairs
  give the winding of each cell (`ByColumns`), and that is odd exactly where ray casting
  says inside (`CellWinding`). A hole takes all of its cells away (`HoleTaken`), and
  `Counted` says that the loop counts its cells one by one. `RingAreaSum` and `AreaLess`
  unfold the recursive functions of the formulas.

The library's induction theorems take an operator as a parameter, which the installed
provers cannot instantiate. Where a proof chooses a least element (bounding boxes, the
number of lines) it uses the well-founded order of inclusion on finite sets instead
(`MinimalSet`, `HasLeast`); where it goes along a ring or through the grid, `Reaches`,
which follows from them: an induction over a set of numbers in an interval.

Each invariant was checked by TLC before it was proved. Assumptions are those declared
in the modules, and TLC evaluates them: the inputs are requests, `NoRun` is no id and
`NoAreaRow` no row, a list of runs has a first one (it is finite and not empty), the
seeded rows have values of the columns' sets and `SeedSource` is not imported, the bound
on versions is positive, a wait is no longer than a window, polygons are sequences of
rings of points with at least one ring, tracks have lines and a swath, a border joins
the ends of its two paths and lies between them, spacings are even and positive.

Only model-checked, with the reason:

- `RefreshEnds` and `ReselectingCatchesUp` are liveness under fairness, out of the
  prover's reach.
- What the violation runs contradict (section 4) is shown by a behaviour.

Fairness is assumed in `RunsPage` only (`FairSpec`): weak fairness, for each slot, of
`GoesOn`, which says that a request the tab waits for takes a step of the server, or its
answer arrives, or its connection fails. The code of the backend alone does not justify
more: the write timeout (`src/backend/cmd/server/main.go:52`) lets the write of a late
response fail but ends no handler, and the database calls have no deadline. A request
that hangs is given up by nginx (`src/frontend/nginx.conf:8`, which leaves
`proxy_read_timeout` at its default of 60 seconds) with an error answer, or by the
browser, and either way the promise in the tab is settled and its continuation runs.
Nothing is assumed of a handler that nobody waits for, of the user, of other operators,
of the administrator or of the quality of the connection. That the user refreshes and
selects again and again is a premise of `ReselectingCatchesUp` itself. The other
specifications are safety specifications: what their code promises eventually is that a
handler that is not cut off replies.

## 6. Plan

1. Done: all modules of section 2, and theorems for every property of the passing runs
   but the two named in section 5.
2. To strengthen: a spacing that is not even, and swaths that are not whole, in
   `CoverageGrid`; the length of the explanation in `CoverageGapService` as a theorem
   about notes of bounded length.
3. The remaining routes behind the token check and the rate limiter in the order of
   `router/router.go`: the same check with other roles.

Not modelled:

- Error mapping, request ids, panic recovery: pure functions of one request.
- Configuration, migration and the seeded accounts: start-up only. What the seed leaves
  in the other tables, also when it is cut short, is in the initial states (section 2).
- Parsing of JSON and GeoJSON, `SeverityForRatio`, the list and detail reads of the
  services, which change nothing (List and Quality appear as answers in `RunsPage`).
- The count of uncovered fragments in a detection, the rounding of `float64`, and the
  64-bit product of columns and rows.
- The other pages and stores of the frontend, which have the same `fetch` and
  transition, and the expiry of tokens.
