# TLA+ models of iprange

iprange is two programs in one repository: a command line tool in C that does set
algebra on IP ranges (`src/src`), and a v4 database engine in Rust (`src/v4/rust`, with
a Go port in `src/v4/go`) that keeps such sets in a single memory-mapped file that one
writer changes while readers of several processes use it. This directory models the
concurrent and crash-sensitive core of both: the live database with its readers, writers,
crashes and failing system calls, and the DNS thread pool of the command line tool.

Paths below are relative to `src/v4/rust/iprange-livedb/src/` unless they begin with
`src/`.

## 1. The system

### Parts, their state and operations

| Part | State | Operations | What is hard about it |
|---|---|---|---|
| Live writer (`live_writer.rs`, `live_writer/`, `writer_core/`) | mapping, base generation, draft, health, lease | open, mutate, abort, commit, reclaim, close | many early returns, each under a gate; a failed abort after a failed commit; a mapping made before the gate |
| Live reader (`reader_core/live.rs`) | mapping, slot | open, read, resumable close | registration races with reclamation |
| Reader table and gate (`live_sidecar.rs`, `live_lock.rs`) | slots, byte-range locks | claim, clear, scan, writer lease | locks vanish with a process, bytes do not |
| Meta pages (`bootstrap.rs`, `contract.rs`) | two pages | select, encode, resolve an attempt | torn pages, equal and consecutive pairs |
| Draft page accounting (`draft_store.rs`, `retirement.rs`) | trees, free bitmap, retirement groups, private stack | allocate, copy, discard, retire, reclaim, prepare | a page has one owner through any history |
| Commit resolution (`commit_resolution.rs`) | an attempt's identity | resolve | late questions about unknown outcomes |
| Mapping (`mapping.rs`) | length, view | grow, shrink or retain, sync | files that cannot shrink |
| Live lifecycle (`live_lifecycle/`) | file and sidecar names, readiness | create, initialize, reset coordination | crash residues between six steps in two files |
| Immutable publication (`publication/`) | reservation, temporary and final names | reserve, arm, exchange, retire, resolve | crashes, competing publishers |
| Range mutation, fixed tree, bitmaps (`range_mutation/`, `fixed_tree/`, `free_bitmap.rs`, `used_bitmap.rs`) | ordered trees | assign, clear, coverage, insert, delete | boundaries, splits, trees that allocate from themselves |
| Feeds, memberships, structured values (`feed_catalog.rs`, `membership_delta.rs`, ...) | dictionaries with reference counts | intern, release, delta merge | counts reaching zero too early or never |
| History, timestamp and import merges (`draft_store/`) | cursors on ordered ranges | merge | boundaries, resumption |
| Recovery and validation (`recovery/`, `validation/`) | none | classify, salvage, check | formats |
| Worker processes (`worker/`) | child, control block | request, answer, cancel | death of the child |
| C ABI (`src/v4/rust/iprange-capi`), Go port (`src/v4/go`) | handles | wrappers; the same protocol | - |
| DNS pool (`src/src/ipset_dns.c`, twin `ipset6_dns.c`) | request stack, reply list, counters, threads | request, resolve, retry, done, reset | two mutexes, one condition variable, retries |
| C set algebra (`src/src/ipset_*.c`, `ipset6_*.c`) | sorted arrays | optimize, common, exclude, combine, merge, diff, reduce, print | wrap at the last address |

### How the parts interact

A live database is a main file and a `.readers` sidecar. Bytes of the sidecar are locked,
not written, to coordinate: the *gate* (exclusive for open, commit, reclaim, writer close
and resolution, shared for a reader's close), the writer *lease*, and one byte per reader
slot. The slot's contents are the transaction that the reader has mapped. A commit writes
data pages into the shared mapping outside the gate, then, under the gate, syncs them,
writes the meta page that is not selected and syncs again. Pages that a draft removes from
the trees are *retired* with the draft's transaction; `reclaim` turns a retired group into
free bits when no registered reader is older than it. Locks disappear with their process,
and so every opener must be able to continue from whatever a dead one left: slot bytes
without a lock, a tail behind the committed pages, a half-written meta page.

The command line tool's main thread loads files one after the other; hostnames go to a
stack from which worker threads resolve, and at the end of each file the main thread waits
until no request is pending and moves the replies into the file's set.

## 2. Modules

| Module | Models | Used by |
|---|---|---|
| `PageLedger` | page accounts of a generation and a draft, as operators | `CowStore`, `LiveDb` |
| `MetaSelect` | validity and selection of meta pages, attempt resolution, as operators | `LiveDb` |
| `LiveDb` | file, locks, reader table, readers, writers, faults | `MCLiveDb`, `LiveDbCow` |
| `CowStore` | abstract specification: what the store promises to readers | `MCCowStore`, `LiveDbCow`, proofs |
| `LiveDbCow` | refinement mapping from `LiveDb` to `CowStore` | run `live_cow` |
| `CowStoreProofs` | TLAPS proofs about `CowStore` | - |
| `DnsPool` | request stack, replies, main thread, workers | `MCDnsPool`, proofs |
| `DnsPoolProofs` | TLAPS proofs about `DnsPool` | - |
| `MCLiveDb`, `MCCowStore`, `MCDnsPool` | instances for TLC | runs |

### PageLedger and MetaSelect

A *generation* is what one meta page describes: transaction, nonce, page count, the pages
of its trees (`tree[p]` is the nonce of the transaction that wrote `p`, and stands for the
contents), the free bits and the retired pages. A *draft* has in addition the private
stack. `AddPage`, `CopyPage`, `RemovePage` are the three things the tree code does to
pages: which of them it does, and where, depends on keys and values and is left open, so
a mutation is any sequence of them. `Allocatable` keeps the order of
`DraftStore::allocate` (private stack, lowest free bit, tail); `SelectReclamation` keeps
the order and both limits of `select_reclamation`.

`MetaSelect` follows `bootstrap.rs`: a page that fails its checksum is `Torn`, two valid
pages must be equal or consecutive with the higher on the page of its parity, live openers
and writers need both pages (`ProvenPage`), other openers accept one (`BestPage`).

### LiveDb

| Variable | Code |
|---|---|
| `mem`, `disk` | the main file in the page cache, and what of it is synced |
| `gateX`, `gateS`, `wlock`, `slotLock` | byte-range locks of the sidecar |
| `slotTxn` | contents of the slots |
| `rd`, `wr` | `LiveReader` and `LiveWriter` handles; `pc` is the place in the handler |
| `nonces`, `acked`, `verdict` | attempts so far, the last commit reported, what callers were told of each attempt |

Actions of a reader: `RSelect`, `RClaim`, `ROpenFails` (open); `RCloseGate`, `RClearSlot`,
`RUnlockSlot`, `RUnlockGate`, `RCloseFails`, `RCloseStuck` (close). Of a writer: `WMap`, `WSelect`,
`WClaim`, `WOpenFails` (open); `WEdit`, `WAbort` (mutations); `WPrepare`, `WCheck`,
`WSyncData`, `WStartMeta`, `WWriteMeta`, `WSyncMeta`, `WCommitFails`, `WFailPublish`
(commit); `WReclaim`, `WPrepareReclaim` (reclaim, which goes on as a commit);
`WCloseLocked`, `WCloseLease`, `WCloseEnd`, `WCloseFails`, `WCloseStuck` (close);
`Resolve`, `ResolveFails` (`resolve_commit`). A handler is cut wherever another process could see a change, or where
dying makes a difference. `RKill`, `WKill` and `PowerLoss` are the crashes.

The constant `Faults` selects what may go wrong: `kill` (a process dies), `power` (every
page that is not synced is old or new, and a meta page may be torn), `error` (a system
call fails, or a cancellation is seen), `retain` (the file cannot shrink because somebody
else maps it), `unlock` (the gate, the lease or a reader's own slot cannot be unlocked). A
call that returns with the gate held, because a step of a close failed under it or because
the gate itself could not be unlocked, sets `kept` in its handle: the caller has been told
to close the handle again (`RetainedReaderCloseRequired` and its writer counterpart), and
the handle resumes where it stopped. An abort may fail before it cuts the file, after the
cut or after its sync; `resolve_commit` may fail or die before its sync, after it, or while
it cuts the tail, and keeps its answer when only the cut fails.

Assumptions about the world: a sync that succeeds makes everything written before it
durable, also what an earlier, failed sync did not; locks are dropped when their process
dies; a page of data is written by one transaction as a whole (its checksum is not used to
select a generation). With `ResolveFirst` callers obey the contract of `OutcomeUnknown`
and resolve an attempt before they open for writing again; the program does not enforce it.

### CowStore

The same pages without locks, slots and calls. Its draft may take *any* page that is free
in its own accounts and reclaim *any* group that is safe, so what holds here does not
depend on the order in which `DraftStore` prefers pages. `LiveDbCow` maps the current
generation to the best meta page, the draft to the draft of the lease holder, and the held
generations to what the readers have mapped.

### DnsPool

`requests` is the stack `dns_requests`; `pending`, `made`, `failed` are the counters that
decide something; `replies` the list `dns_replies`; `sets` the ipsets. Each critical
section of one of the two mutexes is one action, and so is each `pthread_cond_signal`.
`getaddrinfo` may return any set of addresses, `EAI_AGAIN` or another error; memory for a
request and thread creation may fail; `pthread_cond_wait` may return spuriously. A request
is named by its hostname, and a name that occurs twice is two elements of `Hosts`. The
counters that only the progress output reads are left out.

## 3. What is checked

Every run is `tlc -config <cfg> <module>`; the numbers are distinct states.

| Run | Configuration | Properties | What it asks |
|---|---|---|---|
| `live_kill` | `MCLiveDb_kill` | `TypeOK`, `ReadersIntact`, `CommittedSurvives` | one reader and two competing writers that die anywhere (763,000 states) |
| `live_writers` | `MCLiveDb_writers` | `BaseStaysSelected`, `PublishesInOrder` | two writers that compete for the lease, fail and die (442,000) |
| `live_readers` | `MCLiveDb_readers` | `ReadersIntact`, `ScanNeverCorrupt`, `ReadersStayRegistered` | two readers that open, close and die around one writer (1,310,000) |
| `live_error` | `MCLiveDb_error` | `ReadersIntact`, `NotCommittedIsFinal`, `AlwaysOpenable` | system calls fail, locks cannot be released, the file cannot shrink (863,000) |
| `live_power` | `MCLiveDb_power` | `CommittedSurvives`, `NotCommittedIsFinal` | power fails anywhere and calls fail; callers resolve unknown outcomes (280,000) |
| `live_gate` | `MCLiveDb_gate` | `GateReleased` | with failing calls and failing unlocks, a call releases the gate or returns a handle that says it is kept (111,000) |
| `live_cow` | `LiveDbCow` | `ImplementsCowStore` | `LiveDb` implements `CowStore` (122,000) |
| `cow` | `MCCowStore` | `HeldIntact`, `PagesAccounted`, `IInv` | the abstract store, and the invariant of the proofs (262,000) |
| `dns_pool` | `MCDnsPool` | `PendingCounts`, `Quiet`, `OwnAddresses`, `AllResolved`, `PoolInv` | the DNS pool, and the invariant of the proofs (65,000) |
| `dns_live` | `MCDnsPool_live` | `LoadsEnd` | `dns_done` returns (219,000) |
| `live_stalemap` | `MCLiveDb_stalemap` | `HealthyWriterMapsBase` | violated, see below |
| `live_killpower` | `MCLiveDb_killpower` | `CommittedSurvives` | violated, see below |

What the properties say:

- `ReadersIntact`: while a reader is open, no page of its generation is changed, reused or
  cut off.
- `CommittedSurvives`: an opener finds what was last reported as committed, or a
  descendant, with all its pages.
- `PublishesInOrder`: the selected generation goes from T to T+1 and never otherwise.
- `BaseStaysSelected`: an open writer's base is the selected generation.
- `ScanNeverCorrupt`, `ReadersStayRegistered`: the reader table never makes a scan report
  corruption, and never loses a living reader.
- `NotCommittedIsFinal`: an attempt reported as not committed is on no meta page, cached
  or durable.
- `AlwaysOpenable`: failed calls never leave a file that live openers refuse.
- `GateReleased`: whoever has the gate, exclusive or shared, releases it or returns to a
  caller that is told to close the handle again. Handles in that state are excluded from
  the claim: they lock everybody else out until they are closed again or their process
  exits, which nothing in the program forces.
- `HeldIntact`, `PagesAccounted`: the same promise to readers in the abstract store, and
  the partition of the pages into used, free and retired.
- `PendingCounts`, `Quiet`: the counter that `dns_done` waits for is exact, and when it is
  done waiting nothing is under way. `PendingCounts` holds of an aborted load too (a failed
  allocation or thread creation), up to the point where it resets the counters under
  running workers and the program exits; `Quiet` leaves aborted loads out.
- `OwnAddresses`, `AllResolved`: no address goes to the wrong file, and no hostname is
  silently missing.

### Bounds

`LiveDb`: `MaxTxn` is 4, so that a page can be written by transaction 2, retired by 3,
reclaimed and reused in 4 while readers hold 2 or 3. `MaxNonce` is 3, so that one attempt
can fail or be lost and two others commit, or all three commit. `MaxGrowth` is 1 page per
draft, which makes a draft that needs a second page fail for its budget. One or two slots
make the table full with one or two readers; two readers with one slot occur in
`live_error`. `MaxReclaim` is 2, so both limits of `reclaim` bind and do not bind.
`live_gate` has one reader and one writer and callers that resolve, because liveness is
checked without symmetry; that a second writer is refused (`WriterBusy`) leaves the gate on
the same path as the other failures of an open. `live_writers` identifies
states that differ only in `disk` (`VIEW WithoutDisk`): only a power loss and
`NotCommittedIsFinal` read it, and the run has neither. Running into
a bound stops the writers, which is why deadlock is not checked in these runs; the DNS runs
end when the files are loaded.

`CowStore`: three pages, two readers, four transactions and four drafts.

`DnsPool`: two files (two hostnames and one), two threads, one retry, two addresses. Two
hostnames are needed for a thread to retry one while the other waits, two files to see
late replies go to the wrong set.

### Fairness

`LiveSpec` is weak fairness of what a process does while it holds the gate: system calls
return and the process is scheduled. Nothing is assumed of callers (they may never commit
or close) nor of who gets the gate. The page edits of a reclamation come to an end.
A handle that was returned with the gate kept is the caller's again, so no fairness is
assumed of it; a repeated close is fair from where it resumes until it returns.

`FairSpec` of `DnsPool` is weak fairness of the main thread and of each worker: the
scheduler runs every runnable thread, and `getaddrinfo` returns. A blocked worker is not
runnable; spurious wake-ups are possible but not assumed.

### Two disagreements with the documentation

`live_stalemap`. A writer maps the file in `open_main`, before it has the gate, and selects
the generation again under the gate. `trim_committed_tail` (`writer_core/open.rs`) changes
the mapping only when there is a tail to cut. When another writer commits a larger
generation and closes in between, the open succeeds with pages of the base outside the
mapping, while the comment on the writer (`writer_core.rs:77`) says "Mapped committed
generation plus at most one unpublished COW draft." The consequence in the model is an edit
that fails and aborts; the abort maps the base again, and no reader is affected.

`live_killpower`. A writer dies after it wrote a meta page and before the sync. The next
writer opens on that generation without syncing it. If it calls `reclaim`, pages that the
unsynced generation retired are freed, and the same reclamation draft may reuse them for
its own pages before its first sync. If the power fails then, the last durable generation
is selected and some of its pages are overwritten. The format specification
(`src/.agents/sow/specs/binary-format-v4.md:1503`) says: "Merely rereading an exact meta
from the operating-system page cache does not prove crash durability; the resolution
synchronization is mandatory." Kills without a power loss (`live_kill`) and power losses
with callers that resolve (`live_power`) are fine.

## 4. What is proved

`CowStoreProofs`, from `CowStoreAssumption` (page numbers are naturals above 1, the bounds
are naturals), for every set of readers and pages:

- `CowStoreInvariant`: `Spec => []IInv`;
- `ReadersProtected`: `Spec => []HeldIntact`;
- `PartitionKept`: `Spec => []PagesAccounted`.

`HeldIntact` is not inductive: it says nothing of the pages a draft may take next. `IInv`
adds, for the current generation and for the draft, that their accounts partition the
pages (`AccountsOf`), and that they *keep* every held generation: each page of it is in
their trees unchanged or retired later than that generation (`Keeps`). A page that is free
or on the private stack is then in no held generation, so writing it is harmless
(`SpareIsFree`, `WriteKeepsIntact`), and a group that is safe to reclaim contains no page
of a held generation (`ReclaimKeepsDraft`). Nonces below the draft's (`Below`) tell a
committed page from one of the draft, so that a private page is never one that a reader
needs. There is one lemma per page operation and one per action.

`DnsPoolProofs`, from `DnsPoolAssumption` (files are sequences of requests, threads are
finitely many, retries are a natural number):

- `PoolInvariant`: `Spec => []PoolInv`;
- `PendingExact`: `Spec => []PendingCounts`;
- `PoolQuiet`: `Spec => []Quiet`.

`PoolInv` adds to the counter that a worker holds a request exactly while it resolves or
replies, that replies imply requests made, and that past the waiting loop the counter is
zero; a request that no thread can have taken is still on the stack, which is why taking it
back after a failed thread creation removes the right one.

The constants `MaxTxn`, `MaxNonce` and `Tries` are unconstrained naturals in these
theorems, so the bounds do not limit them.

Only model-checked: everything about `LiveDb`, including that it implements `CowStore`
(so the theorems reach the program's protocol through the run `live_cow` on its small
instance); `OwnAddresses` and `AllResolved`; and the liveness properties, which are out of
the prover's reach.

## 5. What is not modelled

Of the modelled parts: what is inside data pages and which page operations a mutation
performs; the pages of the free bitmap and of the retirement tree, the allocator reserve
and the private-page budget; metadata and workflow staging in the writer; identities of
files and directories (a file is never replaced under a process here); the lifetime lock of
the main file; an unlock that fails on another reader's slot in the middle of a scan or a
claim; the immutable mode of `resolve_commit`. Of the DNS pool: the IPv6 twin,
which has the same control.

Other parts are listed in the table of section 1; the next section says which are planned.
Recovery, validation, the C ABI, option parsing and output are sequential code whose
difficulty is in formats and not in control. The Go engine follows the same protocol and is
not mapped separately.

## 6. Plan

In this order, most important first:

1. `LiveLifecycle`: `create_live`, `initialize_live`, `reset_live_coordination` with crashes
   between their steps; every residue is refused or completed, a ready pair is never
   replaced under an open handle. Composed with the openers of `LiveDb`.
2. `Publication`: reservation, arming, exchange, retirement and resolution of immutable
   files with two publishers and crashes; abstract specification: a name holds the old or
   the new file, and a resolver's verdict is final.
3. `DraftStore`: bitmap, retirement tree and reserve pages told apart, private budgets;
   shown to implement `PageLedger`'s accounts.
4. `IpsetOps`: optimize, common, exclude, combine, diff, reduce and the CIDR decomposition
   on addresses of a small width, against sets of addresses.
5. `RangeAssign` and the fixed tree as pure algorithms; then the history and import merges.
6. `Membership`: dictionary entries, reference counts and deferred deltas; the used bitmap
   and the feed catalogue.
7. `Worker`: request, answer, cancellation and death of the child.
8. Proofs: `LiveDb` implements `CowStore` for every instance; the reader-table invariants
   (`ScanNeverCorrupt`, `ReadersStayRegistered`); the safety of `LiveLifecycle` and
   `Publication`.
