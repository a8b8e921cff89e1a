------------------------------- MODULE LiveDb -------------------------------
(***************************************************************************)
(* One live v4 database: the mapped main file with its two meta pages, the *)
(* reader table (".readers" sidecar) with its byte-range locks, the live   *)
(* readers and the processes that open it for writing, and what kills      *)
(* them.  The code is live_writer.rs, live_writer/, writer_core.rs,        *)
(* writer_core/, reader_core/live.rs, live_sidecar.rs, mapping.rs and      *)
(* commit_resolution.rs of iprange-livedb.                                 *)
(*                                                                         *)
(* A lock acquisition and the code that runs under it up to the next       *)
(* change another process could see are one step: a process that dies in   *)
(* between leaves what it found, because the system drops its locks.       *)
(***************************************************************************)
EXTENDS PageLedger, MetaSelect

CONSTANTS Readers,      \* reader handles
          Writers,      \* processes that open the database for writing
          Slots,        \* slots of the reader table, an interval of Nat
          MaxTxn,       \* bound: last transaction number
          MaxNonce,     \* bound: number of transactions ever started
          MaxGrowth,    \* max_file_growth_pages of every writer
          MaxReclaim,   \* max_pages of every reclaim call
          ResolveFirst, \* callers resolve an unknown outcome before they reopen
          Faults,       \* subset of FaultKinds that may happen
          None          \* no process, no draft, no generation

\* "kill": a process dies; "power": the machine does; "error": a system call
\* fails or the caller's cancellation is seen; "retain": a mapped view of
\* another process keeps the file from shrinking (Windows); "unlock": the
\* gate, the lease or a reader's own slot cannot be unlocked.
FaultKinds == {"kill", "power", "error", "retain", "unlock"}

ASSUME LiveDbAssumption ==
    /\ Slots \subseteq Nat
    /\ MaxTxn \in Nat \ {0}
    /\ MaxNonce \in Nat
    /\ MaxGrowth \in Nat
    /\ MaxReclaim \in Nat \ {0}
    /\ ResolveFirst \in BOOLEAN
    /\ Faults \subseteq FaultKinds

\* Named bound: no page number above this is ever allocated.
LastPage == 1 + MaxGrowth * (MaxTxn - 1)
Pages == 2 .. LastPage

VARIABLES
    mem,        \* the main file as every process maps it (the page cache)
    disk,       \* the main file as it is after a power failure, at worst
    gateX,      \* holder of the exclusive gate lock, or None
    gateS,      \* holders of the shared gate lock
    wlock,      \* holder of the writer lease, or None
    slotLock,   \* slot -> reader that holds its lock, or None
    slotTxn,    \* slot -> recorded transaction, 0 when clear
    rd,         \* reader handles
    wr,         \* writer handles
    nonces,     \* number of nonces drawn so far
    acked,      \* the newest commit reported as Committed
    verdict     \* nonce -> what the caller was told of that attempt

vars == <<mem, disk, gateX, gateS, wlock, slotLock, slotTxn, rd, wr,
          nonces, acked, verdict>>

-----------------------------------------------------------------------------
\* write_empty: two identical meta pages of transaction 1 and no data page.
EmptyGen == [txn |-> 1, nonce |-> 0, count |-> 2, tree |-> <<>>,
             free |-> {}, ret |-> <<>>]

\* kept: the last call on the handle returned with the gate still locked and
\* told its caller to close again (RetainedReaderCloseRequired,
\* RetainedWriterCloseRequired, or the failed unlock as the error).
ClosedReader == [pc |-> "closed", gen |-> None, slot |-> None, kept |-> FALSE]
ClosedWriter == [pc |-> "closed", base |-> None, page |-> 0, map |-> 0,
                 draft |-> None, kept |-> FALSE]

EmptyFile == [meta |-> [i \in {0, 1} |-> EmptyGen],
              page |-> [p \in Pages |-> 0], len |-> 2]

Init == /\ mem = EmptyFile
        /\ disk = EmptyFile
        /\ gateX = None
        /\ gateS = {}
        /\ wlock = None
        /\ slotLock = [s \in Slots |-> None]
        /\ slotTxn = [s \in Slots |-> 0]
        /\ rd = [r \in Readers |-> ClosedReader]
        /\ wr = [w \in Writers |-> ClosedWriter]
        /\ nonces = 0
        /\ acked = [txn |-> 1, nonce |-> 0]
        /\ verdict = <<>>

-----------------------------------------------------------------------------
\* The gate and the reader table.

\* F_OFD_SETLK semantics: an exclusive lock excludes every other holder.
GateFree == gateX = None /\ gateS = {}
GateReachable(p) == GateFree \/ gateX = p

\* The generation that a Writer- or LiveReader-mode bootstrap selects.
Proven == ProvenPage(mem.meta, mem.len)
BaseUnchanged(w) == \E i \in Proven : mem.meta[i] = wr[w].base

\* Faulty variant: the scan does not try the slot's lock first.
ScannedWithoutLock == [s \in Slots |-> 0]

\* scan_readers: a slot whose lock is available is cleared; a slot whose lock
\* is held must hold a transaction that is not newer than the selected one.
ScannedSlots == [s \in Slots |-> IF slotLock[s] = None THEN 0 ELSE slotTxn[s]]
ScanOk(txn) ==
    \A s \in Slots : slotLock[s] # None => slotTxn[s] \in 1 .. txn

\* A call that fails under the gate may have scanned the table before.
MayHaveScanned(w) ==
    slotTxn' \in {slotTxn} \cup {ts \in {ScannedSlots} : GateReachable(w)}

\* Faulty variant: the scan starts at the second slot.
ActiveTxnsLate == {slotTxn[s] : s \in {t \in Slots \ {0} : slotLock[t] # None}}

\* oldest_reader: the transactions that registered readers hold.
ActiveTxns == {slotTxn[s] : s \in {t \in Slots : slotLock[t] # None}}

\* set_len to n pages: what lies beyond is lost.
Truncated(f, n) ==
    [f EXCEPT !.len = n,
              !.page = [p \in Pages |-> IF p < n THEN f.page[p] ELSE 0]]

\* Somebody other than w holds a mapping of the main file.
MappedByOther(w) == \/ \E r \in Readers : rd[r].gen # None
                    \/ \E v \in Writers \ {w} : wr[v].map > 0

\* shrink_or_retain: the images the call may leave.
Shrunk(w, n) ==
    {Truncated(mem, n)}
      \cup {f \in {mem} : "retain" \in Faults /\ MappedByOther(w)}

-----------------------------------------------------------------------------
\* Live readers (reader_core/live.rs).

SetReader(r, rec) == rd' = [rd EXCEPT ![r] = rec]

\* open up to the end of select_registered_generation, under the gate.
RSelect(r) ==
    /\ rd[r].pc = "closed"
    /\ GateFree
    /\ \E i \in Proven :
         /\ ScanOk(mem.meta[i].txn)
         /\ SetReader(r, [ClosedReader EXCEPT !.pc = "selected", !.gen = mem.meta[i]])
    /\ gateX' = r
    /\ slotTxn' = ScannedSlots
    /\ UNCHANGED <<mem, disk, gateS, wlock, slotLock, wr, nonces, acked, verdict>>

\* claim_reader_inner: the lowest slot whose lock is available.
FreeSlot(s) == /\ slotLock[s] = None
               /\ \A t \in Slots : t < s => slotLock[t] # None

RClaim(r) ==
    /\ rd[r].pc = "selected"
    /\ \E s \in Slots :
         /\ FreeSlot(s)
         /\ slotLock' = [slotLock EXCEPT ![s] = r]
         /\ slotTxn' = [slotTxn EXCEPT ![s] = rd[r].gen.txn]
         /\ SetReader(r, [rd[r] EXCEPT !.pc = "open", !.slot = s])
    /\ gateX' = None
    /\ UNCHANGED <<mem, disk, gateS, wlock, wr, nonces, acked, verdict>>

\* ReaderCapacityExhausted, or cancellation seen before the claim; or after
\* it, when the dropped handle releases the slot's lock but not its bytes.
ROpenFails(r) ==
    /\ rd[r].pc = "selected"
    /\ \/ /\ (\A s \in Slots : slotLock[s] # None) \/ "error" \in Faults
          /\ UNCHANGED slotTxn
       \/ /\ "error" \in Faults
          /\ \E s \in Slots : /\ FreeSlot(s)
                              /\ slotTxn' = [slotTxn EXCEPT ![s] = rd[r].gen.txn]
    /\ gateX' = None
    /\ SetReader(r, ClosedReader)
    /\ UNCHANGED <<mem, disk, gateS, wlock, slotLock, wr, nonces, acked, verdict>>

\* verify_reader: the slot still names the reader's transaction.
Registered(r) == slotTxn[rd[r].slot] = rd[r].gen.txn

\* Faulty variant: close without the gate.
RCloseNoGate(r) ==
    /\ rd[r].pc \in {"open", "closeOnly"}
    /\ Registered(r)
    /\ SetReader(r, [rd[r] EXCEPT !.pc = "clearing", !.gen = None])
    /\ UNCHANGED <<mem, disk, gateX, gateS, wlock, slotLock, slotTxn, wr, nonces,
                   acked, verdict>>

\* close can get the shared gate, or an earlier call kept it
\* (GateHeldSlotActive).
AtSharedGate(r) == \/ rd[r].pc \in {"open", "closeOnly"} /\ gateX = None
                   \/ rd[r].pc = "active"

\* close, first part: shared gate, verify_registration, unmap.
RCloseGate(r) ==
    /\ AtSharedGate(r)
    /\ Registered(r)
    /\ gateS' = gateS \cup {r}
    /\ SetReader(r, [rd[r] EXCEPT !.pc = "clearing", !.gen = None, !.kept = FALSE])
    /\ UNCHANGED <<mem, disk, gateX, wlock, slotLock, slotTxn, wr, nonces, acked,
                   verdict>>

\* The gate cannot be locked; or the registration cannot be verified and
\* release_gate_after_failure unlocks the gate, or cannot.
RCloseFails(r) ==
    /\ \/ /\ rd[r].pc \in {"open", "closeOnly"} /\ "error" \in Faults
          /\ SetReader(r, [rd[r] EXCEPT !.pc = "closeOnly"])
          /\ UNCHANGED gateS
       \/ /\ AtSharedGate(r) /\ ("error" \in Faults \/ ~ Registered(r))
          /\ \/ /\ SetReader(r, [rd[r] EXCEPT !.pc = "closeOnly", !.kept = FALSE])
                /\ gateS' = gateS \ {r}
             \/ /\ "unlock" \in Faults
                /\ SetReader(r, [rd[r] EXCEPT !.pc = "active", !.kept = TRUE])
                /\ gateS' = gateS \cup {r}
    /\ UNCHANGED <<mem, disk, gateX, wlock, slotLock, slotTxn, wr, nonces, acked,
                   verdict>>

\* The rest of close.  A call that finds kept set is a repeated close, which
\* goes on where the earlier one stopped.
RClearSlot(r) ==
    /\ rd[r].pc = "clearing"
    /\ slotTxn' = [slotTxn EXCEPT ![rd[r].slot] = 0]
    /\ SetReader(r, [rd[r] EXCEPT !.pc = "cleared", !.kept = FALSE])
    /\ UNCHANGED <<mem, disk, gateX, gateS, wlock, slotLock, wr, nonces, acked,
                   verdict>>

RUnlockSlot(r) ==
    /\ rd[r].pc = "cleared"
    /\ slotLock' = [slotLock EXCEPT ![rd[r].slot] = None]
    /\ SetReader(r, [rd[r] EXCEPT !.pc = "released", !.slot = None, !.kept = FALSE])
    /\ UNCHANGED <<mem, disk, gateX, gateS, wlock, slotTxn, wr, nonces, acked,
                   verdict>>

RUnlockGate(r) ==
    /\ rd[r].pc = "released"
    /\ gateS' = gateS \ {r}
    /\ SetReader(r, ClosedReader)
    /\ UNCHANGED <<mem, disk, gateX, wlock, slotLock, slotTxn, wr, nonces, acked,
                   verdict>>

\* clear_reader, unlock_reader or unlock_gate fails: close returns
\* RetainedReaderCloseRequired and keeps the shared gate.
RCloseStuck(r) ==
    /\ \/ rd[r].pc = "clearing" /\ "error" \in Faults
       \/ rd[r].pc \in {"cleared", "released"} /\ "unlock" \in Faults
    /\ SetReader(r, [rd[r] EXCEPT !.kept = TRUE])
    /\ UNCHANGED <<mem, disk, gateX, gateS, wlock, slotLock, slotTxn, wr, nonces,
                   acked, verdict>>

\* The system drops every lock of a dead process; its slot keeps its bytes.
RKill(r) ==
    /\ "kill" \in Faults
    /\ rd[r].pc # "closed"
    /\ gateX' = IF gateX = r THEN None ELSE gateX
    /\ gateS' = gateS \ {r}
    /\ slotLock' = [s \in Slots |-> IF slotLock[s] = r THEN None ELSE slotLock[s]]
    /\ SetReader(r, ClosedReader)
    /\ UNCHANGED <<mem, disk, wlock, slotTxn, wr, nonces, acked, verdict>>

-----------------------------------------------------------------------------
\* Writers: open (live_writer.rs, writer_core/open.rs).

SetWriter(w, rec) == wr' = [wr EXCEPT ![w] = rec]

\* open_main: bootstrap and map without the gate.  With ResolveFirst the
\* callers obey the documented contract of OutcomeUnknown, which the program
\* itself does not enforce.
Unresolved == {n \in DOMAIN verdict : verdict[n].outcome = "OutcomeUnknown"}

WMap(w) ==
    /\ wr[w].pc = "closed"
    /\ ResolveFirst => Unresolved = {}
    /\ \E i \in Proven :
         SetWriter(w, [ClosedWriter EXCEPT
                         !.pc = "mapped", !.base = mem.meta[i], !.page = i,
                         !.map = mem.meta[i].count])
    /\ UNCHANGED <<mem, disk, gateX, gateS, wlock, slotLock, slotTxn, rd, nonces,
                   acked, verdict>>

\* Faulty variant: the generation found before the gate is kept.
WSelectStale(w) ==
    /\ wr[w].pc = "mapped"
    /\ GateFree
    /\ \E i \in Proven : ScanOk(mem.meta[i].txn)
    /\ SetWriter(w, [wr[w] EXCEPT !.pc = "selected"])
    /\ gateX' = w
    /\ slotTxn' = ScannedSlots
    /\ UNCHANGED <<mem, disk, gateS, wlock, slotLock, rd, nonces, acked, verdict>>

\* open_locked up to the claim: the generation is selected again under the
\* gate; the mapping stays as it is.
WSelect(w) ==
    /\ wr[w].pc = "mapped"
    /\ GateFree
    /\ \E i \in Proven :
         /\ ScanOk(mem.meta[i].txn)
         /\ SetWriter(w, [wr[w] EXCEPT !.pc = "selected", !.base = mem.meta[i],
                                       !.page = i])
    /\ gateX' = w
    /\ slotTxn' = ScannedSlots
    /\ UNCHANGED <<mem, disk, gateS, wlock, slotLock, rd, nonces, acked, verdict>>

\* claim_writer, trim_committed_tail (truncate and sync, when there is a tail).
WClaim(w) ==
    /\ wr[w].pc = "selected"
    /\ wlock = None
    /\ IF mem.len # wr[w].base.count
       THEN /\ mem' \in Shrunk(w, wr[w].base.count)
            /\ disk' = mem'
            /\ SetWriter(w, [wr[w] EXCEPT !.pc = "healthy", !.map = wr[w].base.count])
       ELSE /\ SetWriter(w, [wr[w] EXCEPT !.pc = "healthy"])
            /\ UNCHANGED <<mem, disk>>
    /\ wlock' = w
    /\ gateX' = None
    /\ UNCHANGED <<gateS, slotLock, slotTxn, rd, nonces, acked, verdict>>

\* WriterBusy, or a check, a cancellation or the tail's sync fails; the
\* handle is dropped with its locks.
WOpenFails(w) ==
    /\ wr[w].pc \in {"mapped", "selected"}
    /\ \/ /\ "error" \in Faults
          /\ UNCHANGED <<mem, disk>>
       \/ /\ wr[w].pc = "selected" /\ wlock # None
          /\ UNCHANGED <<mem, disk>>
       \/ /\ wr[w].pc = "selected" /\ wlock = None
          /\ "error" \in Faults
          /\ mem.len # wr[w].base.count
          /\ mem' \in Shrunk(w, wr[w].base.count)
          /\ disk' \in {disk, mem'}
       \/ /\ wr[w].pc = "mapped" /\ GateFree
          /\ ~ \E i \in Proven : ScanOk(mem.meta[i].txn)
          /\ UNCHANGED <<mem, disk>>
    /\ gateX' = IF gateX = w THEN None ELSE gateX
    /\ SetWriter(w, ClosedWriter)
    /\ UNCHANGED <<gateS, wlock, slotLock, slotTxn, rd, nonces, acked, verdict>>

-----------------------------------------------------------------------------
\* Writers: the draft (writer_core.rs, draft_store.rs).

\* Faulty variant: an error path returns without releasing the gate.
FinishEarly(w, rec) ==
    /\ SetWriter(w, rec)
    /\ gateX' = IF gateX = w /\ rec.pc # "unusable" THEN None ELSE gateX

\* The end of a handler: the gate is released if it is held.  A writer that
\* cannot release it keeps it and is unusable (apply_commit_unlock).
Finish(w, rec) ==
    \/ /\ SetWriter(w, [rec EXCEPT !.kept = FALSE])
       /\ gateX' = IF gateX = w THEN None ELSE gateX
    \/ /\ "unlock" \in Faults /\ gateX = w
       /\ SetWriter(w, [rec EXCEPT !.pc = "unusable", !.kept = TRUE])
       /\ UNCHANGED gateX

\* discard_unpublished: the base must still be selected; an unpublished tail
\* is cut off and that is synced; the mapping is re-established.  A draft
\* that cannot be discarded stays, and the writer is unusable: the discard
\* fails before the tail is cut, after the cut or after its sync.
Discard(w, pc) ==
    \/ /\ BaseUnchanged(w)
       /\ IF mem.len > wr[w].base.count
          THEN /\ mem' \in Shrunk(w, wr[w].base.count)
               /\ disk' = mem'
          ELSE UNCHANGED <<mem, disk>>
       /\ Finish(w, [wr[w] EXCEPT !.pc = pc, !.draft = None,
                                  !.map = wr[w].base.count])
    \/ /\ ~ BaseUnchanged(w) \/ "error" \in Faults
       /\ \/ UNCHANGED <<mem, disk>>
          \/ /\ BaseUnchanged(w) /\ mem.len > wr[w].base.count
             /\ mem' \in Shrunk(w, wr[w].base.count)
             /\ disk' \in {disk, mem'}
       /\ Finish(w, [wr[w] EXCEPT !.pc = "unusable"])

\* ensure_tail_capacity: the first tail page maps the whole growth budget.
TailCapacity(w) == wr[w].base.count + MaxGrowth
NeedsTail(w, d, q) == q = d.count /\ d.count + 1 > wr[w].map

\* One page operation of a mutation: page q is written, or no page.  A page of
\* the committed generation that lies outside the mapping cannot be reached.
Editing(w) == \/ wr[w].pc = "healthy" /\ wr[w].base.txn < MaxTxn
              \/ wr[w].pc = "reclaiming"
DraftOf(w) == IF wr[w].draft = None THEN NewDraft(wr[w].base, nonces + 1)
              ELSE wr[w].draft

WriteDraft(w, d, q) ==
    LET grow == NeedsTail(w, DraftOf(w), q)
        len == IF grow /\ mem.len < TailCapacity(w) THEN TailCapacity(w) ELSE mem.len
    IN /\ mem' = [mem EXCEPT !.page[q] = d.nonce, !.len = len]
       /\ SetWriter(w, [wr[w] EXCEPT !.draft = d,
                                     !.map = IF grow THEN TailCapacity(w) ELSE @])

WithinBudget(w, q) ==
    LET d == DraftOf(w)
    IN q = d.count => d.count - wr[w].base.count < MaxGrowth
Reachable(w, q) == q < wr[w].map \/ q = DraftOf(w).count

WEdit(w) ==
    /\ Editing(w)
    /\ wr[w].draft = None => nonces < MaxNonce
    /\ LET d == DraftOf(w)
       IN \/ \E q \in Allocatable(d) :
               /\ WithinBudget(w, q) /\ Reachable(w, q)
               /\ \/ WriteDraft(w, AddPage(d, q), q)
                  \/ \E p \in DOMAIN d.tree :
                       /\ ~ IsPrivate(d, p) /\ p < wr[w].map
                       /\ WriteDraft(w, CopyPage(d, p, q), q)
          \/ \E p \in DOMAIN d.tree :
               /\ p < wr[w].map
               /\ SetWriter(w, [wr[w] EXCEPT !.draft = RemovePage(d, p)])
               /\ UNCHANGED mem
    /\ nonces' = IF wr[w].draft = None THEN nonces + 1 ELSE nonces
    /\ UNCHANGED <<disk, gateX, gateS, wlock, slotLock, slotTxn, rd, acked, verdict>>

\* mutate fails (budget, unreachable page, input or I/O error) and aborts the
\* whole draft, or the caller aborts it.
EditCanFail(w) ==
    \/ "error" \in Faults
    \/ \E q \in Allocatable(DraftOf(w)) : ~ WithinBudget(w, q) \/ ~ Reachable(w, q)
    \/ \E p \in DOMAIN DraftOf(w).tree : p >= wr[w].map

WAbort(w) ==
    /\ \/ wr[w].pc = "healthy" /\ (wr[w].draft # None \/ EditCanFail(w))
       \/ wr[w].pc = "reclaiming" /\ EditCanFail(w)
    /\ \/ Discard(w, "healthy")
       \/ "error" \in Faults /\ Discard(w, "unusable")
    /\ UNCHANGED <<gateS, wlock, slotLock, slotTxn, rd, nonces, acked, verdict>>

-----------------------------------------------------------------------------
\* Writers: commit (live_writer/commit.rs, writer_core/publication.rs).

\* prepare, before the gate is taken.
WPrepare(w) ==
    /\ wr[w].pc = "healthy" /\ wr[w].draft # None
    /\ SetWriter(w, [wr[w] EXCEPT !.pc = "prepared",
                                  !.draft = ReleasePrivate(@)])
    /\ UNCHANGED <<mem, disk, gateX, gateS, wlock, slotLock, slotTxn, rd, nonces,
                   acked, verdict>>

\* require_draft_length
DraftFits(w) == wr[w].draft.count <= mem.len /\ wr[w].draft.count <= wr[w].map

PublicationChecks(w) ==
    BaseUnchanged(w) /\ ScanOk(wr[w].base.txn) /\ DraftFits(w)

\* The gate, then prepublication_checks.
WCheck(w) ==
    /\ wr[w].pc = "prepared"
    /\ GateFree
    /\ PublicationChecks(w)
    /\ gateX' = w
    /\ slotTxn' = ScannedSlots
    /\ SetWriter(w, [wr[w] EXCEPT !.pc = "checked"])
    /\ UNCHANGED <<mem, disk, gateS, wlock, slotLock, rd, nonces, acked, verdict>>

\* What the caller learns of an attempt.
Told(d, outcome) == Put(verdict, d.nonce, [txn |-> d.txn, outcome |-> outcome])

\* BeforePublication: the draft is aborted and the attempt is NotCommitted.
\* I/O and corruption errors make the writer unusable (abort_after); a
\* cancellation or a changed base (WrongMode) does not.
CommitCanFail(w) ==
    \/ "error" \in Faults
    \/ wr[w].pc = "prepared" /\ GateFree /\ ~ PublicationChecks(w)
    \/ wr[w].pc = "reclaiming" /\ ~ PublicationChecks(w)
StateAfterFailure(w) ==
    IF "error" \in Faults THEN {"healthy", "unusable"}
    ELSE {IF BaseUnchanged(w) THEN "unusable" ELSE "healthy"}

WCommitFails(w) ==
    /\ wr[w].pc \in {"prepared", "reclaiming", "checked", "synced"}
    /\ CommitCanFail(w)
    /\ \E pc \in StateAfterFailure(w) : Discard(w, pc)
    /\ verdict' = Told(wr[w].draft, "NotCommitted")
    /\ MayHaveScanned(w)
    /\ UNCHANGED <<gateS, wlock, slotLock, rd, nonces, acked>>

\* Faulty variant: the data pages are not synced before the meta page.
WSkipDataSync(w) ==
    /\ wr[w].pc = "checked"
    /\ mem' \in Shrunk(w, wr[w].draft.count)
    /\ SetWriter(w, [wr[w] EXCEPT !.pc = "synced", !.map = wr[w].draft.count])
    /\ UNCHANGED <<disk, gateX, gateS, wlock, slotLock, slotTxn, rd, nonces, acked,
                   verdict>>

\* publish: cut the file to the draft, flush and sync the data pages.
WSyncData(w) ==
    /\ wr[w].pc = "checked"
    /\ mem' \in Shrunk(w, wr[w].draft.count)
    /\ disk' = mem'
    /\ SetWriter(w, [wr[w] EXCEPT !.pc = "synced", !.map = wr[w].draft.count])
    /\ UNCHANGED <<gateX, gateS, wlock, slotLock, slotTxn, rd, nonces, acked, verdict>>

\* Faulty variant: the selected meta page is overwritten.
TargetSelected(w) == wr[w].page

\* encode_mapped clears the target meta page in the shared mapping ...
TargetPage(w) == 1 - wr[w].page

WStartMeta(w) ==
    /\ wr[w].pc = "synced"
    /\ mem' = [mem EXCEPT !.meta[TargetPage(w)] = Torn]
    /\ SetWriter(w, [wr[w] EXCEPT !.pc = "encoding"])
    /\ UNCHANGED <<disk, gateX, gateS, wlock, slotLock, slotTxn, rd, nonces, acked,
                   verdict>>

\* ... and fills it in.
WWriteMeta(w) ==
    /\ wr[w].pc = "encoding"
    /\ mem' = [mem EXCEPT !.meta[TargetPage(w)] = Sealed(wr[w].draft)]
    /\ SetWriter(w, [wr[w] EXCEPT !.pc = "written"])
    /\ UNCHANGED <<disk, gateX, gateS, wlock, slotLock, slotTxn, rd, nonces, acked,
                   verdict>>

\* The meta page is flushed and synced: Committed.
WSyncMeta(w) ==
    /\ wr[w].pc = "written"
    /\ disk' = mem
    /\ Finish(w, [ClosedWriter EXCEPT
                    !.pc = "healthy", !.base = Sealed(wr[w].draft),
                    !.page = TargetPage(w), !.map = wr[w].draft.count])
    /\ acked' = [txn |-> wr[w].draft.txn, nonce |-> wr[w].draft.nonce]
    /\ verdict' = Told(wr[w].draft, "Committed")
    /\ UNCHANGED <<mem, gateS, wlock, slotLock, slotTxn, rd, nonces>>

\* Faulty variant: a failed meta sync counts as not committed.
WFailPublishPlain(w) ==
    /\ "error" \in Faults
    /\ wr[w].pc = "written"
    /\ Finish(w, [wr[w] EXCEPT !.pc = "unknown", !.draft = None])
    /\ verdict' = Told(wr[w].draft, "NotCommitted")
    /\ UNCHANGED <<mem, disk, gateS, wlock, slotLock, slotTxn, rd, nonces, acked>>

\* The flush or the sync of the meta page fails: outcome_unknown.  (page_mut
\* and encode_mapped report errors the same way, but they stay inside the
\* mapping that shrink_or_retain has just made.)
WFailPublish(w) ==
    /\ "error" \in Faults
    /\ wr[w].pc = "written"
    /\ Finish(w, [wr[w] EXCEPT !.pc = "unknown", !.draft = None])
    /\ verdict' = Told(wr[w].draft, "OutcomeUnknown")
    /\ UNCHANGED <<mem, disk, gateS, wlock, slotLock, slotTxn, rd, nonces, acked>>

-----------------------------------------------------------------------------
\* Writers: reclamation (live_writer/reclaim.rs, writer_core/reclaim.rs).

\* Nothing is selected (NoChange), or not even the oldest group fits the limit
\* (WorkLimitTooSmall): the gate is released again.
ReclaimNothing(w) ==
    \/ UNCHANGED <<gateX, wr>>
    \/ /\ "unlock" \in Faults
       /\ gateX' = w
       /\ SetWriter(w, [wr[w] EXCEPT !.pc = "unusable", !.kept = TRUE])

\* reclaim_locked up to the first page write of the draft.
WReclaim(w) ==
    /\ wr[w].pc = "healthy" /\ wr[w].draft = None
    /\ wr[w].base.txn < MaxTxn /\ nonces < MaxNonce
    /\ GateFree
    /\ BaseUnchanged(w) /\ ScanOk(wr[w].base.txn)
    /\ slotTxn' = ScannedSlots
    /\ \E maxTxns, maxPages \in 1 .. MaxReclaim :
         LET chosen == SelectReclamation(wr[w].base.ret, ActiveTxns, maxTxns, maxPages)
         IN \/ /\ chosen = {}
               /\ ReclaimNothing(w) /\ UNCHANGED nonces
            \/ \E t \in chosen :
                 /\ gateX' = w
                 /\ nonces' = nonces + 1
                 /\ SetWriter(w, [wr[w] EXCEPT
                      !.pc = "reclaiming",
                      !.draft = ApplyReclamation(NewDraft(wr[w].base, nonces + 1), t)])
    /\ UNCHANGED <<mem, disk, gateS, wlock, slotLock, rd, acked, verdict>>

\* prepare and the checks, with the gate still held.
WPrepareReclaim(w) ==
    /\ wr[w].pc = "reclaiming"
    /\ PublicationChecks(w)
    /\ SetWriter(w, [wr[w] EXCEPT !.pc = "checked", !.draft = ReleasePrivate(@)])
    /\ UNCHANGED <<mem, disk, gateX, gateS, wlock, slotLock, slotTxn, rd, nonces,
                   acked, verdict>>

-----------------------------------------------------------------------------
\* Writers: close (live_writer/close.rs, writer_core/close.rs).

Open == {"healthy", "unknown", "unusable"}

\* close_locked: cut the tail of whatever is selected now (a draft is synced
\* even when there is nothing to cut), unmap.
TrimToSelected(w) ==
    \E i \in Proven :
        IF mem.len > mem.meta[i].count
        THEN mem' \in Shrunk(w, mem.meta[i].count) /\ disk' = mem'
        ELSE UNCHANGED mem /\ disk' = IF wr[w].draft # None THEN mem ELSE disk

CloseChecks(w) ==
    \E i \in Proven : /\ wr[w].draft # None => mem.meta[i] = wr[w].base
                      /\ ScanOk(mem.meta[i].txn)

WCloseLocked(w) ==
    /\ wr[w].pc \in Open
    /\ GateReachable(w)
    /\ CloseChecks(w)
    /\ TrimToSelected(w)
    /\ gateX' = w
    /\ slotTxn' = ScannedSlots
    /\ SetWriter(w, [ClosedWriter EXCEPT !.pc = "closing"])
    /\ UNCHANGED <<gateS, wlock, slotLock, rd, nonces, acked, verdict>>

\* finish_close: the lease, then the gate; also of a repeated close.
WCloseLease(w) ==
    /\ wr[w].pc = "closing"
    /\ wlock' = None
    /\ SetWriter(w, [wr[w] EXCEPT !.pc = "closingGate", !.kept = FALSE])
    /\ UNCHANGED <<mem, disk, gateX, gateS, slotLock, slotTxn, rd, nonces, acked,
                   verdict>>

WCloseEnd(w) ==
    /\ wr[w].pc = "closingGate"
    /\ gateX' = None
    /\ SetWriter(w, ClosedWriter)
    /\ UNCHANGED <<mem, disk, gateS, wlock, slotLock, slotTxn, rd, nonces, acked,
                   verdict>>

\* The lease or the gate cannot be released: close returns incomplete and
\* keeps the gate until it is repeated.
WCloseStuck(w) ==
    /\ "unlock" \in Faults
    /\ wr[w].pc \in {"closing", "closingGate"}
    /\ SetWriter(w, [wr[w] EXCEPT !.kept = TRUE])
    /\ UNCHANGED <<mem, disk, gateX, gateS, wlock, slotLock, slotTxn, rd, nonces,
                   acked, verdict>>

\* close_locked fails: before the tail is cut, after the cut, or after its
\* sync with the draft gone or not.
CloseLockedFails(w, draft) ==
    \/ draft = wr[w].draft /\ UNCHANGED <<mem, disk>>
    \/ /\ CloseChecks(w)
       /\ draft = wr[w].draft
       /\ \E i \in Proven : /\ mem.len > mem.meta[i].count
                            /\ mem' \in Shrunk(w, mem.meta[i].count)
       /\ UNCHANGED disk
    \/ CloseChecks(w) /\ TrimToSelected(w)

\* close_failure: lock_gate fails, and a gate that an earlier call kept stays;
\* or close_locked fails, and the gate is unlocked or cannot be.  The caller
\* may retry.
WCloseFails(w) ==
    /\ wr[w].pc \in Open
    /\ \/ /\ "error" \in Faults
          /\ SetWriter(w, [wr[w] EXCEPT !.pc = "unusable"])
          /\ UNCHANGED <<mem, disk, gateX, slotTxn>>
       \/ /\ GateReachable(w)
          /\ "error" \in Faults \/ ~ CloseChecks(w)
          /\ MayHaveScanned(w)
          /\ \E draft \in {wr[w].draft, None}, kept \in {FALSE, "unlock" \in Faults} :
               /\ CloseLockedFails(w, draft)
               /\ SetWriter(w, [wr[w] EXCEPT !.pc = "unusable", !.draft = draft,
                                             !.kept = kept])
               /\ gateX' = IF kept THEN w ELSE None
    /\ UNCHANGED <<gateS, wlock, slotLock, rd, nonces, acked, verdict>>

-----------------------------------------------------------------------------
\* resolve_commit, Live mode: one call of a process that is not the writer,
\* with the lease and the gate (commit_resolution.rs).

\* The file is synced before the answer is read from it, and the tail is cut
\* and synced after; the answer stands even when the cut or its sync fails.
Resolve(w) ==
    /\ wr[w].pc = "closed"
    /\ GateFree /\ wlock = None
    /\ \E n \in Unresolved, i \in Proven :
         /\ ScanOk(mem.meta[i].txn)
         /\ mem' \in Shrunk(w, mem.meta[i].count) \cup {f \in {mem} : "error" \in Faults}
         /\ disk' \in {mem'} \cup {f \in {mem} : "error" \in Faults}
         /\ LET outcome == ResolveAttempt(mem.meta, mem.len, verdict[n].txn, n)
            IN /\ verdict' = [verdict EXCEPT ![n].outcome = outcome]
               /\ acked' = IF outcome = "Committed" /\ acked.txn < verdict[n].txn
                           THEN [txn |-> verdict[n].txn, nonce |-> n] ELSE acked
    /\ slotTxn' = ScannedSlots
    /\ UNCHANGED <<gateX, gateS, wlock, slotLock, rd, wr, nonces>>

\* No answer, and the attempt stays unknown: an error (Err, or Unresolvable)
\* or death before the file is synced, an error or death after it, or death
\* after the cut.  The locks go with the call's file handles.
ResolveFails(w) ==
    /\ {"error", "kill"} \cap Faults # {}
    /\ wr[w].pc = "closed"
    /\ GateFree /\ wlock = None
    /\ Unresolved # {}
    /\ \/ MayHaveScanned(w) /\ UNCHANGED <<mem, disk>>
       \/ /\ slotTxn' = ScannedSlots
          /\ disk' = mem
          /\ \E i \in Proven :
               /\ ScanOk(mem.meta[i].txn)
               /\ mem' \in {mem} \cup {f \in Shrunk(w, mem.meta[i].count) :
                                        "kill" \in Faults}
    /\ UNCHANGED <<gateX, gateS, wlock, slotLock, rd, wr, nonces, acked, verdict>>

-----------------------------------------------------------------------------
\* Crashes.

\* The system drops the locks and the mappings of a dead writer; what it
\* wrote into the shared mapping stays.
WKill(w) ==
    /\ "kill" \in Faults
    /\ wr[w].pc # "closed"
    /\ gateX' = IF gateX = w THEN None ELSE gateX
    /\ wlock' = IF wlock = w THEN None ELSE wlock
    /\ SetWriter(w, ClosedWriter)
    /\ UNCHANGED <<mem, disk, gateS, slotLock, slotTxn, rd, nonces, acked, verdict>>

\* Every page that was not synced is old or new; a meta page may be torn.
SurvivingMeta(i) ==
    {disk.meta[i], mem.meta[i]} \cup {m \in {Torn} : disk.meta[i] # mem.meta[i]}

PowerLoss ==
    /\ "power" \in Faults
    /\ disk # mem
    /\ \E m0 \in SurvivingMeta(0), m1 \in SurvivingMeta(1), n \in {disk.len, mem.len} :
       \E new \in SUBSET {p \in Pages : disk.page[p] # mem.page[p]} :
         /\ mem' = Truncated([meta |-> [i \in {0, 1} |-> IF i = 0 THEN m0 ELSE m1],
                              page |-> [p \in Pages |-> IF p \in new THEN mem.page[p]
                                                        ELSE disk.page[p]],
                              len |-> n], n)
         /\ disk' = mem'
    /\ gateX' = None /\ gateS' = {} /\ wlock' = None
    /\ slotLock' = [s \in Slots |-> None]
    /\ rd' = [r \in Readers |-> ClosedReader]
    /\ wr' = [w \in Writers |-> ClosedWriter]
    /\ UNCHANGED <<slotTxn, nonces, acked, verdict>>

-----------------------------------------------------------------------------
ReaderStep(r) == \/ RSelect(r) \/ RClaim(r) \/ ROpenFails(r)
                 \/ RCloseGate(r) \/ RCloseFails(r)
                 \/ RClearSlot(r) \/ RUnlockSlot(r) \/ RUnlockGate(r)
                 \/ RCloseStuck(r) \/ RKill(r)

WriterStep(w) == \/ WMap(w) \/ WSelect(w) \/ WClaim(w) \/ WOpenFails(w)
                 \/ WEdit(w) \/ WAbort(w)
                 \/ WPrepare(w) \/ WCheck(w) \/ WCommitFails(w)
                 \/ WSyncData(w) \/ WStartMeta(w) \/ WWriteMeta(w)
                 \/ WSyncMeta(w) \/ WFailPublish(w)
                 \/ WReclaim(w) \/ WPrepareReclaim(w)
                 \/ WCloseLocked(w) \/ WCloseLease(w) \/ WCloseEnd(w)
                 \/ WCloseStuck(w) \/ WCloseFails(w)
                 \/ Resolve(w) \/ ResolveFails(w) \/ WKill(w)

Next == \/ \E r \in Readers : ReaderStep(r)
        \/ \E w \in Writers : WriterStep(w)
        \/ PowerLoss

Spec == Init /\ [][Next]_vars

\* A process that is inside the gate keeps running: every call made under the
\* gate returns, with success or with an error.  Nothing is assumed about who
\* gets the gate next, nor about callers: one whose call kept the gate need
\* not close again.  The loop over page edits of a reclamation ends.
InsideGate(r) == RClaim(r) \/ ROpenFails(r)
InsideShared(r) ==
    /\ ~ rd[r].kept
    /\ RClearSlot(r) \/ RUnlockSlot(r) \/ RUnlockGate(r) \/ RCloseStuck(r)
InsideGateWriter(w) ==
    /\ gateX = w /\ ~ wr[w].kept
    /\ \/ WClaim(w) \/ WOpenFails(w) \/ WPrepareReclaim(w) \/ WCommitFails(w)
       \/ WSyncData(w) \/ WStartMeta(w) \/ WWriteMeta(w) \/ WSyncMeta(w)
       \/ WFailPublish(w) \/ WCloseLease(w) \/ WCloseEnd(w) \/ WCloseStuck(w)

LiveSpec == /\ Spec
            /\ \A r \in Readers : WF_vars(InsideGate(r)) /\ WF_vars(InsideShared(r))
            /\ \A w \in Writers : WF_vars(InsideGateWriter(w))

-----------------------------------------------------------------------------
\* Properties.

Generation(g) ==
    /\ DOMAIN g.tree \subseteq Pages /\ g.free \subseteq Pages
    /\ DOMAIN g.ret \subseteq Pages
    /\ g.txn \in 1 .. MaxTxn /\ g.count \in 2 .. LastPage + 1

\* Type invariant of the file, the locks and the handles.
TypeOK ==
    /\ \A i \in {0, 1} : mem.meta[i] = Torn \/ Generation(mem.meta[i])
    /\ mem.page \in [Pages -> 0 .. MaxNonce] /\ mem.len \in 2 .. LastPage + 1
    /\ gateX \in Readers \cup Writers \cup {None}
    /\ gateS \subseteq Readers
    /\ wlock \in Writers \cup {None}
    /\ slotLock \in [Slots -> Readers \cup {None}]
    /\ slotTxn \in [Slots -> 0 .. MaxTxn]
    /\ \A w \in Writers : wr[w].draft # None => Generation(Sealed(wr[w].draft))
    /\ nonces \in 0 .. MaxNonce

\* Every page of generation g lies in the file and has the contents that g's
\* writer gave it.
Intact(g) == /\ g.count <= mem.len
             /\ \A p \in DOMAIN g.tree : mem.page[p] = g.tree[p]

\* As long as a reader is open, no writer changes, reuses or cuts off a page
\* of the generation that it has mapped: the reader table and the retirement
\* tree together keep reclamation and allocation away from it.
ReadersIntact ==
    \A r \in Readers : rd[r].gen # None => Intact(rd[r].gen)

\* What was reported as Committed, by commit or by resolve_commit, is what an
\* opener finds, or an ancestor of it; and the pages of what it finds are all
\* there.  This is the promise of the two syncs in publish.
CommittedSurvives ==
    \E i \in BestPage(mem.meta, mem.len) :
        /\ Intact(mem.meta[i])
        /\ mem.meta[i].txn >= acked.txn
        /\ mem.meta[i].txn = acked.txn => mem.meta[i].nonce = acked.nonce

\* The scan that every opener, commit, reclaim and close makes under the gate
\* never meets a locked slot that is clear or newer than the selected
\* generation, which it would report as corruption.
ScanNeverCorrupt ==
    GateFree => \A i \in Proven : ScanOk(mem.meta[i].txn)

\* An open reader finds its registration again when it closes
\* (verify_registration), whatever scans and claims ran in between.
ReadersStayRegistered ==
    \A r \in Readers : rd[r].pc \in {"open", "closeOnly", "active"} =>
        /\ slotLock[rd[r].slot] = r
        /\ slotTxn[rd[r].slot] = rd[r].gen.txn

\* The generation does not change under a writer that is open and not in the
\* middle of publishing: require_unchanged_base never fails.
BaseStaysSelected ==
    \A w \in Writers :
        wr[w].pc \in {"healthy", "prepared", "checked", "synced", "reclaiming"}
            => BaseUnchanged(w)

\* An attempt that was reported as NotCommitted is on neither meta page, in
\* the page cache or on disk, and so never comes back.
NotCommittedIsFinal ==
    \A n \in DOMAIN verdict : verdict[n].outcome = "NotCommitted" =>
        \A i \in {0, 1}, f \in {mem, disk} : f.meta[i] # Torn => f.meta[i].nonce # n

\* Failed calls alone never leave a file that live openers refuse: both meta
\* pages are valid and consecutive except while one is being encoded.
AlwaysOpenable ==
    Proven = {} => \E w \in Writers : wr[w].pc = "encoding"

\* The selected generation never goes back and never skips one: what an
\* opener would select changes only from transaction T to T + 1.
SelectedTxns == {mem.meta[i].txn : i \in BestPage(mem.meta, mem.len)}
PublishesInOrder ==
    [][\A t \in SelectedTxns : SelectedTxns' # {} /\ SelectedTxns' \subseteq {t, t + 1}]_mem

\* No call keeps the gate behind its caller's back: every section that open,
\* commit, reclaim, close and their error paths execute under it comes to an
\* end, and then the gate is released or the caller has been told that its
\* handle still holds it and has to be closed again (a failed unlock, or a
\* reader's slot that could not be cleared).  In the second case the others
\* stay locked out for as long as the caller neither repeats close nor exits.
Retained(p) == IF p \in Readers THEN rd[p].kept ELSE wr[p].kept
GateReleased ==
    /\ \A p \in Readers \cup Writers : gateX = p ~> gateX # p \/ Retained(p)
    /\ \A r \in Readers : r \in gateS ~> r \notin gateS \/ Retained(r)

\* A Healthy writer has its whole base generation mapped.
HealthyWriterMapsBase ==
    \A w \in Writers : wr[w].pc = "healthy" => wr[w].map >= wr[w].base.count
=============================================================================
