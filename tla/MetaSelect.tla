----------------------------- MODULE MetaSelect -----------------------------
(***************************************************************************)
(* Selection between the two meta pages (bootstrap.rs).  A file image is   *)
(* a pair meta[0], meta[1] and a length in pages.  A meta page whose       *)
(* checksum does not match (half-written, or lost in a power failure) is   *)
(* the value Torn.  Both pages carry the same static identity: a file is   *)
(* never assembled from two databases here.                                *)
(***************************************************************************)
EXTENDS Integers, FiniteSets

CONSTANT Torn      \* a meta page that fails its checksum

\* identity_readable and bootstrap_valid: what the program checks before it
\* looks at the other page.  The structural checks on roots and counts hold
\* of every meta page the writer encodes and are left out.
BootstrapValid(meta, len, i) ==
    /\ meta[i] # Torn
    /\ meta[i].txn # 0
    /\ 2 <= meta[i].count
    /\ meta[i].count <= len

ValidPages(meta, len) == {i \in {0, 1} : BootstrapValid(meta, len, i)}

\* select_pair: equal transactions must be identical pages; otherwise the two
\* are consecutive and the higher one lies on the page of its parity.
PairSelected(meta) ==
    {i \in {0, 1} :
        LET hi == meta[i]
            lo == meta[1 - i]
        IN /\ hi.txn % 2 = i
           /\ \/ hi = lo
              \/ hi.txn = lo.txn + 1}

\* open_meta_pages followed by finish_open for OpenMode::Writer and
\* OpenMode::LiveReader: only a proven current generation is accepted.  The
\* result is {} for every error, or the one selected page.
ProvenPage(meta, len) ==
    IF ValidPages(meta, len) = {0, 1} THEN PairSelected(meta) ELSE {}

\* The immutable-reader and recovery view: a sole valid page is accepted too.
BestPage(meta, len) ==
    IF ValidPages(meta, len) = {0, 1} THEN PairSelected(meta)
    ELSE ValidPages(meta, len)

\* resolve_commit_attempt: the outcome of the attempt (txn, nonce).
ResolveAttempt(meta, len, txn, nonce) ==
    IF ProvenPage(meta, len) = {} THEN "Unresolvable"
    ELSE LET selected == meta[CHOOSE i \in ProvenPage(meta, len) : TRUE]
         IN IF \E i \in {0, 1} : meta[i].txn = txn /\ meta[i].nonce = nonce
            THEN "Committed"
            ELSE IF \/ \E i \in {0, 1} : meta[i].txn = txn
                    \/ selected.txn < txn
            THEN "NotCommitted"
            ELSE "SupersededUnknown"
=============================================================================
