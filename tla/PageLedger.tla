----------------------------- MODULE PageLedger -----------------------------
(***************************************************************************)
(* The page accounting of one generation and of one unpublished draft      *)
(* (draft_store.rs, draft_store/storage.rs, retirement.rs).                *)
(*                                                                         *)
(* A generation is what one meta page describes:                           *)
(*   txn, nonce  identity of the commit;                                   *)
(*   count       page_count: pages 2 .. count-1 belong to the generation;  *)
(*   tree        the pages reachable from its roots; tree[p] is the nonce  *)
(*               of the transaction that wrote p, i.e. p's contents;       *)
(*   free        the set bits of the free-page bitmap;                     *)
(*   ret         the retirement tree: ret[p] is the transaction that       *)
(*               removed p from the roots.                                 *)
(* A draft is a generation under construction, with one more field:        *)
(*   priv        the private page stack (pages written by this draft and   *)
(*               dropped again); its order is immaterial and is left out.  *)
(* The pages of the free bitmap, of the retirement tree and of the four    *)
(* reserve slots are not told apart here from the other tree pages.        *)
(***************************************************************************)
EXTENDS Integers, FiniteSets

\* Function update that may extend the domain, and domain restriction.
Put(f, x, v) == [y \in DOMAIN f \cup {x} |-> IF y = x THEN v ELSE f[y]]
Without(f, S) == [y \in DOMAIN f \ S |-> f[y]]

\* A draft like d with other page accounts.
Draft(d, count, tree, free, ret, priv) ==
    [txn |-> d.txn, nonce |-> d.nonce, count |-> count, tree |-> tree,
     free |-> free, ret |-> ret, priv |-> priv]

\* Draft::new: the next transaction number, everything else from the base.
NewDraft(base, nonce) ==
    [txn |-> base.txn + 1, nonce |-> nonce, count |-> base.count,
     tree |-> base.tree, free |-> base.free, ret |-> base.ret, priv |-> {}]

\* The generation that the draft's meta page describes.
Sealed(d) ==
    [txn |-> d.txn, nonce |-> d.nonce, count |-> d.count,
     tree |-> d.tree, free |-> d.free, ret |-> d.ret]

\* A page of the draft that this draft wrote (born_txn = target transaction).
IsPrivate(d, p) == d.tree[p] = d.nonce

\* DraftStore::allocate: the private stack first, then the lowest free bit,
\* then one page of tail growth.
Allocatable(d) ==
    IF d.priv # {} THEN d.priv
    ELSE IF d.free # {} THEN {p \in d.free : \A q \in d.free : p <= q}
    ELSE {d.count}

\* Faulty variant: a page from the bitmap counts as growth.
AddPageCounted(d, q) ==
    Draft(d, d.count + 1, Put(d.tree, q, d.nonce), d.free \ {q}, d.ret, d.priv \ {q})

\* A new page q enters the trees and leaves wherever it was taken from
\* (claim_allocated, claim_new_tail).
AddPage(d, q) ==
    Draft(d, IF q = d.count THEN d.count + 1 ELSE d.count,
          Put(d.tree, q, d.nonce), d.free \ {q}, d.ret, d.priv \ {q})

\* Faulty variant: a replaced committed page goes to the private stack.
RemovePageReused(d, p) ==
    Draft(d, d.count, Without(d.tree, {p}), d.free, d.ret, d.priv \cup {p})

\* A page leaves the trees: a page of this draft is put on the private stack,
\* a committed page is retired.
DiscardPrivate(d, p) ==
    Draft(d, d.count, Without(d.tree, {p}), d.free, d.ret, d.priv \cup {p})
RetireOne(d, p) ==
    Draft(d, d.count, Without(d.tree, {p}), d.free, Put(d.ret, p, d.txn), d.priv)
RemovePage(d, p) == IF IsPrivate(d, p) THEN DiscardPrivate(d, p) ELSE RetireOne(d, p)

\* Copy-on-write of the committed page p into q.
CopyPage(d, p, q) == RemovePage(AddPage(d, q), p)

\* Faulty variant: the stack is emptied and its pages are forgotten.
ReleasePrivateLost(d) == Draft(d, d.count, d.tree, d.free, d.ret, {})

\* prepare_with_checkpoint: private pages left on the stack become free bits.
ReleasePrivate(d) == Draft(d, d.count, d.tree, d.free \cup d.priv, d.ret, {})

\* Faulty variant: off by one.
ReaderSafeLoose(pinned, t) == \A r \in pinned : r + 1 >= t

\* reader_safe: no registered reader is older than the retiring transaction.
ReaderSafe(pinned, t) == \A r \in pinned : r >= t

\* select_reclamation: the groups are taken oldest first, while they are safe
\* and while their number and their pages fit the two limits.  The result is
\* the set of admissible "through_txn" values: empty when nothing is selected.
Through(ret, t) == {p \in DOMAIN ret : ret[p] <= t}
GroupTxns(ret) == {ret[p] : p \in DOMAIN ret}
Selectable(ret, pinned, maxTxns, maxPages) ==
    {t \in GroupTxns(ret) :
        /\ ReaderSafe(pinned, t)
        /\ Cardinality(Through(ret, t)) <= maxPages
        /\ Cardinality({u \in GroupTxns(ret) : u <= t}) <= maxTxns}
SelectReclamation(ret, pinned, maxTxns, maxPages) ==
    LET s == Selectable(ret, pinned, maxTxns, maxPages)
    IN {t \in s : \A u \in s : u <= t}

\* apply_reclamation: the selected groups become free bits.
ApplyReclamation(d, t) ==
    Draft(d, d.count, d.tree, d.free \cup Through(d.ret, t),
          Without(d.ret, Through(d.ret, t)), d.priv)
=============================================================================
