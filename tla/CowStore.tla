------------------------------ MODULE CowStore ------------------------------
(***************************************************************************)
(* What the copy-on-write store promises its readers, without locks, slots,*)
(* meta pages and calls: there is one current generation, at most one      *)
(* draft made from it, and the generations that readers hold.  A draft may *)
(* take any page that is free in its own accounts; reclamation may free    *)
(* every group that no held generation needs.  LiveDb implements this.     *)
(***************************************************************************)
EXTENDS PageLedger

CONSTANTS Readers,      \* reader handles
          Pages,        \* the page numbers there are
          MaxTxn,       \* bound: last transaction number
          MaxNonce,     \* bound: number of transactions ever started
          None          \* no draft, no generation

ASSUME CowStoreAssumption ==
    /\ Pages \subseteq Nat \ {0, 1}
    /\ MaxTxn \in Nat
    /\ MaxNonce \in Nat

VARIABLES cur,      \* the generation that an opener selects
          draft,    \* the unpublished draft, or None
          page,     \* the contents of the data pages: the nonce of the writer
          len,      \* length of the file, in pages
          pins,     \* reader -> the generation that it has mapped, or None
          nonces    \* number of nonces drawn so far

vars == <<cur, draft, page, len, pins, nonces>>

Lengths == {2} \cup {p + 1 : p \in Pages}

Init == /\ cur = [txn |-> 1, nonce |-> 0, count |-> 2, tree |-> <<>>,
                  free |-> {}, ret |-> <<>>]
        /\ draft = None
        /\ page = [p \in Pages |-> 0]
        /\ len = 2
        /\ pins = [r \in Readers |-> None]
        /\ nonces = 0

Held == {pins[r] : r \in {s \in Readers : pins[s] # None}}

-----------------------------------------------------------------------------
\* The draft starts with its first change.
MayStart == draft = None => nonces < MaxNonce /\ cur.txn < MaxTxn
Working == IF draft = None THEN NewDraft(cur, nonces + 1) ELSE draft
Start == nonces' = IF draft = None THEN nonces + 1 ELSE nonces

Spare(d) == d.priv \cup d.free \cup {d.count}

\* Page q is written as a part of draft d; the file may have to grow.
WritePage(d, q) ==
    /\ MayStart /\ Start
    /\ draft' = d
    /\ page' = [page EXCEPT ![q] = d.nonce]
    /\ \E n \in Lengths : n >= len /\ n >= d.count /\ len' = n
    /\ UNCHANGED <<cur, pins>>

Add(q) == q \in Spare(Working) /\ WritePage(AddPage(Working, q), q)

Copy(p, q) == /\ p \in DOMAIN Working.tree /\ ~ IsPrivate(Working, p)
              /\ q \in Spare(Working)
              /\ WritePage(CopyPage(Working, p, q), q)

Remove(p) == /\ p \in DOMAIN Working.tree
             /\ MayStart /\ Start
             /\ draft' = RemovePage(Working, p)
             /\ UNCHANGED <<cur, page, len, pins>>

\* A draft of its own that frees the groups up to transaction t.
Reclaim(t) == /\ draft = None
              /\ MayStart /\ Start
              /\ ReaderSafe({g.txn : g \in Held}, t)
              /\ draft' = ApplyReclamation(NewDraft(cur, nonces + 1), t)
              /\ UNCHANGED <<cur, page, len, pins>>

Settle == /\ draft # None
          /\ draft' = ReleasePrivate(draft)
          /\ UNCHANGED <<cur, page, len, pins, nonces>>

\* Pages from n on are cut off the file.
Cut(n) == /\ n <= len
          /\ page' = [p \in Pages |-> IF p < n THEN page[p] ELSE 0]
          /\ len' = n

Trim == /\ \E n \in Lengths : n >= Working.count /\ Cut(n)
        /\ UNCHANGED <<cur, draft, pins, nonces>>

Discard == /\ draft # None
           /\ draft' = None
           /\ \/ UNCHANGED <<page, len>>
              \/ \E n \in Lengths : n >= cur.count /\ Cut(n)
           /\ UNCHANGED <<cur, pins, nonces>>

Publish == /\ draft # None
           /\ draft.priv = {}
           /\ cur' = Sealed(draft)
           /\ draft' = None
           /\ UNCHANGED <<page, len, pins, nonces>>

Register(r) == /\ pins[r] = None
               /\ pins' = [pins EXCEPT ![r] = cur]
               /\ UNCHANGED <<cur, draft, page, len, nonces>>

Release(r) == /\ pins[r] # None
              /\ pins' = [pins EXCEPT ![r] = None]
              /\ UNCHANGED <<cur, draft, page, len, nonces>>

Next == \/ \E q \in Pages : Add(q)
        \/ \E p, q \in Pages : Copy(p, q)
        \/ \E p \in Pages : Remove(p)
        \/ \E t \in GroupTxns(cur.ret) : Reclaim(t)
        \/ Settle \/ Trim \/ Discard \/ Publish
        \/ \E r \in Readers : Register(r) \/ Release(r)

Spec == Init /\ [][Next]_vars

-----------------------------------------------------------------------------
\* Properties.

\* A file of length ln with contents pg holds every page of generation g as
\* g's writers left it.
Intact(g, pg, ln) == /\ g.count <= ln
                     /\ \A p \in DOMAIN g.tree : pg[p] = g.tree[p]

\* A generation that a reader has mapped, and the current one, stay intact
\* whatever drafts, reclamations, truncations and commits happen meanwhile.
HeldIntact == \A g \in Held \cup {cur} : Intact(g, page, len)

\* The accounts of a generation: every page below its count is in use, free
\* or retired, and only one of them.  Nothing leaks and nothing is owned twice,
\* however often pages were copied, dropped, reclaimed and reused.
AccountsOf(g, spare) ==
    /\ DOMAIN g.tree \cap (g.free \cup spare) = {}
    /\ DOMAIN g.tree \cap DOMAIN g.ret = {}
    /\ DOMAIN g.ret \cap (g.free \cup spare) = {}
    /\ g.free \cap spare = {}
    /\ DOMAIN g.tree \cup g.free \cup DOMAIN g.ret \cup spare = 2 .. g.count - 1
PagesAccounted == AccountsOf(cur, {})

-----------------------------------------------------------------------------
\* The inductive invariant.

PartialMap(f) == /\ DOMAIN f \subseteq Pages
                 /\ f \in [DOMAIN f -> Nat]

GenOK(g) == /\ g.txn \in Nat /\ g.nonce \in Nat /\ g.count \in Nat
            /\ PartialMap(g.tree) /\ PartialMap(g.ret)
            /\ g.free \subseteq Pages

\* Type invariant.
TypeOK == /\ GenOK(cur)
          /\ draft # None => GenOK(draft) /\ draft.priv \subseteq Pages
          /\ page \in [Pages -> Nat]
          /\ len \in Nat /\ nonces \in Nat
          /\ DOMAIN pins = Readers
          /\ \A g \in Held : GenOK(g)

\* Every page of g is still in use in the accounts of d, unchanged, or is
\* retired by a transaction later than g.
Keeps(d, g) ==
    \A p \in DOMAIN g.tree :
        \/ p \in DOMAIN d.tree /\ d.tree[p] = g.tree[p]
        \/ p \in DOMAIN d.ret /\ d.ret[p] > g.txn

\* The pages of g were written by transactions whose nonces are below n.
Below(g, n) == \A p \in DOMAIN g.tree : g.tree[p] < n

\* The current generation.
CurOK == /\ AccountsOf(cur, {})
         /\ cur.count >= 2
         /\ \A p \in DOMAIN cur.ret : cur.ret[p] <= cur.txn

\* The generations in G are kept by d, which is as long as they are.
KeepsAll(d, G) == \A g \in G : g.count <= d.count /\ Keeps(d, g)

\* The held generations and the current one.
Gens == Held \cup {cur}
GensOK == /\ KeepsAll(cur, Gens)
          /\ \A g \in Gens : /\ g.txn <= cur.txn
                             /\ Intact(g, page, len)
                             /\ Below(g, nonces + 1)

\* A draft d with nonce n on top of transaction t and the generations G.
DraftFits(d, n, t, G, pg, ln) ==
    /\ d.nonce = n /\ d.txn = t + 1 /\ d.count >= 2
    /\ AccountsOf(d, d.priv)
    /\ Intact(d, pg, ln)
    /\ \A p \in DOMAIN d.ret : d.ret[p] <= d.txn
    /\ \A p \in DOMAIN d.tree : d.tree[p] <= n
    /\ KeepsAll(d, G)
    /\ \A g \in G : g.txn <= t /\ Below(g, n)
DraftOK == draft # None => DraftFits(draft, nonces, cur.txn, Gens, page, len)

IInv == TypeOK /\ CurOK /\ GensOK /\ DraftOK
=============================================================================
