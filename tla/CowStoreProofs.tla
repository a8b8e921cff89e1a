--------------------------- MODULE CowStoreProofs ---------------------------
(***************************************************************************)
(* Proofs about CowStore: IInv is an inductive invariant, and with it the  *)
(* store keeps its promise to the readers for every number of readers,     *)
(* pages and transactions.                                                 *)
(***************************************************************************)
EXTENDS CowStore, TLAPS

\* A page that the draft may write next is not a page of any generation that
\* the draft keeps, nor of the draft itself.
LEMMA SpareIsFree ==
    ASSUME NEW d, NEW n, NEW t, NEW G, NEW pg, NEW ln, NEW q \in Spare(d),
           GenOK(d), DraftFits(d, n, t, G, pg, ln)
    PROVE  /\ q \notin DOMAIN d.tree /\ q \notin DOMAIN d.ret
           /\ \A g \in G : q \notin DOMAIN g.tree
  <1>1. q \notin DOMAIN d.tree /\ q \notin DOMAIN d.ret
    BY DEF Spare, DraftFits, AccountsOf, GenOK
  <1>2. QED
    BY <1>1 DEF DraftFits, KeepsAll, Keeps

\* Writing a spare page leaves every kept generation intact.
LEMMA WriteKeepsIntact ==
    ASSUME NEW g, NEW pg \in [Pages -> Nat], NEW ln \in Nat, NEW ln2 \in Nat,
           NEW q \in Pages, NEW n \in Nat, ln2 >= ln,
           GenOK(g), Intact(g, pg, ln), q \notin DOMAIN g.tree
    PROVE  Intact(g, [pg EXCEPT ![q] = n], ln2)
  BY DEF Intact, GenOK, PartialMap

\* AddPage keeps the draft's accounts right when the page it takes is spare.
LEMMA AddKeepsDraft ==
    ASSUME NEW d, NEW n \in Nat, NEW t \in Nat, NEW G,
           NEW pg \in [Pages -> Nat], NEW ln \in Nat, NEW ln2 \in Nat,
           NEW q \in Pages, q \in Spare(d),
           GenOK(d), d.priv \subseteq Pages, \A g \in G : GenOK(g),
           DraftFits(d, n, t, G, pg, ln), Pages \subseteq Nat,
           ln2 >= ln, ln2 >= AddPage(d, q).count
    PROVE  /\ GenOK(AddPage(d, q)) /\ AddPage(d, q).priv \subseteq Pages
           /\ DraftFits(AddPage(d, q), n, t, G, [pg EXCEPT ![q] = n], ln2)
  <1> DEFINE e == AddPage(d, q)
             c == IF q = d.count THEN d.count + 1 ELSE d.count
  <1>0. q \notin DOMAIN d.tree /\ q \notin DOMAIN d.ret
    BY SpareIsFree
  <1>1. /\ e.txn = d.txn /\ e.nonce = d.nonce /\ e.count = c
        /\ e.free = d.free \ {q} /\ e.ret = d.ret /\ e.priv = d.priv \ {q}
        /\ e.tree = Put(d.tree, q, d.nonce)
    BY DEF AddPage, Draft
  <1>2. /\ DOMAIN e.tree = DOMAIN d.tree \cup {q}
        /\ e.tree[q] = n
        /\ \A p \in DOMAIN d.tree : e.tree[p] = d.tree[p]
    BY <1>0, <1>1 DEF Put, DraftFits
  <1>3. GenOK(e) /\ e.priv \subseteq Pages
    <2>1. PartialMap(e.tree)
      BY <1>1 DEF PartialMap, GenOK, Put, DraftFits
    <2>2. QED
      BY <1>1, <2>1 DEF GenOK
  <1>4. AccountsOf(e, e.priv)
    <2>1. /\ q \notin e.free /\ q \notin e.priv
          /\ DOMAIN e.tree \cap (e.free \cup e.priv) = {}
          /\ DOMAIN e.tree \cap DOMAIN e.ret = {}
          /\ DOMAIN e.ret \cap (e.free \cup e.priv) = {}
          /\ e.free \cap e.priv = {}
      BY <1>0, <1>1, <1>2 DEF AccountsOf, DraftFits
    <2>2. DOMAIN e.tree \cup e.free \cup DOMAIN e.ret \cup e.priv
            = (2 .. d.count - 1) \cup {q}
      BY <1>1, <1>2 DEF AccountsOf, DraftFits
    <2>3. (2 .. d.count - 1) \cup {q} = 2 .. c - 1
      <3>1. CASE q = d.count
        BY <3>1 DEF DraftFits, GenOK
      <3>2. CASE q # d.count
        BY <3>2 DEF DraftFits, GenOK, Spare, AccountsOf
      <3>3. QED
        BY <3>1, <3>2
    <2>4. QED
      BY <1>1, <2>1, <2>2, <2>3 DEF AccountsOf
  <1>5. Intact(e, [pg EXCEPT ![q] = n], ln2)
    BY <1>0, <1>1, <1>2 DEF Intact, DraftFits, GenOK, PartialMap
  <1>6. KeepsAll(e, G)
    BY <1>1, <1>2 DEF KeepsAll, Keeps, DraftFits, GenOK
  <1>7. QED
    BY <1>1, <1>2, <1>3, <1>4, <1>5, <1>6 DEF DraftFits, GenOK

\* RemovePage keeps the accounts right: a page of the draft becomes spare, a
\* committed page is retired under the draft's transaction.
LEMMA RemoveKeepsDraft ==
    ASSUME NEW d, NEW n \in Nat, NEW t \in Nat, NEW G, NEW pg, NEW ln,
           NEW x \in DOMAIN d.tree,
           GenOK(d), d.priv \subseteq Pages, \A g \in G : GenOK(g),
           DraftFits(d, n, t, G, pg, ln)
    PROVE  /\ GenOK(RemovePage(d, x)) /\ RemovePage(d, x).priv \subseteq Pages
           /\ DraftFits(RemovePage(d, x), n, t, G, pg, ln)
  <1> DEFINE e == RemovePage(d, x)
  <1>0. x \in Pages /\ x \notin DOMAIN d.ret /\ x \notin d.free /\ x \notin d.priv
    BY DEF GenOK, PartialMap, DraftFits, AccountsOf
  <1>1. CASE IsPrivate(d, x)
    <2>1. /\ e.txn = d.txn /\ e.nonce = d.nonce /\ e.count = d.count
          /\ e.free = d.free /\ e.ret = d.ret /\ e.priv = d.priv \cup {x}
          /\ e.tree = Without(d.tree, {x})
      BY <1>1 DEF RemovePage, DiscardPrivate, RetireOne, Draft
    <2>2. /\ DOMAIN e.tree = DOMAIN d.tree \ {x}
          /\ \A p \in DOMAIN e.tree : e.tree[p] = d.tree[p]
      BY <2>1 DEF Without
    <2>3. GenOK(e) /\ e.priv \subseteq Pages
      <3>1. PartialMap(e.tree)
        BY <2>1 DEF PartialMap, GenOK, Without
      <3>2. QED
        BY <1>0, <2>1, <3>1 DEF GenOK
    <2>4. AccountsOf(e, e.priv)
      <3>1. DOMAIN e.tree \cup e.free \cup DOMAIN e.ret \cup e.priv
              = DOMAIN d.tree \cup d.free \cup DOMAIN d.ret \cup d.priv
        BY <1>0, <2>1, <2>2
      <3>2. /\ DOMAIN e.tree \cap (e.free \cup e.priv) = {}
            /\ DOMAIN e.tree \cap DOMAIN e.ret = {}
            /\ DOMAIN e.ret \cap (e.free \cup e.priv) = {}
            /\ e.free \cap e.priv = {}
        <4>1. /\ DOMAIN d.tree \cap (d.free \cup d.priv) = {}
              /\ DOMAIN d.tree \cap DOMAIN d.ret = {}
              /\ DOMAIN d.ret \cap (d.free \cup d.priv) = {}
              /\ d.free \cap d.priv = {}
          BY DEF AccountsOf, DraftFits
        <4>2. QED
          BY <1>0, <2>1, <2>2, <4>1
      <3>3. QED
        BY <3>1, <3>2, <2>1 DEF AccountsOf, DraftFits
    <2>5. KeepsAll(e, G)
      <3>1. \A g \in G : x \in DOMAIN g.tree => g.tree[x] < n
        BY DEF DraftFits, Below
      <3>2. d.tree[x] = n
        BY <1>1 DEF IsPrivate, DraftFits
      <3>3. \A g \in G : x \notin DOMAIN g.tree
        BY <1>0, <3>1, <3>2 DEF DraftFits, KeepsAll, Keeps, GenOK, PartialMap
      <3>4. QED
        BY <2>1, <2>2, <3>3 DEF KeepsAll, Keeps, DraftFits
    <2>6. QED
      BY <2>1, <2>2, <2>3, <2>4, <2>5 DEF DraftFits, Intact
  <1>2. CASE ~ IsPrivate(d, x)
    <2>1. /\ e.txn = d.txn /\ e.nonce = d.nonce /\ e.count = d.count
          /\ e.free = d.free /\ e.ret = Put(d.ret, x, d.txn) /\ e.priv = d.priv
          /\ e.tree = Without(d.tree, {x})
      BY <1>2 DEF RemovePage, DiscardPrivate, RetireOne, Draft
    <2>2. /\ DOMAIN e.tree = DOMAIN d.tree \ {x}
          /\ \A p \in DOMAIN e.tree : e.tree[p] = d.tree[p]
          /\ DOMAIN e.ret = DOMAIN d.ret \cup {x}
          /\ e.ret[x] = d.txn
          /\ \A p \in DOMAIN d.ret : e.ret[p] = d.ret[p]
      BY <1>0, <2>1 DEF Without, Put
    <2>3. GenOK(e) /\ e.priv \subseteq Pages
      <3>1. PartialMap(e.tree)
        BY <2>1 DEF PartialMap, GenOK, Without
      <3>2. PartialMap(e.ret)
        BY <1>0, <2>1 DEF PartialMap, GenOK, Put
      <3>3. QED
        BY <2>1, <3>1, <3>2 DEF GenOK
    <2>4. AccountsOf(e, e.priv)
      <3>1. DOMAIN e.tree \cup e.free \cup DOMAIN e.ret \cup e.priv
              = DOMAIN d.tree \cup d.free \cup DOMAIN d.ret \cup d.priv
        BY <1>0, <2>1, <2>2
      <3>2. /\ DOMAIN e.tree \cap (e.free \cup e.priv) = {}
            /\ DOMAIN e.tree \cap DOMAIN e.ret = {}
            /\ DOMAIN e.ret \cap (e.free \cup e.priv) = {}
            /\ e.free \cap e.priv = {}
        <4>1. /\ DOMAIN d.tree \cap (d.free \cup d.priv) = {}
              /\ DOMAIN d.tree \cap DOMAIN d.ret = {}
              /\ DOMAIN d.ret \cap (d.free \cup d.priv) = {}
              /\ d.free \cap d.priv = {}
          BY DEF AccountsOf, DraftFits
        <4>2. QED
          BY <1>0, <2>1, <2>2, <4>1
      <3>3. QED
        BY <3>1, <3>2, <2>1 DEF AccountsOf, DraftFits
    <2>5. KeepsAll(e, G)
      <3>1. \A g \in G : d.txn > g.txn
        BY DEF DraftFits, GenOK
      <3>2. QED
        BY <2>1, <2>2, <3>1 DEF KeepsAll, Keeps, DraftFits
    <2>6. \A p \in DOMAIN e.ret : e.ret[p] <= e.txn
      BY <2>1, <2>2 DEF DraftFits, GenOK
    <2>7. QED
      BY <2>1, <2>2, <2>3, <2>4, <2>5, <2>6 DEF DraftFits, Intact
  <1>3. QED
    BY <1>1, <1>2

\* Reclamation keeps the accounts right when no generation in G is older than
\* the youngest group that it frees.
LEMMA ReclaimKeepsDraft ==
    ASSUME NEW d, NEW n \in Nat, NEW t \in Nat, NEW G, NEW pg, NEW ln, NEW u \in Nat,
           GenOK(d), d.priv \subseteq Pages, \A g \in G : GenOK(g),
           DraftFits(d, n, t, G, pg, ln),
           \A g \in G : g.txn >= u
    PROVE  /\ GenOK(ApplyReclamation(d, u)) /\ ApplyReclamation(d, u).priv \subseteq Pages
           /\ DraftFits(ApplyReclamation(d, u), n, t, G, pg, ln)
  <1> DEFINE e == ApplyReclamation(d, u)
             S == Through(d.ret, u)
  <1>1. /\ e.txn = d.txn /\ e.nonce = d.nonce /\ e.count = d.count
        /\ e.free = d.free \cup S /\ e.ret = Without(d.ret, S) /\ e.priv = d.priv
        /\ e.tree = d.tree
    BY DEF ApplyReclamation, Draft
  <1>2. /\ S \subseteq DOMAIN d.ret
        /\ DOMAIN e.ret = DOMAIN d.ret \ S
        /\ \A p \in DOMAIN e.ret : e.ret[p] = d.ret[p]
        /\ \A p \in DOMAIN d.ret : p \in S <=> d.ret[p] <= u
    BY <1>1 DEF Without, Through
  <1>3. GenOK(e) /\ e.priv \subseteq Pages
    <2>1. PartialMap(e.ret)
      BY <1>1 DEF PartialMap, GenOK, Without
    <2>2. QED
      BY <1>1, <1>2, <2>1 DEF GenOK, PartialMap
  <1>4. AccountsOf(e, e.priv)
    <2>1. DOMAIN e.tree \cup e.free \cup DOMAIN e.ret \cup e.priv
            = DOMAIN d.tree \cup d.free \cup DOMAIN d.ret \cup d.priv
      BY <1>1, <1>2
    <2>2. /\ DOMAIN e.tree \cap (e.free \cup e.priv) = {}
          /\ DOMAIN e.tree \cap DOMAIN e.ret = {}
          /\ DOMAIN e.ret \cap (e.free \cup e.priv) = {}
          /\ e.free \cap e.priv = {}
      BY <1>1, <1>2 DEF AccountsOf, DraftFits
    <2>3. QED
      BY <2>1, <2>2, <1>1 DEF AccountsOf, DraftFits
  <1>5. KeepsAll(e, G)
    <2>1. ASSUME NEW g \in G, NEW p \in DOMAIN d.ret, d.ret[p] > g.txn
          PROVE  p \in DOMAIN e.ret /\ e.ret[p] > g.txn
      BY <1>2, <2>1 DEF GenOK, PartialMap
    <2>2. QED
      BY <1>1, <2>1 DEF KeepsAll, Keeps, DraftFits
  <1>6. QED
    BY <1>1, <1>2, <1>3, <1>4, <1>5 DEF DraftFits, Intact

\* The private stack becomes free bits.
LEMMA SettleKeepsDraft ==
    ASSUME NEW d, NEW n, NEW t, NEW G, NEW pg, NEW ln,
           GenOK(d), d.priv \subseteq Pages,
           DraftFits(d, n, t, G, pg, ln)
    PROVE  /\ GenOK(ReleasePrivate(d)) /\ ReleasePrivate(d).priv \subseteq Pages
           /\ DraftFits(ReleasePrivate(d), n, t, G, pg, ln)
  <1> DEFINE e == ReleasePrivate(d)
  <1>1. /\ e.txn = d.txn /\ e.nonce = d.nonce /\ e.count = d.count
        /\ e.free = d.free \cup d.priv /\ e.ret = d.ret /\ e.priv = {}
        /\ e.tree = d.tree
    BY DEF ReleasePrivate, Draft
  <1>2. GenOK(e) /\ e.priv \subseteq Pages
    BY <1>1 DEF GenOK
  <1>3. AccountsOf(e, e.priv)
    BY <1>1 DEF AccountsOf, DraftFits
  <1>4. QED
    BY <1>1, <1>2, <1>3 DEF DraftFits, Intact, KeepsAll, Keeps

\* Cutting the file at n or beyond leaves a generation alone whose pages lie
\* below n.
LEMMA CutKeepsIntact ==
    ASSUME NEW g, NEW pg \in [Pages -> Nat], NEW ln, NEW n \in Nat,
           GenOK(g), Intact(g, pg, ln), g.count <= n, \A p \in DOMAIN g.tree : p < n
    PROVE  Intact(g, [p \in Pages |-> IF p < n THEN pg[p] ELSE 0], n)
  BY DEF Intact, GenOK, PartialMap

\* The pages of a kept generation lie below the count of the keeper.
LEMMA KeptBelow ==
    ASSUME NEW d, NEW G, NEW s, GenOK(d), AccountsOf(d, s), KeepsAll(d, G),
           NEW n \in Nat, n >= d.count
    PROVE  /\ \A p \in DOMAIN d.tree : p < n
           /\ \A g \in G : \A p \in DOMAIN g.tree : p < n
  <1>1. \A p \in DOMAIN d.tree \cup DOMAIN d.ret : p < n
    BY DEF AccountsOf, GenOK
  <1>2. QED
    BY <1>1 DEF KeepsAll, Keeps

\* The draft that an edit works on, started now if there was none.
LEMMA WorkingFits ==
    ASSUME IInv
    PROVE  LET n == IF draft = None THEN nonces + 1 ELSE nonces
           IN /\ GenOK(Working) /\ Working.priv \subseteq Pages
              /\ n \in Nat
              /\ DraftFits(Working, n, cur.txn, Gens, page, len)
  <1>1. CASE draft = None
    <2> DEFINE w == NewDraft(cur, nonces + 1)
    <2>1. /\ w.txn = cur.txn + 1 /\ w.nonce = nonces + 1 /\ w.count = cur.count
          /\ w.tree = cur.tree /\ w.free = cur.free /\ w.ret = cur.ret /\ w.priv = {}
      BY DEF NewDraft
    <2>2. GenOK(w) /\ w.priv \subseteq Pages
      BY <2>1 DEF IInv, TypeOK, GenOK
    <2>3. AccountsOf(w, w.priv) /\ Intact(w, page, len)
      BY <2>1 DEF IInv, CurOK, GensOK, AccountsOf, Intact, Gens
    <2>4. /\ \A p \in DOMAIN w.ret : w.ret[p] <= w.txn
          /\ \A p \in DOMAIN w.tree : w.tree[p] <= nonces + 1
      BY <2>1 DEF IInv, TypeOK, CurOK, GensOK, Below, Gens, GenOK, PartialMap
    <2>5. KeepsAll(w, Gens)
      BY <2>1 DEF IInv, GensOK, KeepsAll, Keeps
    <2>6. DraftFits(w, nonces + 1, cur.txn, Gens, page, len)
      BY <2>1, <2>3, <2>4, <2>5 DEF IInv, CurOK, GensOK, DraftFits
    <2>7. QED
      BY <1>1, <2>2, <2>6 DEF Working, IInv, TypeOK
  <1>2. CASE draft # None
    BY <1>2 DEF Working, IInv, TypeOK, DraftOK
  <1>3. QED
    BY <1>1, <1>2

-----------------------------------------------------------------------------
\* The empty database (write_empty) satisfies the inductive invariant.
LEMMA InitIInv == Init => IInv
  <1> SUFFICES ASSUME Init PROVE IInv
    OBVIOUS
  <1>1. /\ cur.txn = 1 /\ cur.nonce = 0 /\ cur.count = 2 /\ cur.tree = <<>>
        /\ cur.free = {} /\ cur.ret = <<>> /\ Held = {}
    BY DEF Init, Held
  <1>2. DOMAIN cur.tree = {} /\ DOMAIN cur.ret = {}
    BY <1>1
  <1>3. TypeOK
    <2>1. PartialMap(cur.tree) /\ PartialMap(cur.ret)
      BY <1>1, <1>2 DEF PartialMap
    <2>2. QED
      BY <1>1, <2>1 DEF Init, TypeOK, GenOK
  <1>4. CurOK
    BY <1>1, <1>2 DEF CurOK, AccountsOf
  <1>5. GensOK
    BY <1>1, <1>2 DEF GensOK, Gens, KeepsAll, Keeps, Intact, Below, Init
  <1>6. QED
    BY <1>3, <1>4, <1>5 DEF Init, IInv, DraftOK

\* What a step that only changes the draft and the file has to show.
LEMMA DraftStep ==
    ASSUME IInv, NEW d, NEW n \in Nat,
           draft' = d, nonces' = n, cur' = cur, pins' = pins,
           page' \in [Pages -> Nat], len' \in Nat,
           GenOK(d), d.priv \subseteq Pages,
           DraftFits(d, n, cur.txn, Gens, page', len'),
           \A g \in Gens : Intact(g, page', len')
    PROVE  IInv'
  <1>1. Held' = Held /\ Gens' = Gens
    BY DEF Held, Gens
  <1>2. TypeOK'
    BY <1>1 DEF IInv, TypeOK
  <1>3. CurOK'
    BY DEF IInv, CurOK
  <1>4. GensOK'
    <2>1. \A g \in Gens : GenOK(g)
      BY DEF IInv, TypeOK, Gens
    <2>2. \A g \in Gens : Below(g, n + 1)
      BY <2>1 DEF DraftFits, Below, GenOK, PartialMap
    <2>3. QED
      BY <1>1, <2>2 DEF IInv, GensOK
  <1>5. DraftOK'
    BY <1>1 DEF DraftOK
  <1>6. QED
    BY <1>2, <1>3, <1>4, <1>5 DEF IInv

\* A page written as a part of the draft.
LEMMA WriteStep ==
    ASSUME IInv, NEW q \in Pages, q \in Spare(Working), NEW d,
           WritePage(d, q),
           \/ d = AddPage(Working, q)
           \/ \E p \in DOMAIN Working.tree :
                ~ IsPrivate(Working, p) /\ d = CopyPage(Working, p, q)
    PROVE  IInv'
  <1> DEFINE n == IF draft = None THEN nonces + 1 ELSE nonces
             a == AddPage(Working, q)
             pg == [page EXCEPT ![q] = n]
  <1>0. /\ GenOK(Working) /\ Working.priv \subseteq Pages /\ n \in Nat
        /\ DraftFits(Working, n, cur.txn, Gens, page, len)
        /\ \A g \in Gens : GenOK(g)
        /\ page \in [Pages -> Nat] /\ len \in Nat /\ cur.txn \in Nat
        /\ Pages \subseteq Nat
    BY WorkingFits, CowStoreAssumption DEF IInv, TypeOK, Gens, GenOK
  <1>1. a.nonce = n /\ a.tree = Put(Working.tree, q, Working.nonce)
        /\ Working.nonce = n
    BY <1>0 DEF AddPage, Draft, DraftFits
  <1>2. d.nonce = n /\ d.count = a.count
    <2>1. ASSUME NEW p
          PROVE  RemovePage(a, p).nonce = a.nonce /\ RemovePage(a, p).count = a.count
      BY DEF RemovePage, DiscardPrivate, RetireOne, Draft
    <2>2. QED
      BY <1>1, <2>1 DEF CopyPage
  <1>3. /\ draft' = d /\ nonces' = n /\ cur' = cur /\ pins' = pins /\ page' = pg
        /\ len' \in Nat /\ len' >= len /\ len' >= a.count
    BY <1>0, <1>2 DEF WritePage, Start, Lengths
  <1>4. /\ GenOK(a) /\ a.priv \subseteq Pages
        /\ DraftFits(a, n, cur.txn, Gens, pg, len')
    BY <1>0, <1>3, AddKeepsDraft
  <1>5. /\ GenOK(d) /\ d.priv \subseteq Pages
        /\ DraftFits(d, n, cur.txn, Gens, pg, len')
    <2>1. CASE d = a
      BY <1>4, <2>1
    <2>2. ASSUME NEW p \in DOMAIN Working.tree, d = CopyPage(Working, p, q)
          PROVE  /\ GenOK(d) /\ d.priv \subseteq Pages
                 /\ DraftFits(d, n, cur.txn, Gens, pg, len')
      <3>1. p \in DOMAIN a.tree
        BY <1>1 DEF Put
      <3>2. QED
        BY <1>0, <1>4, <2>2, <3>1, RemoveKeepsDraft DEF CopyPage
    <2>3. QED
      BY <2>1, <2>2
  <1>6. \A g \in Gens : Intact(g, pg, len')
    <2>1. \A g \in Gens : q \notin DOMAIN g.tree
      BY <1>0, SpareIsFree
    <2>2. QED
      BY <1>0, <1>3, <2>1, WriteKeepsIntact DEF IInv, GensOK
  <1>7. QED
    BY <1>0, <1>3, <1>5, <1>6, DraftStep

\* Dropping a page from the trees keeps the inductive invariant
\* (discard_private, retire_one).
LEMMA RemoveStep ==
    ASSUME IInv, NEW p \in Pages, Remove(p)
    PROVE  IInv'
  <1> DEFINE n == IF draft = None THEN nonces + 1 ELSE nonces
             d == RemovePage(Working, p)
  <1>1. /\ GenOK(Working) /\ Working.priv \subseteq Pages /\ n \in Nat
        /\ DraftFits(Working, n, cur.txn, Gens, page, len)
        /\ \A g \in Gens : GenOK(g)
        /\ page \in [Pages -> Nat] /\ len \in Nat /\ cur.txn \in Nat
    BY WorkingFits DEF IInv, TypeOK, Gens, GenOK
  <1>2. /\ draft' = d /\ nonces' = n /\ cur' = cur /\ pins' = pins
        /\ page' = page /\ len' = len /\ p \in DOMAIN Working.tree
    BY DEF Remove, Start
  <1>3. /\ GenOK(d) /\ d.priv \subseteq Pages
        /\ DraftFits(d, n, cur.txn, Gens, page, len)
    BY <1>1, <1>2, RemoveKeepsDraft
  <1>4. QED
    BY <1>1, <1>2, <1>3, DraftStep DEF IInv, GensOK

\* Starting a reclamation keeps the inductive invariant: the groups that it
\* frees are needed by no held generation (select_reclamation).
LEMMA ReclaimStep ==
    ASSUME IInv, NEW t \in GroupTxns(cur.ret), Reclaim(t)
    PROVE  IInv'
  <1> DEFINE n == nonces + 1
             w == NewDraft(cur, n)
             d == ApplyReclamation(w, t)
  <1>1. /\ GenOK(w) /\ w.priv \subseteq Pages /\ n \in Nat
        /\ DraftFits(w, n, cur.txn, Gens, page, len)
        /\ \A g \in Gens : GenOK(g)
        /\ page \in [Pages -> Nat] /\ len \in Nat /\ cur.txn \in Nat
    BY WorkingFits DEF IInv, TypeOK, Gens, GenOK, Reclaim, Working
  <1>2. t \in Nat /\ \A g \in Gens : g.txn >= t
    <2>1. t \in Nat /\ cur.txn >= t
      BY DEF GroupTxns, IInv, TypeOK, CurOK, GenOK, PartialMap
    <2>2. \A g \in Held : g.txn >= t
      BY DEF Reclaim, ReaderSafe
    <2>3. QED
      BY <2>1, <2>2 DEF Gens
  <1>3. /\ draft' = d /\ nonces' = n /\ cur' = cur /\ pins' = pins
        /\ page' = page /\ len' = len
    BY DEF Reclaim, Start
  <1>4. /\ GenOK(d) /\ d.priv \subseteq Pages
        /\ DraftFits(d, n, cur.txn, Gens, page, len)
    BY <1>1, <1>2, ReclaimKeepsDraft
  <1>5. QED
    BY <1>1, <1>3, <1>4, DraftStep DEF IInv, GensOK

\* Turning the private stack into free bits keeps the inductive invariant
\* (release_private_pages).
LEMMA SettleStep == ASSUME IInv, Settle PROVE IInv'
  <1> DEFINE d == ReleasePrivate(draft)
  <1>1. /\ draft' = d /\ nonces' = nonces /\ cur' = cur /\ pins' = pins
        /\ page' = page /\ len' = len
        /\ GenOK(draft) /\ draft.priv \subseteq Pages
        /\ DraftFits(draft, nonces, cur.txn, Gens, page, len)
    BY DEF Settle, IInv, TypeOK, DraftOK
  <1>2. /\ GenOK(d) /\ d.priv \subseteq Pages
        /\ DraftFits(d, nonces, cur.txn, Gens, page, len)
    BY <1>1, SettleKeepsDraft
  <1>3. QED
    BY <1>1, <1>2, DraftStep DEF IInv, TypeOK, GensOK

\* Cutting the file above the current generation.
LEMMA CutGens ==
    ASSUME IInv, NEW n \in Lengths, n >= cur.count, Cut(n)
    PROVE  /\ page' \in [Pages -> Nat] /\ len' \in Nat /\ n \in Nat
           /\ \A g \in Gens : Intact(g, page', len')
  <1>1. n \in Nat
    BY CowStoreAssumption DEF Lengths
  <1>2. page' = [p \in Pages |-> IF p < n THEN page[p] ELSE 0] /\ len' = n
    BY DEF Cut
  <1>3. page' \in [Pages -> Nat]
    BY <1>2 DEF IInv, TypeOK
  <1>4. \A g \in Gens : GenOK(g) /\ g.count <= n /\ \A p \in DOMAIN g.tree : p < n
    <2>1. \A g \in Gens : \A p \in DOMAIN g.tree : p < n
      BY <1>1, KeptBelow DEF IInv, TypeOK, CurOK, GensOK
    <2>2. QED
      BY <1>1, <2>1 DEF IInv, TypeOK, GensOK, KeepsAll, Gens, GenOK
  <1>5. QED
    BY <1>1, <1>2, <1>3, <1>4, CutKeepsIntact DEF IInv, TypeOK, GensOK

\* Cutting the file above the working draft keeps the inductive invariant
\* (trim_committed_tail, publish).
LEMMA TrimStep == ASSUME IInv, Trim PROVE IInv'
  <1>1. PICK n \in Lengths : n >= Working.count /\ Cut(n)
    BY DEF Trim
  <1>2. /\ cur' = cur /\ draft' = draft /\ pins' = pins /\ nonces' = nonces
        /\ page' = [p \in Pages |-> IF p < n THEN page[p] ELSE 0] /\ len' = n
    BY <1>1 DEF Trim, Cut
  <1>3. n \in Nat /\ n >= cur.count
    <2>1. n \in Nat
      BY CowStoreAssumption DEF Lengths
    <2>2. Working.count >= cur.count /\ Working.count \in Nat
      BY WorkingFits DEF DraftFits, KeepsAll, Gens, GenOK, IInv, TypeOK
    <2>3. QED
      BY <1>1, <2>1, <2>2 DEF IInv, TypeOK, GenOK
  <1>4. /\ page' \in [Pages -> Nat] /\ len' \in Nat
        /\ \A g \in Gens : Intact(g, page', len')
    BY <1>1, <1>3, CutGens
  <1>5. CASE draft = None
    <2>1. Held' = Held /\ Gens' = Gens
      BY <1>2 DEF Held, Gens
    <2>2. QED
      BY <1>2, <1>4, <1>5, <2>1 DEF IInv, TypeOK, CurOK, GensOK, DraftOK
  <1>6. CASE draft # None
    <2>1. /\ GenOK(draft) /\ draft.priv \subseteq Pages /\ n >= draft.count
          /\ DraftFits(draft, nonces, cur.txn, Gens, page, len)
      BY <1>1, <1>6 DEF IInv, TypeOK, DraftOK, Working
    <2>2. \A p \in DOMAIN draft.tree : p < n
      BY <1>3, <2>1, KeptBelow DEF DraftFits
    <2>3. Intact(draft, page', len')
      BY <1>2, <1>3, <2>1, <2>2, CutKeepsIntact DEF DraftFits, IInv, TypeOK, GenOK
    <2>4. DraftFits(draft, nonces, cur.txn, Gens, page', len')
      BY <2>1, <2>3 DEF DraftFits
    <2>5. QED
      BY <1>2, <1>4, <2>1, <2>4, DraftStep DEF IInv, TypeOK
  <1>7. QED
    BY <1>5, <1>6

\* Discarding the draft, with or without its tail, keeps the inductive
\* invariant (discard_unpublished).
LEMMA DiscardStep == ASSUME IInv, Discard PROVE IInv'
  <1>1. /\ draft' = None /\ cur' = cur /\ pins' = pins /\ nonces' = nonces
    BY DEF Discard
  <1>2. /\ page' \in [Pages -> Nat] /\ len' \in Nat
        /\ \A g \in Gens : Intact(g, page', len')
    <2>1. CASE UNCHANGED <<page, len>>
      BY <2>1 DEF IInv, TypeOK, GensOK
    <2>2. ASSUME NEW n \in Lengths, n >= cur.count, Cut(n)
          PROVE  /\ page' \in [Pages -> Nat] /\ len' \in Nat
                 /\ \A g \in Gens : Intact(g, page', len')
      BY <2>2, CutGens
    <2>3. QED
      BY <2>1, <2>2 DEF Discard
  <1>3. Held' = Held /\ Gens' = Gens
    BY <1>1 DEF Held, Gens
  <1>4. QED
    BY <1>1, <1>2, <1>3 DEF IInv, TypeOK, CurOK, GensOK, DraftOK

\* Making the draft the current generation keeps the inductive invariant
\* (publish).
LEMMA PublishStep == ASSUME IInv, Publish PROVE IInv'
  <1>1. /\ draft # None /\ draft.priv = {} /\ cur' = Sealed(draft) /\ draft' = None
        /\ page' = page /\ len' = len /\ pins' = pins /\ nonces' = nonces
    BY DEF Publish
  <1>2. /\ GenOK(draft)
        /\ DraftFits(draft, nonces, cur.txn, Gens, page, len)
    BY <1>1 DEF IInv, TypeOK, DraftOK
  <1>3. /\ cur'.txn = draft.txn /\ cur'.nonce = draft.nonce /\ cur'.count = draft.count
        /\ cur'.tree = draft.tree /\ cur'.free = draft.free /\ cur'.ret = draft.ret
    BY <1>1 DEF Sealed
  <1>4. Held' = Held /\ Gens' = Held \cup {cur'} /\ Held \subseteq Gens
    BY <1>1 DEF Held, Gens
  <1>5. TypeOK'
    <2>1. GenOK(cur')
      BY <1>2, <1>3 DEF GenOK
    <2>2. QED
      BY <1>1, <1>4, <2>1 DEF IInv, TypeOK
  <1>6. CurOK'
    BY <1>1, <1>2, <1>3 DEF CurOK, DraftFits, AccountsOf
  <1>7. GensOK'
    <2>1. ASSUME NEW g \in Held
          PROVE  /\ g.count <= cur'.count /\ Keeps(cur', g) /\ g.txn <= cur'.txn
                 /\ Intact(g, page', len') /\ Below(g, nonces' + 1)
      <3>1. g \in Gens /\ GenOK(g) /\ cur.txn \in Nat
        BY <1>4 DEF IInv, TypeOK, GenOK
      <3>2. g.count <= cur'.count /\ Keeps(cur', g)
        BY <1>2, <1>3, <3>1 DEF DraftFits, KeepsAll, Keeps
      <3>3. g.txn <= cur'.txn
        BY <1>2, <1>3, <3>1 DEF DraftFits, GenOK
      <3>4. QED
        BY <1>1, <3>1, <3>2, <3>3 DEF IInv, GensOK
    <2>2. /\ cur'.count <= cur'.count /\ Keeps(cur', cur') /\ cur'.txn <= cur'.txn
      BY <1>5 DEF Keeps, TypeOK, GenOK
    <2>3. Intact(cur', page', len')
      BY <1>1, <1>2, <1>3 DEF DraftFits, Intact
    <2>4. Below(cur', nonces' + 1)
      <3>1. nonces \in Nat /\ nonces' = nonces
        BY <1>1 DEF IInv, TypeOK
      <3>2. \A p \in DOMAIN draft.tree : draft.tree[p] \in Nat /\ draft.tree[p] <= nonces
        BY <1>2 DEF DraftFits, GenOK, PartialMap
      <3>3. \A p \in DOMAIN draft.tree : draft.tree[p] < nonces + 1
        BY <3>1, <3>2
      <3>4. QED
        BY <1>3, <3>1, <3>3 DEF Below
    <2>5. QED
      BY <1>4, <2>1, <2>2, <2>3, <2>4 DEF GensOK, KeepsAll
  <1>8. QED
    BY <1>1, <1>5, <1>6, <1>7 DEF IInv, DraftOK

\* A reader comes or goes: no new generation appears.
LEMMA ReaderStep ==
    ASSUME IInv, NEW r \in Readers, Register(r) \/ Release(r)
    PROVE  IInv'
  <1>1. /\ cur' = cur /\ draft' = draft /\ page' = page /\ len' = len
        /\ nonces' = nonces /\ DOMAIN pins' = Readers
    BY DEF Register, Release, IInv, TypeOK
  <1>2. Held' \subseteq Held \cup {cur}
    BY DEF Register, Release, Held, IInv, TypeOK
  <1>3. Gens' \subseteq Gens
    BY <1>1, <1>2 DEF Gens
  <1>4. TypeOK'
    BY <1>1, <1>2 DEF IInv, TypeOK
  <1>5. CurOK' /\ GensOK'
    BY <1>1, <1>3 DEF IInv, CurOK, GensOK, KeepsAll
  <1>6. DraftOK'
    BY <1>1, <1>3 DEF IInv, DraftOK, DraftFits, KeepsAll
  <1>7. QED
    BY <1>4, <1>5, <1>6 DEF IInv

\* Every step of the store keeps the inductive invariant.
LEMMA NextIInv == IInv /\ [Next]_vars => IInv'
  <1> SUFFICES ASSUME IInv, [Next]_vars PROVE IInv'
    OBVIOUS
  <1>1. ASSUME NEW q \in Pages, Add(q) PROVE IInv'
    BY <1>1, WriteStep DEF Add
  <1>2. ASSUME NEW p \in Pages, NEW q \in Pages, Copy(p, q) PROVE IInv'
    BY <1>2, WriteStep DEF Copy
  <1>3. ASSUME NEW p \in Pages, Remove(p) PROVE IInv'
    BY <1>3, RemoveStep
  <1>4. ASSUME NEW t \in GroupTxns(cur.ret), Reclaim(t) PROVE IInv'
    BY <1>4, ReclaimStep
  <1>5. ASSUME NEW r \in Readers, Register(r) \/ Release(r) PROVE IInv'
    BY <1>5, ReaderStep
  <1>6. CASE UNCHANGED vars
    BY <1>6 DEF vars, IInv, TypeOK, CurOK, GensOK, DraftOK, Gens, Held
  <1>7. QED
    BY <1>1, <1>2, <1>3, <1>4, <1>5, <1>6, SettleStep, TrimStep, DiscardStep, PublishStep
       DEF Next

\* The inductive invariant holds in every reachable state.
THEOREM CowStoreInvariant == Spec => []IInv
  BY InitIInv, NextIInv, PTL DEF Spec

\* For every set of readers and pages: a generation that a reader has mapped,
\* and the current one, stay intact under every interleaving of edits,
\* aborts, truncations, reclamations and commits (DraftStore, Retirement).
THEOREM ReadersProtected == Spec => []HeldIntact
  <1>1. IInv => HeldIntact
    BY DEF IInv, GensOK, Gens, HeldIntact
  <1>2. QED
    BY <1>1, CowStoreInvariant, PTL

\* The committed generation's pages are partitioned among the trees, the free
\* bitmap and the retirement tree: no page leaks or is owned twice.
THEOREM PartitionKept == Spec => []PagesAccounted
  <1>1. IInv => PagesAccounted
    BY DEF IInv, CurOK, PagesAccounted
  <1>2. QED
    BY <1>1, CowStoreInvariant, PTL
=============================================================================
