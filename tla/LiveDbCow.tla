----------------------------- MODULE LiveDbCow -----------------------------
(***************************************************************************)
(* A live database implements the copy-on-write store, as long as the      *)
(* machine keeps running (no "power" fault).                               *)
(***************************************************************************)
EXTENDS LiveDb

\* The current generation is the one of the best meta page; a draft exists
\* from its first change until its meta page is complete.  An unusable writer
\* can no longer publish the draft that it could not discard.
BestMeta == mem.meta[CHOOSE i \in BestPage(mem.meta, mem.len) : TRUE]
LeaseDraft == IF wlock = None \/ wr[wlock].pc \in {"written", "unusable"} THEN None
              ELSE wr[wlock].draft

Cow == INSTANCE CowStore
         WITH cur <- BestMeta, draft <- LeaseDraft, page <- mem.page, len <- mem.len,
              pins <- [r \in Readers |-> rd[r].gen]

\* Every step of the live database, of any process and with processes dying
\* anywhere, is a step of the copy-on-write store or changes nothing there:
\* the locks, the reader table and the order of the calls let nothing else
\* happen to the pages.
ImplementsCowStore == Cow!Spec
=============================================================================
