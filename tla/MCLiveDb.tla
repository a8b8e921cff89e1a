------------------------------ MODULE MCLiveDb ------------------------------
(***************************************************************************)
(* Instances of LiveDb for TLC.  Readers are interchangeable, and so are   *)
(* writers.                                                                *)
(***************************************************************************)
EXTENDS LiveDb, TLC

Symmetry == Permutations(Readers) \cup Permutations(Writers)

\* Everything but disk.  Only PowerLoss and NotCommittedIsFinal read disk, so
\* where neither occurs, states that differ in it behave alike.
WithoutDisk == <<mem, gateX, gateS, wlock, slotLock, slotTxn, rd, wr, nonces,
                 acked, verdict>>
=============================================================================
