----------------------------- MODULE MCDnsPool -----------------------------
(***************************************************************************)
(* Instances of DnsPool for TLC: two files, the first with two hostnames.  *)
(***************************************************************************)
EXTENDS DnsPool, TLC

CONSTANTS h1, h2, h3
MCLoads == <<<<h1, h2>>, <<h3>>>>
Symmetry == Permutations(Threads) \cup Permutations(Addresses)
=============================================================================
