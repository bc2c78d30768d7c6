-------------------------- MODULE MCSplitMigration --------------------------
(* An instance of SplitMigration: two keys, a few requests.                *)
EXTENDS SplitMigration, TLC

CONSTANTS k1, k2

SameKey == Permutations(Keys)
=============================================================================
