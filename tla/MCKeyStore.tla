----------------------------- MODULE MCKeyStore -----------------------------
(* Instances of KeyStore. Ids are interchangeable, and so are handlers.    *)
EXTENDS KeyStore, TLC

CONSTANTS key1, key2, key3, emp1, emp2, acc1, acc2, adm1, adm2

Interchangeable == Permutations(Keys) \cup Permutations(Accesses) \cup Permutations(Employees)
=============================================================================
