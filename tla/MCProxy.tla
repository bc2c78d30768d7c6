------------------------------ MODULE MCProxy ------------------------------
(* Instances of Proxy: one key and one protocol.                           *)
EXTENDS Proxy, TLC

CONSTANTS r1, r2, r3, r4, k, chat, main, spare, acct1, acct2

OneKey == [r \in Requests |-> k]
AllChat == [r \in Requests |-> chat]
MainEverywhere == [p \in Protocols |-> main]

Two == chat :> (main :> <<acct1, acct2>> @@ spare :> <<acct1>>)
NoSpare == chat :> (main :> <<acct1>>)
Spare == chat :> (main :> <<acct1>> @@ spare :> <<acct2>>)
NoChat == <<>>

Steady == {Two}
Single == {NoSpare}
Either == {Spare, NoChat}
SameRequest == Permutations(Requests)
=============================================================================
