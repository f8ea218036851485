----------------------------- MODULE MCAccounts -----------------------------
(* Small instances of Accounts.                                            *)
EXTENDS Accounts, TLC

\* Accounts, addresses and requests are interchangeable.
Symmetric == Permutations(Users) \union Permutations(Emails) \union Permutations(Desks)

\* Bound: an OAuth link that was asked for takes the place of a request under way,
\* and there is one at a time.
OneNonce ==
    /\ Cardinality(asked) <= 1
    /\ asked = {} \/ \E k \in Desks : desk[k] = Idle

=============================================================================
