-------------------------- MODULE MCRosterInvites --------------------------
(***************************************************************************)
(* Instances of RosterInvites for model checking.                          *)
(***************************************************************************)
EXTENDS RosterInvites, TLC

\* Addresses and registrations are interchangeable.
RosterSymmetry == Permutations(People) \union Permutations(Regs)

\* Bound: beside a second registration nothing runs out of time, no desk
\* request is open and no verdict is set by hand; it is there for the answers that cover several of them.
SecondIsPlain ==
    (\A r \in Regs : reg[r].status # "none") /\ Cardinality(Regs) > 1 =>
        /\ desk = Idle
        /\ \A r \in Regs : ~reg[r].byHand
        /\ \A m \in People, r \in Regs :
              {saved[m], reg[r].rows[m]} \intersect {"lapsed", "expired"} = {}

=============================================================================
