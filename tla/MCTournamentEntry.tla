------------------------- MODULE MCTournamentEntry -------------------------
(***************************************************************************)
(* Instances of TournamentEntry for model checking.                        *)
(***************************************************************************)
EXTENDS TournamentEntry, TLC

\* One order charged twice, and the first of the charges taken back.
TwoCharges == [code: {"paid"}, charge: {1, 2}] \cup [code: {"charged_back"}, charge: {1}]

\* A charge that fails at first.
OneCharge == [code: {"failed", "paid"}, charge: {1}]

\* Entrants are interchangeable.
RegSymmetry == Permutations(Regs)

=============================================================================
