----------------------------- MODULE MCVetoRoom -----------------------------
(***************************************************************************)
(* Instances of VetoRoom for model checking.                               *)
(***************************************************************************)
EXTENDS VetoRoom, TLC

\* A best of one on three maps: two bans, the decider and its side.
BestOfOne == <<
    [kind |-> "ban", actor |-> "A", series |-> 0],
    [kind |-> "ban", actor |-> "B", series |-> 0],
    [kind |-> "decider", actor |-> "none", series |-> 1],
    [kind |-> "side", actor |-> "A", series |-> 1]>>

MapSymmetry == Permutations(Maps)

\* Bound: two requests or syncs in flight, each request overtaken by at most one other.
TwoInFlight ==
    LET flying == {c \in Clients : req[c] # Idle} IN
    /\ Cardinality(flying) + Cardinality({x \in Syncs : seen[x] # "none"}) <= 2
    /\ \A c \in flying : room.revision <= req[c].saw.revision + 1

=============================================================================
