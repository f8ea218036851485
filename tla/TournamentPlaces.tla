-------------------------- MODULE TournamentPlaces --------------------------
(***************************************************************************)
(* What a tournament promises about its places, whatever payments,         *)
(* reservations, holds and the waitlist do: entrants come in one at a time *)
(* and only while there is room, nobody loses a place to somebody who      *)
(* comes in, and where places are numbered a number that one entrant has   *)
(* is not given to another.                                                *)
(***************************************************************************)
EXTENDS Integers, FiniteSets

CONSTANTS Entrants, MaxTeams, Unlimited, Numbered

VARIABLES
    inside,   \* the entrants with a place: active, or held by staff
    slots     \* the numbered slots of each entrant

vars == <<inside, slots>>

Init ==
    /\ inside = {}
    /\ slots = [r \in Entrants |-> {}]

Taken(r) == UNION {slots[q] : q \in Entrants \ {r}}

\* Only r's slots change, and what r gains was free.
ChangesSlots(r) ==
    /\ slots' \in [Entrants -> SUBSET Nat]
    /\ \A q \in Entrants \ {r} : slots'[q] = slots[q]
    /\ Numbered => slots'[r] \cap Taken(r) \subseteq slots[r]

Enter(r) ==
    /\ r \notin inside
    /\ Unlimited \/ Cardinality(inside) < MaxTeams
    /\ inside' = inside \cup {r}
    /\ ChangesSlots(r)

Move(r) ==
    /\ r \in inside
    /\ UNCHANGED inside
    /\ ChangesSlots(r)

\* Places and slots are given up: several at once when time runs out.
GiveUp ==
    /\ inside' \subseteq inside
    /\ slots' \in [Entrants -> SUBSET Nat]
    /\ \A r \in Entrants : slots'[r] \subseteq slots[r]

Next == GiveUp \/ \E r \in Entrants : Enter(r) \/ Move(r)

Spec == Init /\ [][Next]_vars
=============================================================================
