--------------------------- MODULE MCChallongeSync ---------------------------
(***************************************************************************)
(* An instance of ChallongeSync: one fixture, the scheduled sync and one   *)
(* by staff.                                                               *)
(***************************************************************************)
EXTENDS ChallongeSync

\* An edit or a veto under way, or a status that only these leave behind.
InHand(f) ==
    \/ edit[f] # "absent" \/ veto[f] # "absent"
    \/ status[f] \notin {mapChallongeStatus(s) : s \in UpStates}

\* The rows and the lease are explored apart: while a fixture is in hand, one sync
\* runs, within its lease and without faults, on an automatic connection.
OneSyncInHand ==
    (\E f \in Fixtures : InHand(f)) =>
        /\ \A w \in Syncs : ~sync[w].late
        /\ \A w \in Manuals : sync[w] = Idle
        /\ conn.automatic /\ over # "by staff" /\ faults = 0

=============================================================================
