------------------------ MODULE MCPresenceAdmission -------------------------
(* Small instances of PresenceAdmission for TLC. *)
EXTENDS PresenceAdmission, TLC

CONSTANTS t1, t2, p1, p2, h1, h2, n1, n2, nx, o1, o2, c1, c2, e1, e2

Obs(i, n, c, e, h, prev, amb) ==
    [observation_id |-> i, submission_nonce |-> n, challenge_id |-> c,
     evidence_id |-> e, house_id |-> h, previous_presence_sequence |-> prev,
     ambiguous |-> amb]

\* A first observation, an ambiguous successor, a conflicting reuse of the
\* first's identifier, a reuse of its challenge, of its evidence and of its
\* nonce, and one with a nonce the engine never issued.
ReplayObservations ==
    {Obs(o1, n1, c1, e1, h1, 0, FALSE),
     Obs(o2, n2, c2, e2, h1, 1, TRUE),
     Obs(o1, n2, c2, e2, h1, 1, FALSE),
     Obs(o2, n2, c1, e2, h1, 1, FALSE),
     Obs(o2, n2, c2, e1, h1, 1, FALSE),
     Obs(o2, n1, c2, e2, h1, 1, FALSE),
     Obs(o2, nx, c2, e2, h1, 0, FALSE)}

\* Two observations that claim the same place in a house's sequence, a
\* successor of the first, and one for another house.
BindingObservations ==
    {Obs(o1, n1, c1, e1, h1, 0, FALSE),
     Obs(o2, n2, c2, e2, h1, 0, FALSE),
     Obs(o2, n2, c2, e2, h1, 1, FALSE),
     Obs(o2, n2, c2, e2, h2, 0, FALSE)}

TaskSymmetry == Permutations(Task)
=============================================================================
