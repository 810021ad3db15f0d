------------------------ MODULE MCReservationEvents -------------------------
(* Small instances of ReservationEvents for TLC. *)
EXTENDS ReservationEvents, TLC

Field == {"member_name", "room_type", "workspace_plan"}

Limits == [member_name |-> 2, room_type |-> 1, workspace_plan |-> 1]

Plain(n) == [padding |-> 0, chars |-> n]

Padded(n) == [padding |-> 2, chars |-> n]

Body(name, room, plan, notes, status, check_out) ==
    [text |-> [member_name |-> name, room_type |-> room, workspace_plan |-> plan],
     notes |-> notes, status |-> status, check_in |-> 0, check_out |-> check_out]

Confirmed == [padding |-> 0, uppercase |-> FALSE, word |-> "confirmed"]

\* A body that needs no normalisation.
OneInput == {Body(Plain(1), Plain(1), Plain(1), Plain(0), Confirmed, 1)}

\* Every text at its limit, padded or not, beyond it and missing, stays around
\* their limits, and statuses of either case, known and unknown.
ManyInputs ==
    {Body(name, room, plan, notes, status, check_out) :
        name \in {Plain(0), Padded(0), Plain(2), Padded(2), Plain(3)},
        room \in {Padded(1), Plain(2)},
        plan \in {Padded(0), Padded(1), Plain(2)},
        notes \in {Padded(1), Plain(2)},
        status \in {Confirmed,
                    [padding |-> 1, uppercase |-> TRUE, word |-> "confirmed"],
                    [padding |-> 0, uppercase |-> FALSE, word |-> "lost"]},
        check_out \in {-1, 0, 2, 3}}

ReservationSymmetry ==
    Permutations(Task) \cup Permutations(Client) \cup Permutations(Id)
=============================================================================
