----------------------------- MODULE MCSession -----------------------------
(* An instance of Session for TLC. *)
EXTENDS Session

CONSTANTS p1, p2, c1, c2

MCProcesses == {p1, p2}
MCConns == {c1, c2}
MCDiligent == {c1}

\* Files that no hub may start with, and a token that changes.
MCRosters == {Missing, Garbled, [n \in {} |-> ""],
              [n \in {"boss", ""} |-> "old"],
              [n \in {"boss", "hub"} |-> "old"],
              [n \in {"boss"} |-> "old"],
              [n \in {"boss"} |-> "new"]}

MCHellos == {<<"boss", "old">>, <<"hub", "old">>, <<"", "old">>}
=============================================================================
