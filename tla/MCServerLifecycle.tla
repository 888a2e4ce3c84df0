------------------------- MODULE MCServerLifecycle --------------------------
(* Instances of ServerLifecycle for TLC. *)
EXTENDS ServerLifecycle

CONSTANTS c1, c2, alice, pass1, pass2

OneConn == {c1}
TwoConn == {c1, c2}

\* Every users.db of at most two lines, and one with a user only.
Lines == UserLine \cup {Skipped}
SmallFiles == {<<>>} \cup {<<l>> : l \in Lines} \cup {<<l, m>> : l, m \in Lines}
OneFile == {<<[user |-> alice, hash |-> Hash(pass1), flag |-> "1"]>>}
=============================================================================
