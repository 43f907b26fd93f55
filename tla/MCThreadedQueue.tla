-------------------------- MODULE MCThreadedQueue --------------------------
(* All inputs of up to four lines of which filterEmail keeps some, and one    *)
(* that begins with an empty line.                                            *)
EXTENDS ThreadedQueue

MCInputs == UNION {[1 .. n -> {"kept", "dropped"}] : n \in 0 .. 4} \cup {<<"blank", "kept">>}
MCArguments == {1, 3}
=============================================================================
