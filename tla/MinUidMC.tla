------------------------------ MODULE MinUidMC ------------------------------
(* An instance of MinUid for TLC: an int and a uid_t of three bits, an      *)
(* unsigned long of four.                                                   *)
EXTENDS MinUid

Text(form, sign, n) == [form |-> form, sign |-> sign, n |-> n]

\* A number within int, one that only fits uid_t, one that wraps to 0, one that is
\* too large for all; a sign on either side of 0.
MCTexts ==
    {Text("empty", "unsigned", 0), Text("junk", "unsigned", 0), Text("number", "minus", 0),
     Text("number", "minus", 1), Text("number", "plus", 1)}
        \cup {Text("number", "unsigned", n) : n \in {0, 1, 3, 4, 8, 17}}

MCSections == {"Security", "General", "Capture"}
=============================================================================
