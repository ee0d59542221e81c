----------------------------- MODULE UserStoreMC ----------------------------
(* Instances of UserStore for TLC.                                          *)
EXTENDS UserStore, TLC

\* What can be typed: two labels of one word, one of two words, of which the
\* daemon reads the first, and one of blanks only.
TwoWords   == "work lamp"
Blank      == " "
TypedTexts == {Default, "work", TwoWords, Blank}
WordOf     == [t \in TypedTexts |-> CASE t = TwoWords -> "work"
                                      [] t = Blank    -> "none"
                                      [] OTHER        -> t]

\* Two cameras of one type, or of two.
TwoLayouts == {<<"generic", "generic">>, <<"generic", "ir">>}
OneLayout  == {<<"generic", "ir">>}

Legacy == [NoDoc EXCEPT !.legacy = [t \in Types |-> IF t = "generic" THEN {"old"} ELSE {}]]
Fresh  == [NoDoc EXCEPT !.array["generic"] = TRUE,
                        !.entries["generic"] = {[at |-> 1, label |-> "work", data |-> {"old"}]}]

\* No file, a file of the old format, one of the new.
SomeFiles == {[state |-> "absent", doc |-> NoDoc], [state |-> "ok", doc |-> Legacy],
              [state |-> "ok", doc |-> Fresh]}
NoFile    == {[state |-> "absent", doc |-> NoDoc]}

Symmetry == Permutations(Sessions)
-----------------------------------------------------------------------------
(* What the documentation and the tool's own messages say.                  *)

\* src/cli/main.cpp, "Cancelled. Embedding discarded.": the captures of a session
\* that said so never become an embedding.
DiscardedStaysOut ==
    \A s \in Sessions : sess[s].said = "discarded" =>
      \A t \in Types : \A e \in file.doc.entries[t] : s \notin e.data
=============================================================================
