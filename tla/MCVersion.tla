----------------------------- MODULE MCVersion -----------------------------
(* Every short version over a few characters, and some longer ones; and    *)
(* the few that show where the order and the canonical string go wrong.    *)
EXTENDS Version

Over(chars, n) == [1..n -> chars]
Short  == {<<d>> \o s : d \in {"0", "1"}, s \in UNION {Over({"0", "1", "a", ".", "~"}, n) : n \in 0..3}}
Marked == {<<"1">> \o s : s \in Over({"0", "1", ".", "-", ":", "+"}, 2) \cup Over({"0", ".", "-"}, 3)}
Revised == {<<>>, <<"-", "0">>, <<"-", "a">>}
Tilded == {<<"1", "a">> \o s \o t : s \in {<<>>, <<"~">>, <<"~", "1">>}, t \in Revised}
            \cup {<<"1", "-", "a", "~">> \o t : t \in Revised} \cup {<<"1", "-", "a">>}
Inputs == Short \cup Marked \cup Tilded \cup {<<"a">>, <<"-", "1">>}
ASSUME InputsFit == NumbersFit

Dotted == {<<"1">>, <<"1", ".", "0">>, <<"1", "a">>}
Dashed == {<<"1", "-", "2", "-", "0">>}
Tildes == {<<"1">>, <<"1", "~">>}
Long   == {<<"9">>, <<"1", "2", "8">>}
============================================================================
