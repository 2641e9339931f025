------------------------------ MODULE MCDiscovery ------------------------------
(***************************************************************************)
(* Discovery for model checking: two providers and one downloader, and     *)
(* chunk files as in cp1, whose ids differ from the master file's.         *)
(***************************************************************************)
EXTENDS Discovery

CONSTANTS h1, h2, h3, key

Line(id, hash) == [comment |-> FALSE, id |-> id, hash |-> hash]
Heading == Line(Unset, Unset)
Master  == <<Heading, Heading, Line(0, h1), Line(1, h2), Line(2, h3)>>
Held    == <<<<Line(0, h1)>>, <<Line(0, h2), Line(1, h3)>>, << >> >>
Asked   == [l \in {<<key>>} |-> <<Line(0, h3), Line(1, h2), Line(2, h1)>>]

Ids3     == {1, 2, 3}
OneHost  == [p \in Ids3 |-> [ip |-> Loopback, port |-> 1110 + p]]
OnePort  == [p \in Ids3 |-> [ip |-> p, port |-> IF p = 3 THEN 1113 ELSE 1111]]
Listed   == [k \in Ids3 |-> LET p == <<3, 1, 2>>[k] IN
                             [comment |-> FALSE, id |-> p, addr |-> Address[p]]]
            \o <<[comment |-> TRUE, id |-> 3, addr |-> Address[1]]>>
================================================================================
