------------------------------ MODULE MCDownload ------------------------------
(***************************************************************************)
(* Download for model checking: who owns what.                             *)
(***************************************************************************)
EXTENDS Download

CONSTANTS Ann, Bob, Cy

\* Ann and Cy are there to stay and own everything between them; Bob may vanish.
Swarm      == {Ann, Bob, Cy}
SwarmOwns  == [x \in Swarm |-> CASE x = Ann -> {1, 3} [] x = Bob -> {1, 2, 3} [] x = Cy -> {2}]
SwarmStays == {Ann, Cy}

\* One provider of everything.
Single     == {Ann}
SingleOwns == [x \in Single |-> Chunks]
Nobody     == {}
================================================================================
