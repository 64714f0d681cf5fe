------------------------------- MODULE MCWalk -------------------------------
(* Two switches that report one hostname - the second saved without an      *)
(* address - and a third saved session that is a duplicate of the first.    *)
EXTENDS Walk

MCSession == 1..3
MCHostOf  == [s \in MCSession |-> IF s = 2 THEN NoHost ELSE "h1"]
MCKeyOf   == [s \in MCSession |-> IF s = 2 THEN "k2" ELSE "k1"]
MCBasesOf == [s \in MCSession |-> {"sw1"}]
=============================================================================
