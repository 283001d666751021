--------------------------- MODULE MCMcpSources ---------------------------
(* Instances of McpSources for TLC: GSuite and two servers, of which one *)
(* may be down, and whose tool names clash.                              *)
EXTENDS McpSources, TLC

CONSTANTS google, x, y, c, d, mail, find, dots, cursor1, cursor2

InOrder == <<google, x, y>>
Slugs == [s \in {google, x, y} |-> IF s = google THEN "g" ELSE "s"]
Words == [t \in {mail, find, dots} |-> IF t = dots THEN "none"
                                       ELSE IF t = mail THEN "mail" ELSE "find"]
Answers == [s \in {google, x, y} |-> IF s = google THEN {<<mail>>}
                                     ELSE {<<find>>, <<dots, mail>>}]
Own == {<<"g", "find">>}
===========================================================================
