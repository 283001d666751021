----------------------- MODULE MCIngestionPipeline -----------------------
(* Instances of IngestionPipeline for TLC: c1 and c2 share one link,      *)
(* n1 is a note.                                                          *)
EXTENDS IngestionPipeline

CONSTANTS c1, c2, n1, link, note

TwoLinks == {c1, c2}
OneLink == {c1}
LinkAndNote == {c1, n1}
LinkUrl == {link}
BothUrls == {link, note}
SameLink == [c \in {c1, c2} |-> link]
OnlyLink == [c \in {c1} |-> link]
OwnUrl == [c \in {c1, n1} |-> IF c = n1 THEN note ELSE link]
JustTheNote == {n1}
==========================================================================
