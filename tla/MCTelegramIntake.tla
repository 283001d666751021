-------------------------- MODULE MCTelegramIntake --------------------------
(***************************************************************************)
(* A DM with a link and a photo that shares it again beside another; a group*)
(* with a voice note that mentions the bot and /reindex.  Either chat may  *)
(* fail while the other does.                                              *)
(***************************************************************************)
EXTENDS TelegramIntake, TLC

CONSTANTS m1, m2, m3, m4, l1, l2

Plain == [chat |-> "dm", private |-> TRUE, kind |-> "text", user |-> TRUE,
          mention |-> FALSE, command |-> "none", links |-> {},
          here |-> FALSE, blank |-> FALSE]
InGroup == [Plain EXCEPT !.chat = "group", !.private = FALSE]

MCShape ==
    m1 :> [Plain EXCEPT !.links = {l1}] @@
    m2 :> [Plain EXCEPT !.kind = "photo", !.links = {l1, l2}] @@
    m3 :> [InGroup EXCEPT !.kind = "voice", !.mention = TRUE, !.links = {l1}] @@
    m4 :> [InGroup EXCEPT !.command = "announced"]
=============================================================================
