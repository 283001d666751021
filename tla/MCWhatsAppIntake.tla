------------------------- MODULE MCWhatsAppIntake -------------------------
(* The instance of WhatsAppIntake for TLC: a message with two links, a     *)
(* text without, a voice note and a sticker, any two of them sent, by one  *)
(* sender.                                                                 *)
EXTENDS WhatsAppIntake, TLC

CONSTANTS two, text, voice, sticker, link1, link2, ann

BothLinks == {link1, link2}
Found == [m \in Messages |-> IF m = two THEN BothLinks ELSE {}]
Typed == (two :> "note" @@ text :> "note" @@ voice :> "voice"
          @@ sticker :> "other")
FromAnn == [m \in Messages |-> ann]
===========================================================================
