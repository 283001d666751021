------------------------- MODULE MCIngestionQueue --------------------------
(***************************************************************************)
(* Instances of IngestionQueue for TLC.  The delays of the code are scaled *)
(* to a few ticks that keep their order: the wait of a link and the first  *)
(* backoff are shorter than the age at which a claim is stale, and so are  *)
(* the backoffs a row reaches within its attempts.                         *)
(***************************************************************************)
EXTENDS IngestionQueue

LinkDelay == 1      \* CONTEXT_WINDOW_WAIT_SECS
FirstBackoff == 1   \* 60 s
BackoffCap == 2     \* MAX_BACKOFF_SECS, 1 h in the code, reached sooner here
StaleClaim == 2     \* STALE_CLAIM_MINUTES
ShiftClamp == 3     \* any shift large enough to pass the cap
============================================================================
