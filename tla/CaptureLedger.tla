--------------------------- MODULE CaptureLedger ---------------------------
(***************************************************************************)
(* What the durable ingestion queue promises whoever hands it a capture:   *)
(* an accepted capture stays open until it is either captured or, after at *)
(* least MaxAttempts tries, abandoned; both fates are final, and one of    *)
(* them is eventually reached.  No row, clock, claim or consumer appears   *)
(* here: IngestionQueue is shown to implement this ledger.                 *)
(***************************************************************************)
EXTENDS Naturals

CONSTANTS Jobs,          \* the captures that may be shared
          MaxAttempts    \* tries granted before a capture may be abandoned

VARIABLES fate,          \* fate[j]: where capture j stands
          tries          \* tries[j]: how many times j has been taken up

ledger == <<fate, tries>>

Fates == {"unseen", "open", "captured", "abandoned"}

Init == /\ fate = [j \in Jobs |-> "unseen"]
        /\ tries = [j \in Jobs |-> 0]

Accept(j) == /\ fate[j] = "unseen"
             /\ fate' = [fate EXCEPT ![j] = "open"]
             /\ UNCHANGED tries

\* Several open captures may be taken up by one step: a claim is a batch.
Try(batch) == /\ \A j \in batch : fate[j] = "open"
              /\ tries' = [j \in Jobs |-> IF j \in batch THEN tries[j] + 1
                                                         ELSE tries[j]]
              /\ UNCHANGED fate

Capture(j) == /\ fate[j] = "open"
              /\ tries[j] > 0
              /\ fate' = [fate EXCEPT ![j] = "captured"]
              /\ UNCHANGED tries

Abandon(j) == /\ fate[j] = "open"
              /\ tries[j] > 0
              /\ tries[j] >= MaxAttempts
              /\ fate' = [fate EXCEPT ![j] = "abandoned"]
              /\ UNCHANGED tries

Settle(j) == Capture(j) \/ Abandon(j)

Next == \/ \E j \in Jobs : Accept(j) \/ Settle(j)
        \/ \E batch \in SUBSET Jobs : Try(batch)

SafeSpec == Init /\ [][Next]_ledger

\* Stated as leads-to: the ledger promises an outcome, not a way to reach it.
EventuallySettled ==
    \A j \in Jobs : fate[j] = "open" ~> fate[j] \in {"captured", "abandoned"}

Spec == SafeSpec /\ EventuallySettled
============================================================================
