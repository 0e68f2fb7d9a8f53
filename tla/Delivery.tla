------------------------------ MODULE Delivery ------------------------------
(***************************************************************************)
(* What sync_file promises whoever asks for a file (src/src/download.rs):  *)
(* the target is absent or the whole remote file, it becomes whole in one  *)
(* step, which only a power loss soon after can undo, and every answer is  *)
(* true when given.  Partials, ranges, retries and resumes do not show.    *)
(***************************************************************************)
VARIABLES
  target,   \* what stands at local_path: "absent", "whole", or anything else
  durable,  \* a power loss would leave it there
  busy,     \* a sync_file is running
  answer    \* how the last one ended

vars == <<target, durable, busy, answer>>

Init == target = "absent" /\ durable = TRUE /\ busy = FALSE /\ answer = "none"

Ask ==
  /\ ~busy /\ target = "absent"
  /\ busy' = TRUE /\ answer' = "none"
  /\ UNCHANGED <<target, durable>>

\* "Existing files are skipped."
Skip ==
  /\ ~busy /\ target = "whole"
  /\ answer' = "skipped"
  /\ UNCHANGED <<target, durable, busy>>

Deliver ==
  /\ busy /\ target = "absent"
  /\ target' = "whole" /\ durable' = FALSE
  /\ busy' = FALSE /\ answer' = "done"

\* Before anything was started, or while it runs.
Fail ==
  /\ target = "absent"
  /\ busy' = FALSE /\ answer' \in IF busy THEN {"failed", "cancelled"} ELSE {"failed"}
  /\ UNCHANGED <<target, durable>>

\* The process ends without an answer.
Die ==
  /\ busy' = FALSE /\ answer' = "none"
  /\ UNCHANGED <<target, durable>>

LosePower ==
  /\ target' \in IF durable THEN {target} ELSE {target, "absent"}
  /\ durable' = TRUE /\ busy' = FALSE /\ answer' = "none"

Settle == durable' = TRUE /\ UNCHANGED <<target, busy, answer>>

Next == Ask \/ Skip \/ Deliver \/ Fail \/ Die \/ LosePower \/ Settle

Spec == Init /\ [][Next]_vars

=============================================================================
