-------------------------- MODULE WorkflowLifecycle --------------------------
(***************************************************************************)
(* What the workflow storage promises its users, whatever the processes,   *)
(* connections and crashes behind it: the life of one workflow.            *)
(*                                                                         *)
(*      unknown --Add--> queued --Take--> active --Complete--> complete    *)
(*                         ^                |                              *)
(*                         +----Requeue-----+                              *)
(*                                                                         *)
(* Once the answer to a requeue of a workflow has been lost the storage    *)
(* promises no order for it any more (Redo): the requeue is run again at   *)
(* some later time, whatever has become of the workflow by then.           *)
(***************************************************************************)
CONSTANT Workflow
VARIABLES status, ambiguous

Status == {"unknown", "queued", "active", "complete"}

Init ==
  /\ status = [w \in Workflow |-> "unknown"]
  /\ ambiguous = {}

Move(w, from, to) ==
  /\ status[w] = from
  /\ status' = [status EXCEPT ![w] = to]

Add(w) == Move(w, "unknown", "queued") /\ UNCHANGED ambiguous
Take(w) == Move(w, "queued", "active") /\ UNCHANGED ambiguous
Complete(w) == Move(w, "active", "complete") /\ UNCHANGED ambiguous
Requeue(w) ==
  /\ Move(w, "active", "queued")
  /\ ambiguous' \in {ambiguous, ambiguous \cup {w}}

\* After a lost answer: back to the queue from anywhere, or completed from the queue.
Redo(w) ==
  /\ w \in ambiguous
  /\ \E to \in {"queued", "complete"} : status' = [status EXCEPT ![w] = to]
  /\ status[w] # "unknown"
  /\ UNCHANGED ambiguous

Next == \E w \in Workflow : Add(w) \/ Take(w) \/ Complete(w) \/ Requeue(w) \/ Redo(w)

Spec == Init /\ [][Next]_<<status, ambiguous>>
=============================================================================
