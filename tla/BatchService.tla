---------------------------- MODULE BatchService ----------------------------
(***************************************************************************)
(* What DIPP promises to do with image batches, without queues, segments   *)
(* or system calls.  Batches are taken in the order of their submission,   *)
(* one at a time.  A verdict is reached for each; the images of a batch    *)
(* that is kept are published one by one, each exactly once, and nothing   *)
(* of a batch that is dropped is published.  A crash, and only a crash,    *)
(* may abandon the current batch half way.                                 *)
(***************************************************************************)
EXTENDS Naturals, Sequences

CONSTANTS Batches, NumImages, NoBatch

VARIABLES
  submitted,  \* batches in the order of their submission
  taken,      \* how many of them have been taken
  current,    \* the batch at hand
  verdict,    \* "none", "success" or "failure"
  progress,   \* images of the batch at hand that are published
  published   \* everything published

vars == <<submitted, taken, current, verdict, progress, published>>

Init ==
  /\ submitted = <<>> /\ taken = 0
  /\ current = NoBatch /\ verdict = "none" /\ progress = 0
  /\ published = <<>>

Submit(b) ==
  /\ \A k \in DOMAIN submitted : submitted[k] # b
  /\ submitted' = Append(submitted, b)
  /\ UNCHANGED <<taken, current, verdict, progress, published>>

Take ==
  /\ current = NoBatch /\ taken < Len(submitted)
  /\ taken' = taken + 1
  /\ current' = submitted[taken + 1]
  /\ verdict' = "none" /\ progress' = 0
  /\ UNCHANGED <<submitted, published>>

Judge(v) ==
  /\ current # NoBatch /\ verdict = "none"
  /\ verdict' = v
  /\ UNCHANGED <<submitted, taken, current, progress, published>>

Publish ==
  /\ current # NoBatch /\ verdict = "success" /\ progress < NumImages[current]
  /\ progress' = progress + 1
  /\ published' = Append(published, [of |-> current, image |-> progress + 1])
  /\ UNCHANGED <<submitted, taken, current, verdict>>

\* A batch is let go whole or, if its execution failed, not at all.
Retire ==
  /\ current # NoBatch
  /\ progress = (IF verdict = "success" THEN NumImages[current] ELSE 0)
  /\ verdict # "none"
  /\ current' = NoBatch /\ verdict' = "none" /\ progress' = 0
  /\ UNCHANGED <<submitted, taken, published>>

Crash ==
  /\ current' = NoBatch /\ verdict' = "none" /\ progress' = 0
  /\ UNCHANGED <<submitted, taken, published>>

Next ==
  \/ \E b \in Batches : Submit(b)
  \/ Take \/ Publish \/ Retire \/ Crash
  \/ \E v \in {"success", "failure"} : Judge(v)

Spec == Init /\ [][Next]_vars
=============================================================================
