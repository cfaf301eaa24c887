------------------------------ MODULE TaskLife ------------------------------
(***************************************************************************)
(* What the task queue promises its users about each task, and nothing     *)
(* about how: a task that was accepted is started at most as often as it   *)
(* may be repeated, never after it was cancelled, ends once, and succeeds  *)
(* only if nobody cancelled it.                                            *)
(***************************************************************************)
EXTENDS Integers, Sequences

VARIABLE life   \* one record per accepted task

Phases == {"pending", "active", "succeeded", "ended"}

Task == [phase : Phases, starts : Nat, limit : 1..5, flagged : BOOLEAN]

Fresh(n) == [phase |-> "pending", starts |-> 0, limit |-> n, flagged |-> FALSE]

Init == \/ life = <<>>
        \/ \E n \in 1..5 : life = <<Fresh(n)>>

(* The task t becomes l; nothing else changes.                             *)
Becomes(t, l) == life' = [life EXCEPT ![t] = l]

Accept == \E n \in 1..5 : life' = Append(life, Fresh(n))

Start(t) ==
    /\ life[t].phase = "pending" /\ ~life[t].flagged
    /\ life[t].starts < life[t].limit
    /\ Becomes(t, [life[t] EXCEPT !.phase = "active", !.starts = @ + 1])

(* Only a task that may be started again goes back to the queue.           *)
Repeat(t) ==
    /\ life[t].phase = "active" /\ ~life[t].flagged
    /\ life[t].starts < life[t].limit
    /\ Becomes(t, [life[t] EXCEPT !.phase = "pending"])

Succeed(t) ==
    /\ life[t].phase = "active" /\ ~life[t].flagged
    /\ Becomes(t, [life[t] EXCEPT !.phase = "succeeded"])

Give(t) ==
    /\ life[t].phase = "active"
    /\ Becomes(t, [life[t] EXCEPT !.phase = "ended"])

(* Cancelling ends a pending task and marks an active one.                 *)
Flag(t) ==
    /\ life[t].phase \in {"pending", "active"}
    /\ Becomes(t, [life[t] EXCEPT !.flagged = TRUE,
                      !.phase = IF @ = "pending" THEN "ended" ELSE @])

Step(t) == Start(t) \/ Repeat(t) \/ Succeed(t) \/ Give(t) \/ Flag(t)

Next == Accept \/ \E t \in DOMAIN life : Step(t)

Spec == Init /\ [][Next]_life
============================================================================
