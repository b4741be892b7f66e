---------------------------- MODULE TaskViewCases ----------------------------
(***************************************************************************)
(* The batches that TaskViews is checked with: a draft in every state that *)
(* promotion, generation and cancellation leave it in, with the tasks that *)
(* it may then have, beside a second draft and a task without a draft.     *)
(***************************************************************************)
EXTENDS TaskViews

Draft(status, promotion, prompt) == [status |-> status, promotion |-> promotion, prompt |-> prompt]
ATask(draft, of, status, deleted) == [draft |-> draft, batch |-> of, status |-> status, deleted |-> deleted, prompt |-> "p"]

Unpromoted ==
    {Draft("PENDING", "PENDING", "none"), Draft("GENERATING", "PENDING", "none"), Draft("READY", "PENDING", "p"),
     Draft("READY", "FAILED", "p"), Draft("READY", "PENDING", "none"), Draft("FAILED", "PENDING", "none"),
     Draft("MANUAL_REQUIRED", "PENDING", "none"), Draft("CANCELLED", "CANCELLED", "none")}
Promoted == {Draft("READY", "TASK_CREATED", "p"), Draft("READY", "TASK_CREATED", "edited")}
Undone == {Draft("FAILED", "TASK_CREATED", "none"), Draft("FAILED", "FAILED", "none"), Draft("READY", "FAILED", "p")}

Reached == {"PENDING_SUBMIT", "DISPATCHING", "IN_QUEUE", "IN_PROGRESS", "UNKNOWN", "COMPLETED", "FAILED", "TIMED_OUT", "CANCELLED"}
First == {ATask(1, "this", s, FALSE) : s \in Reached}
         \cup {ATask(1, "none", "FAILED", FALSE), ATask(1, "other", "COMPLETED", FALSE), ATask(1, "this", "COMPLETED", TRUE)}
Second == {ATask(1, "this", "COMPLETED", FALSE), ATask(1, "this", "FAILED", FALSE), ATask(1, "none", "FAILED", FALSE)}
Histories == {<<a>> : a \in First} \cup {<<a, b>> : a \in First, b \in Second}

Heads ==
    {<<d, <<>>>> : d \in Unpromoted}
    \cup {<<d, h>> : d \in Promoted, h \in Histories}
    \cup {<<d, <<ATask(1, "this", s, FALSE)>>>> : d \in Undone, s \in {"PENDING_SUBMIT", "FAILED", "CANCELLED"}}
Tails ==
    {[drafts |-> <<>>, tasks |-> <<>>],
     [drafts |-> <<Draft("READY", "FAILED", "p")>>, tasks |-> <<>>],
     [drafts |-> <<Draft("MANUAL_REQUIRED", "PENDING", "none")>>,
      tasks |-> <<ATask(0, "this", "FAILED", FALSE), ATask(0, "this", "COMPLETED", FALSE), ATask(0, "this", "TIMED_OUT", FALSE)>>]}

Batch(head, tail, status) ==
    LET b == [status |-> status, drafts |-> <<head[1]>> \o tail.drafts, tasks |-> head[2] \o tail.tasks, counts |-> 0]
    IN  [b EXCEPT !.counts = CountsFor(b)]

Init == batch \in {Batch(h, t, s) : h \in Heads, t \in Tails, s \in {"INCOMPLETE", "CANCELLED"}} /\ Start
Spec == Init /\ [][Next]_<<batch, did>>
=============================================================================
