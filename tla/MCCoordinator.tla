---------------------------- MODULE MCCoordinator ----------------------------
(* Small instances of Coordinator for TLC: a worker and controllers. *)
EXTENDS Coordinator, MCScheduler

CONSTANTS wkr, ctl1, ctl2

Publish(boot) == [type |-> "PUBLISH_PARTICIPANT", in |-> Part(p1, 1, boot, TRUE)]
UpdatePlan == [type |-> "UPDATE_PLAN", in |-> Plan(plan1, 1, TRUE, "l1")]
Submit == [type |-> "SUBMIT_COLLECTIVE", in |-> One(1)]
Query == [type |-> "QUERY_SCHEDULE"]
Greet == [type |-> "HELLO"]
Register == [type |-> "REGISTER"]
Fence == [type |-> "FENCE_WORKER", boot |-> b1]
Shutdown == [type |-> "SHUTDOWN"]

OwnedByWorker == [c \in Conns |-> IF c = wkr THEN {p1} ELSE {}]
WorkerBoot == [c \in Conns |-> b1]

\* coordinator: two controllers that query at once, one of which fences and shuts down
TwoControllers ==
  [c \in Conns |-> CASE c = wkr -> <<Greet, Register, Publish(b1)>>
                     [] c = ctl1 -> <<UpdatePlan, Submit, Query>>
                     [] c = ctl2 -> <<Submit, Query, Fence, Shutdown>>]

\* no_completion: the script of the integrated proof up to the worker's completion
OneController ==
  [c \in Conns |-> IF c = wkr THEN <<Greet, Register, Publish(b1)>>
                   ELSE <<UpdatePlan, Submit, Query>>]
===============================================================================
