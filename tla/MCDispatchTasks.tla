-------------------------- MODULE MCDispatchTasks --------------------------
(* Scenarios: which of two sibling tasks a, b and a's own child c are      *)
(* launched, and what the platform and the user do to them.                *)
EXTENDS DispatchTasks

CONSTANTS a, b, c

Launcher == [t \in Tasks |-> IF t = c THEN a ELSE Root]

Calm ==
    [launched |-> {}, suppressed |-> {}, listened |-> {}, signals |-> FALSE, cancels |-> 0,
     refusals |-> 0, faults |-> 0, errors |-> 0, stalls |-> 0, reopens |-> 0, crashes |-> 0]

\* Two tasks of the user's session, one of them cancelled at any moment.
Siblings == [Calm EXCEPT !.launched = {a, b}, !.cancels = 1]

\* A task that launches one of its own and yields.
Nested == [Calm EXCEPT !.launched = {a, c}, !.stalls = 1]

Alone == [Calm EXCEPT !.launched = {a}, !.listened = {a}]

\* Prompts and reads fail, the task is slow, or asks for approval.
Faulty == [Alone EXCEPT !.faults = 2, !.stalls = 1, !.signals = TRUE]

\* A cancel, at any moment, and a session that errs, is deleted or answers nothing.
Failing == [Alone EXCEPT !.cancels = 1, !.errors = 1]

\* The same for a task of the graph dispatcher, which only listens.
Silent == [Failing EXCEPT !.suppressed = {a}, !.faults = 1]

\* The platform refuses the session, or its prompt.
Refused == [Alone EXCEPT !.refusals = 1, !.stalls = 1]

\* The process crashes and recovers from the state file.
Restarted == [Alone EXCEPT !.crashes = 1, !.faults = 1, !.signals = TRUE]

\* A task is continued, at any moment.
Continued == [Alone EXCEPT !.reopens = 1, !.refusals = 1]

TaskLimits == {Siblings, Nested, Faulty, Failing, Silent, Refused, Restarted, Continued}
=============================================================================
