--------------------------- MODULE MCConversation ---------------------------
(* A small instance of Conversation: a plan that can be carried out, and one *)
(* whose tasks wait for each other behind a task that waits for nothing.     *)
EXTENDS Conversation

Task(i, deps) == [id |-> i, deps |-> deps, roles |-> TRUE, paths |-> TRUE]
MCPlans == {[roles |-> TRUE, tasks |-> <<Task(1, {}), Task(2, {1})>>],
            [roles |-> TRUE, tasks |-> <<Task(1, {}), Task(2, {3}), Task(3, {2})>>]}
=============================================================================
