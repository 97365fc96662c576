---------------------------- MODULE MCTaskQueue ----------------------------
(* TLC instance of TaskQueue: tasks and threads are model values.          *)
EXTENDS TaskQueue

=============================================================================
