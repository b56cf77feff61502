---- MODULE MCNaptTasks ----
(* Two stations, the HTTP server's task and the event task.                *)
EXTENDS NaptTasks
====
