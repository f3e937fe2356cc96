----------------------------- MODULE MCThreadPool -----------------------------
(* ThreadPool with three workers and two clients, and tasks that enqueue tasks. *)
EXTENDS ThreadPool
==============================================================================
