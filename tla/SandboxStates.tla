---------------------------- MODULE SandboxStates ----------------------------
(***************************************************************************)
(* What the calls on a Computer tell apart about one of its sandboxes, and *)
(* how the lifecycle server and the requests it carries out change it.     *)
(* SandboxContract states it as a specification of one sandbox, which      *)
(* SandboxLifecycle implements; ComputerHandle has one for each sandbox.   *)
(***************************************************************************)

\* none: not made yet; up: runs, is paused or changes between the two; failed: has a
\* recorded failure, a save that failed included; stopping: a graceful stop that may
\* yet fail to save; leaving: its teardown is under way; gone: 404 or terminated with
\* COMPUTE_RELEASED.
States == {"none", "up", "failed", "stopping", "leaving", "gone"}

\* What the server makes of each by itself (external): a sandbox fails and recovers,
\* its save ends either way, it expires, and a teardown completes.
Drifts == [ none     |-> {},
            up       |-> {"failed", "gone"},
            failed   |-> {"up", "leaving", "gone"},
            stopping |-> {"failed", "leaving", "gone"},
            leaving  |-> {"gone"},
            gone     |-> {} ]

\* A Stop is admitted while the sandbox runs, and again after a save that failed.
Stoppable == {"up", "failed"}

\* The conditional release of Recover meets a sandbox with a recorded failure.
Releasable == {"failed", "leaving"}

\* What a DELETE makes of a sandbox: its teardown begins and may take a while.
Torn(s) == IF s = "gone" THEN {"gone"} ELSE {"leaving", "gone"}
=============================================================================
