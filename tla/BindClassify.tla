---------------------------- MODULE BindClassify ----------------------------
(***************************************************************************)
(* The retry classification of one bind attempt (internal/bind): the      *)
(* decision procedure as the code runs it.  An outcome is what the HTTP    *)
(* layer reports of the attempt: no response at all (fault), or a status,  *)
(* a problem type ("none" for a plain ingress answer) and whether the      *)
(* detail text mentions an epoch.                                          *)
(***************************************************************************)
EXTENDS Naturals

Statuses == {400, 401, 403, 404, 409, 499, 500, 502, 503}

\* The RFC 9457 types the decision names, one it reaches by its status only
\* (bind-restore-contended), one the binder handles first
\* (bind-restore-no-challenge), and one no table names.
ProblemTypes ==
    { "none", "sandbox-not-found", "sandbox-not-ready", "bind-in-progress",
      "egress-activation-failed", "bind-restore-failed", "bind-rejected",
      "bind-not-configured", "bind-lease-unenforceable",
      "stale-coord-boot-id", "wrong-pod-uid", "ephem-pub-mismatch",
      "already-bound-different-cid", "pod-tainted",
      "bind-restore-contended", "bind-restore-no-challenge", "unmapped" }

Outcomes == [fault : BOOLEAN, status : Statuses, ptype : ProblemTypes,
             epoch : BOOLEAN]

Classes == {"readiness", "terminal"}

Readiness     == [class |-> "readiness", err |-> "nil"]
Terminal(err) == [class |-> "terminal", err |-> err]

\* The typed error of a status no problem type explains.
StatusFallback(status) ==
    CASE status \in {401, 403} -> Terminal("BindAuthError")
      [] status = 409          -> Terminal("BindError")
      [] status = 503          -> Terminal("SavedStateUnavailableError")
      [] OTHER                 -> Terminal("BindError")

\* Mutant: the status is tested before the epoch text.
RestoreFailedStatusFirst(o) ==
    CASE o.status >= 500             -> Readiness
      [] o.status < 500 /\ o.epoch   -> Terminal("ComputerAlreadyAttachedError")
      [] o.status < 500 /\ ~o.epoch  -> Terminal("SavedStateUnavailableError")

\* A failed restore: the epoch text wins over the status.
RestoreFailed(o) ==
    CASE o.epoch                      -> Terminal("ComputerAlreadyAttachedError")
      [] ~o.epoch /\ o.status >= 500  -> Readiness
      [] ~o.epoch /\ o.status < 500   -> Terminal("SavedStateUnavailableError")

ReadinessTypes == { "sandbox-not-found", "sandbox-not-ready",
                    "bind-in-progress", "egress-activation-failed" }

\* Problem types with a typed terminal error of their own.  A changed pod
\* identity is terminal: the committed receipt targets one immutable pod.
StructuralTypes == {"bind-not-configured", "bind-lease-unenforceable"}
IdentityTypes   == {"stale-coord-boot-id", "wrong-pod-uid", "ephem-pub-mismatch"}
UnusableTypes   == {"already-bound-different-cid", "pod-tainted"}

Classify(o) ==
    CASE o.fault -> Readiness
      [] ~o.fault /\ o.ptype = "none" ->
            IF o.status \in {404, 503} THEN Readiness
                                       ELSE StatusFallback(o.status)
      [] ~o.fault /\ o.ptype \in ReadinessTypes -> Readiness
      [] ~o.fault /\ o.ptype = "bind-restore-failed" -> RestoreFailed(o)
      [] ~o.fault /\ o.ptype = "bind-rejected" -> Terminal("BindAuthError")
      [] ~o.fault /\ o.ptype \in StructuralTypes \cup IdentityTypes ->
            Terminal("BindError")
      [] ~o.fault /\ o.ptype \in UnusableTypes -> Terminal("SandboxUnusableError")
      [] OTHER -> StatusFallback(o.status)
=============================================================================
