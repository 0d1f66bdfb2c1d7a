------------------------------ MODULE BindTable ------------------------------
(***************************************************************************)
(* The decision table the SDKs share                                       *)
(* (internal/bind/testdata/bind-decision-table.json), the reference that   *)
(* Classify is checked against on every outcome a server can emit.         *)
(***************************************************************************)
EXTENDS Binder

\* The outcomes a server can emit: a transport fault carries no answer, and
\* bind-restore-contended is always a 409 (error-taxonomy.json).
Emitted ==
    { x \in Outcomes :
        /\ x.fault => x.status = 400 /\ x.ptype = "none" /\ ~x.epoch
        /\ x.ptype = "bind-restore-contended" => x.status = 409 }

-----------------------------------------------------------------------------
\* The table's rows: what each matches, and its verdict.
Row(ptypes, statuses, epochs, class, err) ==
    [ptypes |-> ptypes, statuses |-> statuses, epochs |-> epochs,
     verdict |-> [class |-> class, err |-> err]]

TypeRow(ptypes, err) == Row(ptypes, Statuses, BOOLEAN, "terminal", err)

Table ==
    { Row({"none"}, {404, 503}, BOOLEAN, "readiness", "nil"),
      Row({"sandbox-not-found", "sandbox-not-ready", "bind-in-progress",
           "egress-activation-failed"}, Statuses, BOOLEAN, "readiness", "nil"),
      Row({"bind-restore-failed"}, {500, 502, 503}, {FALSE}, "readiness", "nil"),
      Row({"bind-restore-failed"}, Statuses, {TRUE}, "terminal",
          "ComputerAlreadyAttachedError"),
      Row({"bind-restore-failed"}, {400, 401, 403, 404, 409, 499}, {FALSE},
          "terminal", "SavedStateUnavailableError"),
      TypeRow({"stale-coord-boot-id", "wrong-pod-uid", "ephem-pub-mismatch",
               "bind-not-configured", "bind-lease-unenforceable",
               "bind-restore-contended"}, "BindError"),
      TypeRow({"bind-rejected"}, "BindAuthError"),
      TypeRow({"already-bound-different-cid", "pod-tainted"},
              "SandboxUnusableError") }

\* The table's status_fallback rows, for what no row above matches.
Fallback ==
    { Row(ProblemTypes, {401, 403}, BOOLEAN, "terminal", "BindAuthError"),
      Row(ProblemTypes, {409}, BOOLEAN, "terminal", "BindError"),
      Row(ProblemTypes, {503}, BOOLEAN, "terminal", "SavedStateUnavailableError"),
      Row(ProblemTypes, {400, 404, 499, 500, 502}, BOOLEAN, "terminal", "BindError") }

Matches(x, row) ==
    x.ptype \in row.ptypes /\ x.status \in row.statuses /\ x.epoch \in row.epochs

Verdicts(x) ==
    LET typed == { row \in Table : Matches(x, row) }
    IN  { row.verdict : row \in
            IF typed # {} THEN typed ELSE { row \in Fallback : Matches(x, row) } }

\* Classify is the table: a transport fault is readiness, every other outcome gets
\* the one verdict of the rows that match it.
ClassifiesAsTable ==
    \A x \in Emitted :
        IF x.fault THEN Classify(x) = Readiness ELSE Verdicts(x) = {Classify(x)}

\* Whenever the loop is about to act on an answer of the coordinator, every outcome
\* a server can emit gets exactly the verdict of the shared decision table: the
\* rows never overlap, and the order of the cases in Classify (type before status,
\* epoch text before status) is the table's precedence.
AgreesWithTable == pc \in {"pubkey", "post"} => ClassifiesAsTable
=============================================================================
