----------------------------- MODULE ControlPlane -----------------------------
(***************************************************************************)
(* Calls to the control plane from several goroutines of one client        *)
(* (internal/controlplane do and send, CreateComputer's repeats), over the *)
(* shared token cache (internal/tokens ControlTokenSource) and the bounded *)
(* resending of internal/base/transport DoRaw.                             *)
(***************************************************************************)
EXTENDS Naturals

CONSTANTS
    Procs,         \* goroutines, each makes one call
    Sends,         \* transport maxAttempts
    MintAttempts,  \* ControlTokenSource maxAttempts
    BusyRepeats,   \* maxCreateBusyRepeats
    MaxMint,       \* bound: tokens the Portal mints
    MaxRevoke      \* bound: revocations of every token issued so far

ASSUME ControlAssumption ==
    /\ Sends \in Nat \ {0} /\ MintAttempts \in Nat \ {0} /\ BusyRepeats \in Nat
    /\ MaxMint \in Nat \ {0} /\ MaxRevoke \in Nat

VARIABLES
    cache,    \* the cached token, 0 if none, and whether it is before exp - skew
    held,     \* who holds the source's mutex
    minted,   \* tokens the Portal has minted
    revoked,  \* the control plane rejects tokens up to this one
    nrevoke,  \* revocations so far
    pc,       \* where each call stands
    op,       \* what it asks for
    forced,   \* its token is to be minted afresh (after a 401)
    tok,      \* the token it holds
    att,      \* sends of the request at hand
    tries,    \* answers the Portal has given to its mint
    reps,     \* repeats of a create answered busy
    res,      \* how it returned
    made,     \* Computers the server provisioned for it
    first     \* history: tokens minted when its token was first rejected

portal == <<minted, revoked, nrevoke>>
vars   == <<cache, held, portal, pc, op, forced, tok, att, tries, reps, res, made, first>>

\* read: GET and DELETE; keyed: a create or Stop carrying a key the server
\* dedupes; bare: any other POST or PUT.
Ops == {"read", "keyed", "bare"}

TypeOK ==
    /\ cache \in [tok : 0 .. MaxMint, fresh : BOOLEAN]
    /\ held \in SUBSET Procs
    /\ minted \in 0 .. MaxMint /\ revoked \in 0 .. MaxMint /\ nrevoke \in 0 .. MaxRevoke
    /\ pc \in [Procs -> {"idle", "token", "mint", "apply", "send", "done"}]
    /\ op \in [Procs -> Ops \cup {"none"}]
    /\ forced \in [Procs -> BOOLEAN]
    /\ tok \in [Procs -> 0 .. MaxMint]
    /\ att \in [Procs -> 0 .. Sends] /\ tries \in [Procs -> 0 .. MintAttempts]
    /\ reps \in [Procs -> 0 .. BusyRepeats]
    /\ res \in [Procs -> {"none", "ok", "err", "unauthorized"}]
    /\ made \in [Procs -> Nat]
    /\ first \in [Procs -> 0 .. MaxMint]

Init ==
    /\ cache = [tok |-> 0, fresh |-> FALSE] /\ held = {}
    /\ minted = 0 /\ revoked = 0 /\ nrevoke = 0
    /\ pc = [p \in Procs |-> "idle"] /\ op = [p \in Procs |-> "none"]
    /\ forced = [p \in Procs |-> FALSE] /\ tok = [p \in Procs |-> 0]
    /\ att = [p \in Procs |-> 0] /\ tries = [p \in Procs |-> 0]
    /\ reps = [p \in Procs |-> 0] /\ res = [p \in Procs |-> "none"]
    /\ made = [p \in Procs |-> 0] /\ first = [p \in Procs |-> 0]

-----------------------------------------------------------------------------
Set(f, p, v) == [f EXCEPT ![p] = v]

Goto(p, label) == pc' = Set(pc, p, label) /\ UNCHANGED res
Return(p, r)   == pc' = Set(pc, p, "done") /\ res' = Set(res, p, r)

\* fresh: the cached token is there and not within the skew of its expiry.
Fresh == cache.tok # 0 /\ cache.fresh

\* Time passes until the cached token is no longer fresh.
TokenAges ==
    /\ cache.fresh /\ cache' = [cache EXCEPT !.fresh = FALSE]
    /\ UNCHANGED <<held, portal, pc, op, forced, tok, att, tries, reps, res, made, first>>

\* The control plane stops accepting every token issued so far (external).
Revoke ==
    /\ nrevoke < MaxRevoke /\ revoked < minted
    /\ nrevoke' = nrevoke + 1 /\ revoked' = minted
    /\ UNCHANGED <<cache, held, minted, pc, op, forced, tok, att, tries, reps, res, made, first>>

Begin(p, o) ==
    /\ pc[p] = "idle"
    /\ op' = Set(op, p, o) /\ Goto(p, "token")
    /\ UNCHANGED <<cache, held, portal, forced, tok, att, tries, reps, made, first>>

-----------------------------------------------------------------------------
\* ControlTokenSource.Token: the mutex is held from the freshness check to the end
\* of the mint, its backoffs included.

\* Mutant: a forced refresh is answered from the cache too.
TokenCachedAlways(p) ==
    /\ pc[p] = "token" /\ held = {} /\ Fresh
    /\ tok' = Set(tok, p, cache.tok) /\ att' = Set(att, p, 1) /\ Goto(p, "send")
    /\ UNCHANGED <<cache, held, portal, op, forced, tries, reps, made, first>>

TokenCached(p) ==
    /\ pc[p] = "token" /\ held = {} /\ ~forced[p] /\ Fresh
    /\ tok' = Set(tok, p, cache.tok) /\ att' = Set(att, p, 1) /\ Goto(p, "send")
    /\ UNCHANGED <<cache, held, portal, op, forced, tries, reps, made, first>>

\* Mutant: the mutex is given up before the mint.
TokenMintsUnlocked(p) ==
    /\ pc[p] = "token" /\ held = {} /\ (forced[p] \/ ~Fresh)
    /\ att' = Set(att, p, 1) /\ tries' = Set(tries, p, 1) /\ Goto(p, "mint")
    /\ UNCHANGED <<cache, held, portal, op, forced, tok, reps, made, first>>

TokenMints(p) ==
    /\ pc[p] = "token" /\ held = {} /\ (forced[p] \/ ~Fresh)
    /\ held' = {p}
    /\ att' = Set(att, p, 1) /\ tries' = Set(tries, p, 1) /\ Goto(p, "mint")
    /\ UNCHANGED <<cache, portal, op, forced, tok, reps, made, first>>

\* The Portal answers with a token.
PostMint(p) ==
    /\ pc[p] = "mint" /\ minted < MaxMint
    /\ minted' = minted + 1 /\ tok' = Set(tok, p, minted + 1) /\ Goto(p, "apply")
    /\ UNCHANGED <<cache, held, revoked, nrevoke, op, forced, att, tries, reps, made, first>>

\* applySuccess: the answer replaces the cache, with the expiry it carries; one
\* without a usable token or expiry is an error and leaves the cache.
ApplySuccess(p) ==
    /\ pc[p] = "apply" /\ held' = held \ {p}
    /\ \/ /\ cache' \in [tok : {tok[p]}, fresh : BOOLEAN]
          /\ att' = Set(att, p, 1) /\ Goto(p, "send")
       \/ Return(p, "err") /\ UNCHANGED <<cache, att>>
    /\ UNCHANGED <<portal, op, forced, tok, tries, reps, made, first>>

\* A transport fault of the mint, which the Portal may have carried out: DoRaw
\* sends it again within its budget.
MintFault(p) ==
    /\ pc[p] = "mint"
    /\ minted' = minted \/ (minted < MaxMint /\ minted' = minted + 1)
    /\ \/ att[p] < Sends /\ att' = Set(att, p, att[p] + 1) /\ UNCHANGED <<pc, res, held>>
       \/ held' = held \ {p} /\ Return(p, "err") /\ UNCHANGED att
    /\ UNCHANGED <<cache, revoked, nrevoke, op, forced, tok, tries, reps, made, first>>

\* 429 and 5xx but 504: after its backoff the mint is posted again, within its own budget.
MintBusy(p) ==
    /\ pc[p] = "mint" /\ tries[p] < MintAttempts
    /\ tries' = Set(tries, p, tries[p] + 1) /\ att' = Set(att, p, 1)
    /\ UNCHANGED <<cache, held, portal, pc, op, forced, tok, reps, res, made, first>>

\* Mutant: an error returns with the mutex held.
MintRefusedLocked(p) ==
    /\ pc[p] = "mint" /\ Return(p, "err")
    /\ UNCHANGED <<cache, held, portal, op, forced, tok, att, tries, reps, made, first>>

\* Any other answer (a 504 too, which transport Do turns into a timeout), the last
\* attempt's, a Retry-After beyond the ceiling, and a context that ends during a
\* backoff are errors.
MintRefused(p) ==
    /\ pc[p] = "mint" /\ held' = held \ {p} /\ Return(p, "err")
    /\ UNCHANGED <<cache, portal, op, forced, tok, att, tries, reps, made, first>>

-----------------------------------------------------------------------------
\* Client.do: one send, and a second with a fresh token after a 401.

Accepted(p) == tok[p] > revoked

\* The server carries the request out (external); it dedupes a keyed one.
Applied(p) == made' = Set(made, p, CASE op[p] = "bare"  -> made[p] + 1
                                     [] op[p] = "keyed" -> 1
                                     [] OTHER           -> 0)

\* Mutant: every request is resent after a transport fault.
ReplayableAny(p) == TRUE

\* retryAttempts: requests that DoRaw may send again.
Replayable(p) == op[p] \in {"read", "keyed"}

\* A transport fault, before or after the server carried the request out.
SendFault(p) ==
    /\ pc[p] = "send"
    /\ (Accepted(p) /\ Applied(p)) \/ UNCHANGED made
    /\ \/ /\ Replayable(p) /\ att[p] < Sends
          /\ att' = Set(att, p, att[p] + 1) /\ UNCHANGED <<pc, res>>
       \/ Return(p, "err") /\ UNCHANGED att
    /\ UNCHANGED <<cache, held, portal, op, forced, tok, tries, reps, first>>

\* 401: the token is rejected and nothing was carried out.
SendRejected(p) ==
    /\ pc[p] = "send" /\ ~Accepted(p)
    /\ \/ /\ ~forced[p] /\ forced' = Set(forced, p, TRUE)
          /\ first' = Set(first, p, minted) /\ Goto(p, "token")
       \/ forced[p] /\ Return(p, "unauthorized") /\ UNCHANGED <<forced, first>>
    /\ UNCHANGED <<cache, held, portal, op, tok, att, tries, reps, made>>

\* The request is carried out; the answer fails the spec check or cannot be parsed.
SendOK(p) ==
    /\ pc[p] = "send" /\ Accepted(p) /\ Applied(p)
    /\ Return(p, "ok") \/ Return(p, "err")
    /\ UNCHANGED <<cache, held, portal, op, forced, tok, att, tries, reps, first>>

\* COMPUTER_CREATE_BUSY: a keyed create waits and goes through do again.
SendBusy(p) ==
    /\ pc[p] = "send" /\ Accepted(p) /\ op[p] = "keyed" /\ reps[p] < BusyRepeats
    /\ reps' = Set(reps, p, reps[p] + 1)
    /\ forced' = Set(forced, p, FALSE) /\ Goto(p, "token")
    /\ UNCHANGED <<cache, held, portal, op, tok, att, tries, made, first>>

\* Any other answer, and busy past the repeats or the deadline, is an error.
SendRefused(p) ==
    /\ pc[p] = "send" /\ Accepted(p) /\ Return(p, "err")
    /\ UNCHANGED <<cache, held, portal, op, forced, tok, att, tries, reps, made, first>>

-----------------------------------------------------------------------------
Token(p) == TokenCached(p) \/ TokenMints(p)
Mint(p)  == \/ PostMint(p) \/ ApplySuccess(p) \/ MintFault(p)
            \/ MintBusy(p) \/ MintRefused(p)
Send(p)  == SendFault(p) \/ SendRejected(p) \/ SendOK(p) \/ SendBusy(p) \/ SendRefused(p)
Call(p)  == Token(p) \/ Mint(p) \/ Send(p)

Next == \/ TokenAges \/ Revoke
        \/ \E p \in Procs : (\E o \in Ops : Begin(p, o)) \/ Call(p)

\* Every call keeps running, and Go's mutex is granted in the end.
Spec == Init /\ [][Next]_vars /\ \A p \in Procs : WF_vars(Call(p))

-----------------------------------------------------------------------------
\* Properties.

\* The mutex is held by exactly the call that is minting, also after every error.
LockDiscipline ==
    /\ \A p \in Procs : p \in held <=> pc[p] \in {"mint", "apply"}
    /\ \A p, q \in held : p = q

\* A request is carried out at most once for a call: a create without a key is not
\* resent when its answer is lost, and the resend after a 401 repeats nothing.
CarriedOutOnce == \A p \in Procs : made[p] <= 1

\* A call reports 401 only for a token minted after the one it tried first was
\* rejected: a stale cache, also one another call has refreshed meanwhile, never
\* makes a call fail.
UnauthorizedIsFresh == \A p \in Procs : res[p] = "unauthorized" => tok[p] > first[p]

\* An older token never replaces a newer one, however mints overlap.
CacheNeverRegresses == [][cache'.tok >= cache.tok]_vars

\* Single flight: a call that does not force a refresh mints only while no fresh
\* token is cached, also when it waited for another call's mint.
NoRedundantMint ==
    [][\A p \in Procs : pc[p] = "mint" /\ minted' # minted /\ tok'[p] # tok[p] =>
          forced[p] \/ ~Fresh]_vars

\* Every call returns: no error path keeps the mutex, and the three budgets (sends,
\* mints, busy repeats) nest without a cycle.
CallsReturn == \A p \in Procs : pc[p] # "idle" ~> pc[p] = "done"
=============================================================================
