---------------------------- MODULE ArtifactTokens ----------------------------
(***************************************************************************)
(* The storage tokens of a Store (internal/artifacts tokenFor, drop, mint  *)
(* and withToken): goroutines run requests with the token cached for the   *)
(* Computer, or for a Computer they copy from, and mint a token when there *)
(* is none to use.                                                         *)
(***************************************************************************)
EXTENDS Naturals

CONSTANTS
    Procs,   \* goroutines; each runs one request after another
    Keys,    \* copy sources; the Computer's own token has a key of its own
    MaxMint, MaxRevoke \* bounds: tokens minted, revocations

ASSUME TokensAssumption == MaxMint \in Nat \ {0} /\ MaxRevoke \in Nat

VARIABLES
    cache,    \* Store.tokens; tok = 0 if there is none
    held,     \* who holds tokenMu
    minted,   \* tokens Portal has minted
    revoked,  \* storage refuses tokens up to this one
    nrevoke,  \* revocations so far
    full,     \* the Computer is over its storage limit
    pc,       \* where each request stands
    key,      \* the copy source it names
    write,    \* whether it writes
    tok,      \* the token it uses
    again,    \* withToken's second attempt
    res,      \* how the last one returned
    first,    \* history: the token it was refused with first
    seen      \* history: the Computer was over its limit since the request began

server  == <<minted, revoked, nrevoke>>
request == <<key, write>>
vars    == <<cache, held, server, full, pc, request, tok, again, res, first, seen>>

Tokens == 0 .. MaxMint
Cached == [tok : Tokens, fresh : BOOLEAN, writable : BOOLEAN]

TypeOK ==
    /\ cache \in [Keys -> Cached] /\ (\A k \in Keys : cache[k].tok <= minted) /\ held \in SUBSET Procs
    /\ minted \in Tokens /\ revoked \in Tokens /\ nrevoke \in 0 .. MaxRevoke
    /\ full \in BOOLEAN
    /\ pc \in [Procs -> {"idle", "token", "mint", "send"}]
    /\ key \in [Procs -> Keys] /\ write \in [Procs -> BOOLEAN]
    /\ tok \in [Procs -> 0 .. minted] /\ again \in [Procs -> BOOLEAN]
    /\ res \in [Procs -> {"none", "ok", "err", "full", "unauthorized"}]
    /\ first \in [Procs -> Tokens] /\ seen \in [Procs -> BOOLEAN]

Init ==
    /\ cache = [k \in Keys |-> [tok |-> 0, fresh |-> FALSE, writable |-> FALSE]]
    /\ held = {} /\ minted = 0 /\ revoked = 0 /\ nrevoke = 0 /\ full \in BOOLEAN
    /\ pc = [p \in Procs |-> "idle"] /\ key \in [Procs -> Keys]
    /\ write = [p \in Procs |-> FALSE]
    /\ tok = [p \in Procs |-> 0] /\ again = [p \in Procs |-> FALSE]
    /\ res = [p \in Procs |-> "none"]
    /\ first = [p \in Procs |-> 0] /\ seen = [p \in Procs |-> FALSE]

-----------------------------------------------------------------------------
Set(f, p, v) == [f EXCEPT ![p] = v]

Goto(p, label) == pc' = Set(pc, p, label) /\ UNCHANGED res
Return(p, r)   == pc' = Set(pc, p, "idle") /\ res' = Set(res, p, r)

\* Files are written and deleted by others, so the Computer passes its limit (external).
LimitMoves ==
    /\ full' = ~full /\ seen' = [p \in Procs |-> seen[p] \/ full']
    /\ UNCHANGED <<cache, held, server, pc, request, tok, again, res, first>>

\* Time passes until a cached token is within refreshBefore of its expiry.
TokenAges(k) ==
    /\ cache[k].fresh /\ cache' = [cache EXCEPT ![k].fresh = FALSE]
    /\ UNCHANGED <<held, server, full, pc, request, tok, again, res, first, seen>>

\* Storage stops accepting the tokens minted so far (external).
Revoke ==
    /\ nrevoke < MaxRevoke /\ revoked < minted
    /\ nrevoke' = nrevoke + 1 /\ revoked' = minted
    /\ UNCHANGED <<cache, held, minted, full, pc, request, tok, again, res, first, seen>>

-----------------------------------------------------------------------------
\* A request enters withToken.
Begin(p) ==
    /\ pc[p] = "idle" /\ pc' = Set(pc, p, "token") /\ res' = Set(res, p, "none")
    /\ \E k \in Keys, w \in BOOLEAN : key' = Set(key, p, k) /\ write' = Set(write, p, w)
    /\ again' = Set(again, p, FALSE) /\ first' = Set(first, p, 0)
    /\ seen' = Set(seen, p, full)
    /\ UNCHANGED <<cache, held, server, full, tok>>

Own(p) == cache[key[p]]

\* A kept token that is not near its expiry and, for a write, writable.
Usable(p) == Own(p).tok # 0 /\ Own(p).fresh /\ (write[p] => Own(p).writable)

\* Mutant: a write believes a kept token that says the Computer is full.
TokenKeptBelieved(p) ==
    /\ pc[p] = "token" /\ held = {} /\ Own(p).tok # 0 /\ Own(p).fresh
    /\ \/ write[p] /\ ~Own(p).writable /\ Return(p, "full") /\ UNCHANGED tok
       \/ Usable(p) /\ tok' = Set(tok, p, Own(p).tok) /\ Goto(p, "send")
    /\ UNCHANGED <<cache, held, server, full, request, again, first, seen>>

\* tokenFor answers from the cache.
TokenKept(p) ==
    /\ pc[p] = "token" /\ held = {} /\ Usable(p)
    /\ tok' = Set(tok, p, Own(p).tok) /\ Goto(p, "send")
    /\ UNCHANGED <<cache, held, server, full, request, again, first, seen>>

\* tokenFor mints, with tokenMu held.
TokenMints(p) ==
    /\ pc[p] = "token" /\ held = {} /\ ~Usable(p) /\ held' = {p} /\ Goto(p, "mint")
    /\ UNCHANGED <<cache, server, full, request, tok, again, first, seen>>

\* The token is stored, writable unless the Computer is over its limit now; a write
\* without a writable one ends here.
Minted(p) ==
    /\ pc[p] = "mint" /\ minted < MaxMint
    /\ minted' = minted + 1 /\ held' = held \ {p}
    /\ \E fresh \in BOOLEAN :
          cache' = [cache EXCEPT ![key[p]] = [tok |-> minted + 1, fresh |-> fresh, writable |-> ~full]]
    /\ \/ write[p] /\ full /\ Return(p, "full") /\ UNCHANGED tok
       \/ ~(write[p] /\ full) /\ Goto(p, "send") /\ tok' = Set(tok, p, minted + 1)
    /\ UNCHANGED <<revoked, nrevoke, full, request, again, first, seen>>

\* Portal refuses, the mint is lost, or its answer lacks a field.
MintFails(p) ==
    /\ pc[p] = "mint" /\ held' = held \ {p} /\ Return(p, "err")
    /\ minted' = minted \/ (minted < MaxMint /\ minted' = minted + 1)
    /\ UNCHANGED <<cache, revoked, nrevoke, full, request, tok, again, first, seen>>

-----------------------------------------------------------------------------
\* Mutant: whatever token is cached by then is dropped.
DropAny(p) == [cache EXCEPT ![key[p]].tok = 0]

\* drop: the cached token, if it still is the refused one.
Drop(p) == IF Own(p).tok = tok[p] THEN [cache EXCEPT ![key[p]].tok = 0] ELSE cache

\* Mutant: the second attempt takes the cached token, refused or not.
RejectedKeeps(p) ==
    /\ pc[p] = "send" /\ held = {} /\ tok[p] <= revoked
    /\ \/ /\ ~again[p] /\ again' = Set(again, p, TRUE)
          /\ first' = Set(first, p, tok[p]) /\ Goto(p, "token")
       \/ again[p] /\ Return(p, "unauthorized") /\ UNCHANGED <<again, first>>
    /\ UNCHANGED <<cache, held, server, full, request, tok, seen>>

\* Mutant: every refusal starts over.
RejectedForever(p) ==
    /\ pc[p] = "send" /\ tok[p] <= revoked /\ held = {} /\ Goto(p, "token")
    /\ UNCHANGED <<cache, held, server, full, request, tok, again, first, seen>>

\* 401: the token is dropped and the request runs once more, or the refusal is the
\* caller's.
Rejected(p) ==
    /\ pc[p] = "send" /\ tok[p] <= revoked
    /\ \/ /\ ~again[p] /\ held = {} /\ cache' = Drop(p) /\ again' = Set(again, p, TRUE)
          /\ first' = Set(first, p, tok[p]) /\ Goto(p, "token")
       \/ again[p] /\ Return(p, "unauthorized") /\ UNCHANGED <<cache, again, first>>
    /\ UNCHANGED <<held, server, full, request, tok, seen>>

\* Any other answer, or none, is the request's result.
Answered(p) ==
    /\ pc[p] = "send"
    /\ (tok[p] > revoked /\ Return(p, "ok")) \/ Return(p, "err")
    /\ UNCHANGED <<cache, held, server, full, request, tok, again, first, seen>>

-----------------------------------------------------------------------------
Request(p) == \/ TokenKept(p) \/ TokenMints(p) \/ Minted(p) \/ MintFails(p)
              \/ Rejected(p) \/ Answered(p)

Next == \/ LimitMoves \/ Revoke \/ \E k \in Keys : TokenAges(k)
        \/ \E p \in Procs : Begin(p) \/ Request(p)

\* A request keeps running, and a waiting goroutine gets the mutex in the end.
Spec == Init /\ [][Next]_vars /\ \A p \in Procs : SF_vars(Request(p))

-----------------------------------------------------------------------------
\* Properties.

\* A write fails for lack of space only if the Computer was over its limit at some
\* moment of the request: a token kept from before it made room is not believed.
FullIsCurrent == \A p \in Procs : res[p] = "full" => seen[p]

\* A request reports 401 only after storage refused it two tokens, the second minted
\* after the first, also when another goroutine replaced the first meanwhile.
UnauthorizedIsFresh == \A p \in Procs : res[p] = "unauthorized" => tok[p] > first[p]

\* A late refusal of an old token never costs the Store the newer one it has by then.
DropsOnlyRefused ==
    [][\A k \in Keys : cache[k].tok > revoked => cache'[k].tok >= cache[k].tok]_vars

\* Concurrent callers wait for one mint: Portal is asked for a token only while the
\* cache has none the request can use.
NoRedundantMint ==
    [][\A p \in Procs : pc[p] = "mint" /\ pc'[p] # "mint" /\ minted' # minted => ~Usable(p)]_vars

\* Every request returns: no error path keeps the mutex, and a refusal repeats the
\* request only once.
RequestsReturn == \A p \in Procs : pc[p] # "idle" ~> pc[p] = "idle"
=============================================================================
