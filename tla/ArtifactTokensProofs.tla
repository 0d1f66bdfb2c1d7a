------------------------ MODULE ArtifactTokensProofs ------------------------
(***************************************************************************)
(* The storage-token cache of a Store, for any number of goroutines, of    *)
(* copy sources, of tokens and of revocations.                             *)
(***************************************************************************)
EXTENDS ArtifactTokens, TLAPS

\* Whoever mints holds the mutex alone, and since it took it nothing has made the
\* cached token usable for its request.
MintInv ==
    \A p \in Procs : pc[p] = "mint" => held = {p} /\ ~Usable(p)

\* Tokens are numbered as they are minted, and the cache never goes back to an older
\* one: it holds none, the one a request sends, or a later one.
OrderInv ==
    \A p \in Procs : pc[p] = "send" => Own(p).tok = 0 \/ Own(p).tok >= tok[p]

\* Once refused, a request sends only a later token, and only such a one is cached.
AgainInv ==
    \A p \in Procs :
        again[p] /\ pc[p] # "idle" =>
            /\ first[p] <= minted /\ (Own(p).tok = 0 \/ Own(p).tok > first[p])
            /\ pc[p] = "send" => tok[p] > first[p]

\* A request under way has no result yet, and has seen the limit passed if it is
\* passed now.
SeenInv == \A p \in Procs : pc[p] # "idle" => res[p] = "none" /\ (full => seen[p])

TokensInv ==
    /\ TypeOK /\ MintInv /\ OrderInv /\ AgainInv /\ SeenInv
    /\ FullIsCurrent /\ UnauthorizedIsFresh

\* The steps of one attempt left to a request, and of the request: at most one more
\* attempt follows a refusal.
AttemptLeft(p) ==
    CASE pc[p] = "token" -> 3 [] pc[p] = "mint" -> 2 [] pc[p] = "send" -> 1 [] pc[p] = "idle" -> 0
StepsLeft(p) ==
    IF pc[p] = "idle" THEN 0 ELSE (IF again[p] THEN 0 ELSE 3) + AttemptLeft(p)

\* A request's own steps bring its return nearer, and no other goroutine's step, no
\* revocation and no change of the limit puts it off.
RequestNearsEnd ==
    [][\A p \in Procs : pc[p] # "idle" =>
          /\ Request(p) => StepsLeft(p)' < StepsLeft(p)
          /\ ~Request(p) => StepsLeft(p)' = StepsLeft(p)]_vars

\* tokenMu is held only by a goroutine that is minting, which is about to release it.
HeldWhileMinting == \A p \in held : p \in Procs /\ pc[p] = "mint" /\ held = {p}

USE TokensAssumption DEF Set, Tokens, server, request

\* Before the first request nothing is cached, held or minted.
LEMMA TokensInitInv == Init => TokensInv
<1> SUFFICES ASSUME Init PROVE TokensInv
  OBVIOUS
<1>1. TypeOK
  BY DEF Init, TypeOK, Cached
<1> QED
  BY <1>1 DEF Init, TokensInv, MintInv, OrderInv, AgainInv, SeenInv, FullIsCurrent,
              UnauthorizedIsFresh

\* The world around the Store, and the start of a request.
LEMMA TokensOutsideInv ==
  ASSUME TokensInv,
         LimitMoves \/ Revoke \/ (\E k \in Keys : TokenAges(k)) \/ (\E p \in Procs : Begin(p))
  PROVE  TokensInv'
<1> USE DEF TokensInv, Own, Usable
<1>1. CASE LimitMoves
  <2>1. TypeOK'
    BY <1>1 DEF LimitMoves, TypeOK
  <2>2. SeenInv' /\ FullIsCurrent'
    BY <1>1 DEF LimitMoves, TypeOK, SeenInv, FullIsCurrent
  <2> QED
    BY <1>1, <2>1, <2>2 DEF LimitMoves, MintInv, OrderInv, AgainInv, UnauthorizedIsFresh
<1>2. CASE Revoke
  BY <1>2 DEF Revoke, TypeOK, MintInv, OrderInv, AgainInv, SeenInv, FullIsCurrent,
              UnauthorizedIsFresh
<1>3. ASSUME NEW k \in Keys, TokenAges(k) PROVE TokensInv'
  <2>1. cache' \in [Keys -> Cached]
    BY <1>3 DEF TokenAges, TypeOK, Cached
  <2>2. \A j \in Keys : /\ cache'[j].tok = cache[j].tok /\ cache'[j].writable = cache[j].writable
                        /\ cache'[j].fresh => cache[j].fresh
    BY <1>3 DEF TokenAges, TypeOK, Cached
  <2>3. TypeOK'
    BY <1>3, <2>1, <2>2 DEF TokenAges, TypeOK
  <2>4. key \in [Procs -> Keys] /\ key' = key
    BY <1>3 DEF TokenAges, TypeOK
  <2>5. MintInv' /\ OrderInv' /\ AgainInv'
    BY <1>3, <2>2, <2>4 DEF TokenAges, MintInv, OrderInv, AgainInv
  <2> QED
    BY <1>3, <2>3, <2>5 DEF TokenAges, SeenInv, FullIsCurrent, UnauthorizedIsFresh
<1>4. ASSUME NEW p \in Procs, Begin(p) PROVE TokensInv'
  <2>1. TypeOK'
    BY <1>4 DEF Begin, TypeOK
  <2>2. MintInv' /\ OrderInv' /\ AgainInv'
    BY <1>4 DEF Begin, TypeOK, MintInv, OrderInv, AgainInv
  <2>3. SeenInv' /\ FullIsCurrent' /\ UnauthorizedIsFresh'
    BY <1>4 DEF Begin, TypeOK, SeenInv, FullIsCurrent, UnauthorizedIsFresh
  <2> QED
    BY <2>1, <2>2, <2>3
<1> QED
  BY <1>1, <1>2, <1>3, <1>4

\* tokenFor: the cached token, or a mint under the mutex.
LEMMA TokenForInv ==
  ASSUME TokensInv, NEW p \in Procs, TokenKept(p) \/ TokenMints(p) \/ Minted(p) \/ MintFails(p)
  PROVE  TokensInv'
<1> USE DEF TokensInv, Own, Usable
<1>1. CASE TokenKept(p)
  <2>1. TypeOK'
    BY <1>1 DEF TokenKept, Goto, TypeOK, Cached
  <2>2. MintInv' /\ OrderInv' /\ AgainInv'
    BY <1>1 DEF TokenKept, Goto, TypeOK, Cached, MintInv, OrderInv, AgainInv
  <2>3. SeenInv' /\ FullIsCurrent' /\ UnauthorizedIsFresh'
    BY <1>1 DEF TokenKept, Goto, TypeOK, SeenInv, FullIsCurrent, UnauthorizedIsFresh, AgainInv
  <2> QED
    BY <2>1, <2>2, <2>3
<1>2. CASE TokenMints(p)
  <2>1. TypeOK'
    BY <1>2 DEF TokenMints, Goto, TypeOK
  <2>2. MintInv' /\ OrderInv' /\ AgainInv'
    BY <1>2 DEF TokenMints, Goto, TypeOK, MintInv, OrderInv, AgainInv
  <2>3. SeenInv' /\ FullIsCurrent' /\ UnauthorizedIsFresh'
    BY <1>2 DEF TokenMints, Goto, TypeOK, SeenInv, FullIsCurrent, UnauthorizedIsFresh
  <2> QED
    BY <2>1, <2>2, <2>3
<1>3. CASE Minted(p)
  <2>1. cache' \in [Keys -> Cached]
    BY <1>3 DEF Minted, TypeOK, Cached
  <2>2. \A k \in Keys : cache'[k].tok = IF k = key[p] THEN minted + 1 ELSE cache[k].tok
    BY <1>3 DEF Minted, TypeOK, Cached
  <2>3. TypeOK'
    <3>1. \A k \in Keys : cache'[k].tok <= minted'
      BY <1>3, <2>2 DEF Minted, TypeOK, Cached
    <3>2. minted' \in 0 .. MaxMint /\ tok' \in [Procs -> 0 .. minted']
      BY <1>3 DEF Minted, TypeOK
    <3>3. pc' \in [Procs -> {"idle", "token", "mint", "send"}]
      BY <1>3 DEF Minted, Goto, Return, TypeOK
    <3>4. res' \in [Procs -> {"none", "ok", "err", "full", "unauthorized"}]
      BY <1>3 DEF Minted, Goto, Return, TypeOK
    <3> QED
      BY <1>3, <2>1, <3>1, <3>2, <3>3, <3>4 DEF Minted, TypeOK
  <2>4. \A q \in Procs : pc[q] = "mint" => q = p
    BY <1>3 DEF Minted, MintInv
  <2>5. MintInv'
    BY <1>3, <2>4 DEF Minted, Goto, Return, TypeOK, MintInv
  <2>6. OrderInv' /\ AgainInv'
    BY <1>3, <2>2 DEF Minted, Goto, Return, TypeOK, Cached, OrderInv, AgainInv
  <2>7. SeenInv' /\ FullIsCurrent' /\ UnauthorizedIsFresh'
    BY <1>3 DEF Minted, Goto, Return, TypeOK, SeenInv, FullIsCurrent, UnauthorizedIsFresh, AgainInv
  <2> QED
    BY <2>3, <2>5, <2>6, <2>7
<1>4. CASE MintFails(p)
  <2>1. minted' \in 0 .. MaxMint /\ minted' >= minted
    BY <1>4 DEF MintFails, TypeOK
  <2>2. TypeOK'
    BY <1>4, <2>1 DEF MintFails, Return, TypeOK, Cached
  <2>3. \A q \in Procs : pc[q] = "mint" => q = p
    BY <1>4 DEF MintFails, MintInv
  <2>4. MintInv' /\ OrderInv' /\ AgainInv'
    BY <1>4, <2>1, <2>3 DEF MintFails, Return, TypeOK, MintInv, OrderInv, AgainInv
  <2>5. SeenInv' /\ FullIsCurrent' /\ UnauthorizedIsFresh'
    BY <1>4 DEF MintFails, Return, TypeOK, SeenInv, FullIsCurrent, UnauthorizedIsFresh
  <2> QED
    BY <2>2, <2>4, <2>5
<1> QED
  BY <1>1, <1>2, <1>3, <1>4

\* What drop leaves: nobody's cached token but the refused one goes.
LEMMA DropLeaves ==
  ASSUME TokensInv, NEW p \in Procs
  PROVE  /\ Drop(p) \in [Keys -> Cached]
         /\ \A k \in Keys : /\ Drop(p)[k].tok \in {0, cache[k].tok}
                            /\ Drop(p)[k].tok # cache[k].tok => k = key[p] /\ cache[k].tok = tok[p]
                            /\ Drop(p)[k].fresh = cache[k].fresh
                            /\ Drop(p)[k].writable = cache[k].writable
         /\ Drop(p)[key[p]].tok # tok[p] \/ tok[p] = 0
BY DEF TokensInv, TypeOK, Cached, Drop, Own

\* withToken after the send: the refusal, once more or reported, and any other end.
LEMMA SendInv ==
  ASSUME TokensInv, NEW p \in Procs, Rejected(p) \/ Answered(p)
  PROVE  TokensInv'
<1> USE DEF TokensInv, Own, Usable
<1>1. CASE Rejected(p) /\ ~again[p]
  <2>1. /\ cache' \in [Keys -> Cached]
        /\ \A k \in Keys : /\ cache'[k].tok \in {0, cache[k].tok}
                           /\ cache'[k].fresh = cache[k].fresh
                           /\ cache'[k].writable = cache[k].writable
        /\ cache'[key[p]].tok # tok[p] \/ tok[p] = 0
    BY <1>1, DropLeaves DEF Rejected
  <2>2. TypeOK'
    <3>1. \A k \in Keys : cache'[k].tok <= minted
      BY <2>1 DEF TypeOK, Cached
    <3>2. pc' \in [Procs -> {"idle", "token", "mint", "send"}] /\ again' \in [Procs -> BOOLEAN]
      BY <1>1 DEF Rejected, Goto, TypeOK
    <3>3. first' \in [Procs -> Tokens]
      BY <1>1 DEF Rejected, TypeOK
    <3> QED
      BY <1>1, <2>1, <3>1, <3>2, <3>3 DEF Rejected, Goto, TypeOK
  <2>3. /\ key \in [Procs -> Keys] /\ key' = key /\ write' = write /\ held' = held /\ tok' = tok
        /\ pc' = [pc EXCEPT ![p] = "token"] /\ pc \in [Procs -> {"idle", "token", "mint", "send"}]
    BY <1>1 DEF Rejected, Goto, TypeOK
  <2>4. MintInv' /\ OrderInv'
    BY <2>1, <2>3 DEF MintInv, OrderInv
  <2>5. AgainInv'
    <3>1. again' = [again EXCEPT ![p] = TRUE] /\ first' = [first EXCEPT ![p] = tok[p]] /\ minted' = minted
      BY <1>1 DEF Rejected
    <3>2. /\ again \in [Procs -> BOOLEAN] /\ first \in [Procs -> Nat]
          /\ tok \in [Procs -> 0 .. minted] /\ minted \in Nat
          /\ \A k \in Keys : cache[k].tok \in Nat
      BY DEF TypeOK, Cached
    <3>3. pc[p] = "send" /\ (Own(p).tok = 0 \/ Own(p).tok >= tok[p])
      BY <1>1 DEF Rejected, OrderInv
    <3>4. cache'[key[p]].tok = 0 \/ cache'[key[p]].tok > tok[p]
      <4>1. key[p] \in Keys /\ tok[p] \in Nat /\ cache[key[p]].tok \in Nat
        BY DEF TypeOK, Cached
      <4>2. cache'[key[p]].tok \in {0, cache[key[p]].tok}
        BY <2>1, <4>1
      <4> QED
        BY <2>1, <3>3, <4>1, <4>2
    <3> QED
      BY <2>1, <2>3, <3>1, <3>2, <3>4 DEF AgainInv
  <2>6. SeenInv' /\ FullIsCurrent' /\ UnauthorizedIsFresh'
    BY <1>1 DEF Rejected, Goto, TypeOK, SeenInv, FullIsCurrent, UnauthorizedIsFresh
  <2> QED
    BY <2>2, <2>4, <2>5, <2>6
<1>2. CASE Rejected(p) /\ again[p]
  <2>1. TypeOK'
    BY <1>2 DEF Rejected, Return, TypeOK
  <2>2. MintInv' /\ OrderInv' /\ AgainInv'
    BY <1>2 DEF Rejected, Return, TypeOK, MintInv, OrderInv, AgainInv
  <2>3. SeenInv' /\ FullIsCurrent' /\ UnauthorizedIsFresh'
    BY <1>2 DEF Rejected, Return, TypeOK, SeenInv, FullIsCurrent, UnauthorizedIsFresh, AgainInv
  <2> QED
    BY <2>1, <2>2, <2>3
<1>3. CASE Answered(p)
  <2>1. TypeOK'
    BY <1>3 DEF Answered, Return, TypeOK
  <2>2. MintInv' /\ OrderInv' /\ AgainInv'
    BY <1>3 DEF Answered, Return, TypeOK, MintInv, OrderInv, AgainInv
  <2>3. SeenInv' /\ FullIsCurrent' /\ UnauthorizedIsFresh'
    BY <1>3 DEF Answered, Return, TypeOK, SeenInv, FullIsCurrent, UnauthorizedIsFresh
  <2> QED
    BY <2>1, <2>2, <2>3
<1> QED
  BY <1>1, <1>2, <1>3

\* The invariant is inductive.
LEMMA TokensStepInv == TokensInv /\ [Next]_vars => TokensInv'
<1> SUFFICES ASSUME TokensInv, [Next]_vars PROVE TokensInv'
  OBVIOUS
<1>1. CASE Next
  BY <1>1, TokensOutsideInv, TokenForInv, SendInv DEF Next, Request
<1>2. CASE UNCHANGED vars
  BY <1>2 DEF vars, TokensInv, TypeOK, MintInv, OrderInv, AgainInv, SeenInv, FullIsCurrent,
              UnauthorizedIsFresh, Own, Usable
<1> QED
  BY <1>1, <1>2

\* The inductive invariant holds throughout.
THEOREM TokensInvariant == Spec => []TokensInv
BY TokensInitInv, TokensStepInv, PTL DEF Spec

\* The state has its type: the cache and the requests hold tokens that were minted.
THEOREM TokensTypeCorrect == Spec => []TypeOK
<1>1. TokensInv => TypeOK
  BY DEF TokensInv
<1> QED
  BY <1>1, TokensInvariant, PTL

\* tokenFor: StorageFullError only if the Computer was over its limit during the request.
THEOREM FullCurrent == Spec => []FullIsCurrent
<1>1. TokensInv => FullIsCurrent
  BY DEF TokensInv
<1> QED
  BY <1>1, TokensInvariant, PTL

\* withToken: a reported 401 answers a token minted after the one refused first.
THEOREM UnauthorizedFresh == Spec => []UnauthorizedIsFresh
<1>1. TokensInv => UnauthorizedIsFresh
  BY DEF TokensInv
<1> QED
  BY <1>1, TokensInvariant, PTL

\* drop: no step costs the Store a cached token that storage still accepts.
THEOREM DropsRefused == Spec => DropsOnlyRefused
<1> DEFINE A == \A k \in Keys : cache[k].tok > revoked => cache'[k].tok >= cache[k].tok
<1>1. TokensInv /\ [Next]_vars => [A]_vars
  <2> SUFFICES ASSUME TokensInv, Next PROVE A
    OBVIOUS
  <2> USE DEF TokensInv
  <2>1. ASSUME NEW p \in Procs, Minted(p) PROVE A
    BY <2>1 DEF Minted, TypeOK, Cached
  <2>2. ASSUME NEW p \in Procs, Rejected(p) PROVE A
    <3>1. cache' = Drop(p) \/ cache' = cache
      BY <2>2 DEF Rejected
    <3>2. tok[p] <= revoked /\ tok[p] \in Nat /\ revoked \in Nat
      BY <2>2 DEF Rejected, TypeOK
    <3>3. \A k \in Keys : cache[k].tok \in Nat
      BY DEF TypeOK, Cached
    <3> QED
      BY <3>1, <3>2, <3>3, DropLeaves
  <2>3. ASSUME NEW k \in Keys, TokenAges(k) PROVE A
    BY <2>3 DEF TokenAges, TypeOK, Cached
  <2>4. ASSUME cache' = cache PROVE A
    BY <2>4 DEF TypeOK, Cached
  <2> QED
    BY <2>1, <2>2, <2>3, <2>4 DEF Next, Request, LimitMoves, Revoke, Begin, TokenKept,
                                   TokenMints, MintFails, Answered
<1> QED
  BY <1>1, TokensInvariant, PTL DEF Spec, DropsOnlyRefused

\* tokenFor: a mint is asked for only while the cache has no token for the request.
THEOREM NoRedundant == Spec => NoRedundantMint
<1> DEFINE A == \A p \in Procs : pc[p] = "mint" /\ pc'[p] # "mint" /\ minted' # minted => ~Usable(p)
<1>1. TokensInv => A
  BY DEF TokensInv, MintInv
<1> QED
  BY <1>1, TokensInvariant, PTL DEF NoRedundantMint

-----------------------------------------------------------------------------
\* That requests return, as far as it is a matter of their steps.

\* The mutex is taken for a mint and given back with its answer.
LEMMA HeldStep == TypeOK /\ MintInv /\ HeldWhileMinting /\ [Next]_vars => HeldWhileMinting'
<1> SUFFICES ASSUME TypeOK, MintInv, HeldWhileMinting, [Next]_vars PROVE HeldWhileMinting'
  OBVIOUS
<1> USE DEF TypeOK, HeldWhileMinting
<1>1. CASE LimitMoves \/ Revoke \/ (\E k \in Keys : TokenAges(k)) \/ UNCHANGED vars
  BY <1>1 DEF LimitMoves, Revoke, TokenAges, vars
<1>2. ASSUME NEW p \in Procs, Begin(p) \/ TokenKept(p) \/ Rejected(p) \/ Answered(p)
      PROVE  HeldWhileMinting'
  BY <1>2 DEF Begin, TokenKept, Rejected, Answered, Goto, Return
<1>3. ASSUME NEW p \in Procs, TokenMints(p) PROVE HeldWhileMinting'
  BY <1>3 DEF TokenMints, Goto
<1>4. ASSUME NEW p \in Procs, Minted(p) \/ MintFails(p) PROVE HeldWhileMinting'
  <2>1. held = {p} /\ held' = {}
    BY <1>4 DEF Minted, MintFails, MintInv
  <2> QED
    BY <2>1
<1> QED
  BY <1>1, <1>2, <1>3, <1>4 DEF Next, Request

\* Each step of a request is one nearer to its end.
LEMMA RequestNearer ==
  ASSUME TokensInv, NEW p \in Procs, Request(p)
  PROVE  StepsLeft(p)' < StepsLeft(p)
<1> USE DEF TokensInv, TypeOK, StepsLeft, AttemptLeft, Goto, Return
<1>1. CASE TokenKept(p) \/ TokenMints(p) \/ Minted(p) \/ MintFails(p)
  BY <1>1 DEF TokenKept, TokenMints, Minted, MintFails
<1>2. CASE Rejected(p) \/ Answered(p)
  BY <1>2 DEF Rejected, Answered
<1> QED
  BY <1>1, <1>2 DEF Request

\* Whatever else happens leaves a request under way where it is.
LEMMA OthersLeaveRequest ==
  ASSUME TokensInv, NEW p \in Procs, pc[p] # "idle", ~Request(p), [Next]_vars
  PROVE  StepsLeft(p)' = StepsLeft(p)
<1> SUFFICES pc'[p] = pc[p] /\ again'[p] = again[p]
  BY DEF StepsLeft, AttemptLeft
<1> USE DEF TokensInv, TypeOK, Goto, Return
<1>1. CASE LimitMoves \/ Revoke \/ (\E k \in Keys : TokenAges(k)) \/ UNCHANGED vars
  BY <1>1 DEF LimitMoves, Revoke, TokenAges, vars
<1>2. ASSUME NEW q \in Procs, Begin(q) PROVE pc'[p] = pc[p] /\ again'[p] = again[p]
  BY <1>2 DEF Begin
<1>3. ASSUME NEW q \in Procs, q # p, Request(q) PROVE pc'[p] = pc[p] /\ again'[p] = again[p]
  BY <1>3 DEF Request, TokenKept, TokenMints, Minted, MintFails, Rejected, Answered
<1> QED
  BY <1>1, <1>2, <1>3 DEF Next

\* tokenFor, mint and withToken: a request makes at most six steps, for any number of
\* goroutines, copy sources and revocations; and who waits for tokenMu waits for a
\* goroutine that is minting.
THEOREM RequestNearsEndHolds == Spec => RequestNearsEnd /\ []HeldWhileMinting
<1>1. Init => HeldWhileMinting
  BY DEF Init, HeldWhileMinting
<1>2. TokensInv => TypeOK /\ MintInv
  BY DEF TokensInv
<1>3. TokensInv /\ [Next]_vars =>
        [\A p \in Procs : pc[p] # "idle" =>
          /\ Request(p) => StepsLeft(p)' < StepsLeft(p)
          /\ ~Request(p) => StepsLeft(p)' = StepsLeft(p)]_vars
  BY RequestNearer, OthersLeaveRequest
<1> QED
  BY <1>1, <1>2, <1>3, HeldStep, TokensInvariant, PTL DEF Spec, RequestNearsEnd
=============================================================================
