# Verification of the Pine Sandbox Go SDK

TLA+ models of the stateful parts of the SDK in `src/`, the TLC runs that check
them on small instances, and TLAPS proofs for every value of the constants.
`PROJECT.json` links every definition to the lines it models and every property
to the hazard it is about.

## 1. The system

The SDK is a client library. A *Computer* is a durable identity with saved state;
a *sandbox* is one run of it. Five services are on the other side: the *Portal*
(registration, tokens, and the binding revision, a compare-and-swap register that
says which sandbox is the Computer's current one), the *control plane* (creates,
stops, pauses and deletes sandboxes), the *coordinator* inside each sandbox
(bind handshake, sessions, agents, event feeds), and *object storage* for
artifacts.

| Component (source) | State | Operations | Interacts with |
|---|---|---|---|
| Computer handle (`computer.go`, `client.go`, `computer_binding.go`) | sandbox, binding revision, connection, under `Computer.mu` | Attach, Start, Recover, Stop, Kill, Delete, Binding, Reconnect | binder, sandbox lifecycle, Portal |
| Bind handshake (`internal/binder`) | envelope, restore counters, deadline | Bind | Portal mint, coordinator bind, `Classify` |
| Bind classification (`internal/bind`) | none | Classify | binder |
| Sandbox lifecycle (`sandbox_handle.go`) | last observation | Stop, Terminate, release, Pause, Resume, wait until running | control plane |
| Control plane client (`internal/controlplane`) | none | create with busy repeats, authorised send, observation with ETag | token source, transport |
| Control token source (`internal/tokens`) | cached token and expiry under a mutex | Token, forced refresh | Portal |
| Transport (`internal/base/transport`) | none | bounded resend of replayable requests | everything |
| Event streams (`internal/coordinator/stream.go`, `internal/base/sse`) | cursor, reconnect budget | resuming iteration | coordinator feeds |
| Artifacts (`internal/artifacts`) | token cache, transfer offsets | Upload, Open/Download, List, Delete, Copy | Portal, storage |
| Capture keys and Credentials (`computer.go`, `credentials.go`, `capture_keypair.go`) | registry of keypairs by generation and the current one, under `Computer.mu`; what the application saved | Set, AddPrior, configure, Credentials, save and load | Create, Start, Attach, binder |
| Agent turns (`agent.go`, `internal/coordinator/agent.go`) | none between calls; a turn is named by its id, a submission by its key | Run, Answer, Steer, Cancel, Wait | coordinator, event streams |
| Control lease (`control.go`, `internal/coordinator/control.go`) | none between calls; the state is named by its ETag | TakeControl, ReleaseControl, UpdateControl, NotifyHuman | coordinator |
| Facades, parsing, crypto | none | one request each | transport |

What is hard here: a Computer object is used by several goroutines while a call
is unlocked for minutes; several backends hold handles of one Computer; every
request can be lost on either side of its effect and some are resent; every
observation is old when it is used; a feed ends in the middle of an event; the
budgets (bind deadline, restore rounds, reconnects, mints, resends, busy repeats)
nest in one another.

## 2. Modules

| Module | Models | State and actions |
|---|---|---|
| `BindClassify` | `Classify` | operators only |
| `BindTable` | the decision table the SDKs share, as the reference for `Classify` in `Binder`'s loop | operators only |
| `BindContract` | what an attach relies on | `committed`, `envelope`, `outcome`: authorize at most once, seal one envelope, succeed only with both |
| `Binder` | `binder.Bind` with Portal and coordinator | `pc` is the place in the loop; `env` the envelope; messages stay in `mintReqs` and `bindReqs` for ever, so each may be handled again or late |
| `ComputerHandle` | handles of one Computer in several backends | one action per critical section under `Computer.mu`; a bind is its contract |
| `SandboxStates` | what the calls on a Computer tell apart about a sandbox, and how the server and the requests change it | operators only, shared by the next three |
| `SandboxContract` | what the calls on one sandbox promise Start, Recover, Stop and Attach | `sb`, `call`, `answer`: a Stop or DELETE takes effect only where it may, answered or not, and a release is reported only of a sandbox that is gone |
| `SandboxLifecycle` | the seven lifecycle calls on one sandbox | `srv` is the server's record with its version; `info` the last observation; `observe` may repeat an old one; `made` is the status the create answered with, on which the wait for readiness returns at once |
| `ControlPlane` | goroutines over one token source and transport | `held` is the mutex, `cache` the token, `made` what the server carried out |
| `EventStream` | `resumeStream`, `pumpFrames`, the SSE reader | a connection delivers one line at a time and may end at any of them; an event may have no id, which leaves the cursor where it is, and `seen` records those that were yielded |
| `ArtifactTransfer` | one download, upload, delete or copy of a file, against storage that others write | storage numbers the generations of the file and byte i of generation g is `<<g, i>>`; `pc` is the place in withToken, `connect`/`Read` or `sendUpload`; `off`, `size`, `fails`, `pin` are the reader's or the upload's own variables; a response may leave its generation out (`named`), storage may forget bytes of an upload (`forgot`), and `ours` records that a send of this call deleted the file |
| `ArtifactTokens` | goroutines over a Store's token cache | `held` is `tokenMu`, `cache` the map of tokens, `again` withToken's second attempt; the Computer passes its storage limit at any time |
| `AgentTurns` | the agent calls of several workers in one session | `turns`, `last` and `delivered` are the coordinator; `req` and `sends` a call's request and how often it went out; `late` the requests that outlive their senders; `aware` and `asked` record what callers were told and asked for |
| `ControlLease` | the control calls of several callers | `epoch` counts control transitions and is what an ETag names; `onto` records the last effect: what its sender had read and what it met |
| `CaptureKeys` | capture keypairs of one Computer's objects and the Credentials its application saved | `keypairs` and `captureGen` are the registry; `attach`, `snap` and `recovery` the locals of Attach and Create; `sealed` the keypairs Pine sealed state to |
| `MC*` | instances for TLC; `MCFacade` runs `AgentTurns`, `ControlLease` and `CaptureKeys` | |
| `*Proofs` | theorems; `FacadeProofs` for `AgentTurns`, `ControlLease` and `CaptureKeys` | |

`ComputerHandle` uses the handshake through `BindContract`'s promise, which
`Binder` is shown to implement, and each of its sandboxes through `SandboxContract`,
which `SandboxLifecycle` is shown to implement: `StopAdmit` is the contract's `Stop`,
`KillDestroy` and `Inspect`'s release its `Destroy`, `StopWait` and `AwaitReleased` its
`Confirm` or `GiveUp`, `SandboxMoves` its `Drift`. Both use the tables of `SandboxStates`,
so neither can allow the server or a request more than the other. `ControlPlane` is the layer under the requests of
`SandboxLifecycle`, which therefore lets each request fail before or after its
effect. Services are environment: they may do whatever the code in `src/` is
prepared for, with the exceptions listed below. `ArtifactTokens` is the layer under `ArtifactTransfer`, in which a
request's token is had, refused or not had. `ComputerHandle` and `CaptureKeys` are
two views of the same object: which sandbox and revision it holds, and which keys.
They share Attach's stages (create, mint, bind, publish) and no other state, so each
lets them succeed or fail at every stage.

What the models assume of the services and the application although the code would
also run without it:

* the coordinator gives an ETag with every control state; without one
  `PatchControl` sends no `If-Match` (`internal/coordinator/control.go:186`) and the
  PATCH is unconditional;
* a 206 that gives no total runs to the end of the file; the reader of a shorter one
  whose length it never learnt takes its end for the end of the file
  (`internal/artifacts/read.go:107`);
* storage forgets bytes of an upload that it reported kept only so often
  (`MaxForgets`); `sendUpload` goes back with it, and the theorem on `CallEnds`'
  measure counts it in. `NoGap` is about an upload of which nothing was forgotten;
* `OneGeneration` and `WholeFile` promise a single generation only if storage named the
  generation of every 200 the reader took (`X-Goog-Generation`): without it the code
  pins nothing and can splice two. That nothing is missing or repeated is checked in
  either case;
* `AdoptExisting` is given the binding revision (`client.go:469-494`); without one the
  object holds revision 0, which is not modelled;
* attaches of one Computer object do not overlap, except in `handle_overlap`.

## 3. Runs

| Run | Question | Bounds |
|---|---|---|
| `bind` | one authorization, bounded restore, contract, termination; every answer classified as the shared decision table says | 2 boots, 2 challenges, 2 rounds, 2 transactions, revisions up to 3: a rival can win before and after the mint, a boot can change between key and post, and both caps are reached; the table is checked on every combination of status, type and epoch text a server can emit |
| `handle` | do saved bindings stay consistent, is only a sandbox that is gone replaced, and does an object used by one goroutine keep its sandbox until released? Two goroutines on one object, one attach of it at a time, and a second backend that starts, recovers, stops and deletes by id | 2 sandboxes, 2 revisions: one replacement, with every crash point around it; the two goroutines are interchangeable (symmetry); of `Computer.Delete` only the second backend makes use (`Deleters`), the theorems hold for any goroutines |
| `handle_late_reset` (violation) | is a sandbox kept until released when stops overlap? | two goroutines on one object, 2 sandboxes |
| `handle_overlap` (violation) | is an attached Computer refused when two attaches of one object overlap? | two goroutines on one object, 2 sandboxes |
| `facade` | agent: one turn per submission, nothing started by a Run refused at once, guidance once, cancel by name; control: no unseen overwrite, one effect per call; keys: can sealed state be restored, Credentials be saved, and is a rotation one-way, through failed and crashed attaches? | 2 interchangeable workers; 2 sends, 2 turns (a turn and its answer's, or two runs), 1 late request; 3 transitions, 1 astray request: a 412, a repetition and a late arrival fit; 1 object that is made again after each crash, 2 generations, 2 materials (interchangeable), 2 saved records: a generation and its rotation |
| `keys_prior_first` (violation) | can Credentials be saved when a superseded keypair is registered first? | as the keys of `facade`, 3 saved records |
| `lifecycle` | two backends make any two of seven calls; they implement `SandboxContract` | 5 versions of the record: a failure, its recovery and a stop fit |
| `lifecycle_stale` (violation) | is a reported save error one of this Stop? | 6 versions |
| `stream` | exact delivery, budget, progress | 4 events of every kind, budget 2 |
| `control` | no mint but when needed, no double effect, 401 only for fresh tokens, every call returns | 2 goroutines, 2 sends, 2 mint attempts, 1 busy repeat, 2 tokens, 1 revocation |
| `artifact_transfer` | one generation, the whole file, no hole, no delete reported missing that the call itself made; every call ends | files of up to 3 bytes (a short range answer inside a resumed read), 3 generations (two replacements), budget 2, 2 sends, copies of 2 rewrite calls, 1 loss of kept bytes |
| `artifact_tokens` | a refused write is really over the limit, a 401 is of a fresh token, only refused tokens are dropped, every request returns | 2 goroutines over the Computer's own token, 2 tokens, 2 revocations: the second token can be refused too |

Runs with `CHECK_DEADLOCK FALSE` are of programs that stop: every call has
returned. `facade` adds three state spaces instead of multiplying them: agent calls,
control calls and key registrations share no state of the client or of a service, so a
behaviour uses one group. `MaxLate` and `MaxAstray` bound the requests that outlive their senders at the
same time; one is enough for it to overtake every other request in turn.

### Violations

* `handle_late_reset`: `reset` drops whatever the handle holds now, not the sandbox
  the call stopped.
* `handle_overlap`: `Attach` checks that the object holds no sandbox in its first
  critical section and publishes in a later one without checking again. Of two
  overlapping calls both pass, and the second publishes over the first, whose sandbox
  nobody holds then. The comment on `Attach` promises the refusal without a proviso;
  the SDK's README asks only to serialize Create and Start.
* `keys_prior_first`: `AddPriorCaptureKeypair` accepts any generation while there is no
  current keypair, and `SetCaptureKeypair` then accepts a lower one; the object's
  Credentials fail their own validation and can be neither saved nor loaded.
* `lifecycle_stale`: after an admitted Stop, a failed observation repeats the one
  from before it, so an old retryable save failure is reported as this Stop's.

Smaller differences between comments and code are recorded here only. The
comment on `resumeStream` says only a feed that cannot be re-established is lost;
a feed that always opens but carries no event for `Budget + 1` connections is
lost too (`LostOnlyBarren` states what the code does). The comment on
`ControlTokenSource` says 5xx answers are retried; a 504 arrives as a timeout and
is not (`MintRefused`). The comment on artifact `Delete` says that a missing file
is an error unless an earlier send of the call deleted it. If that send's answer is
lost and the resend is refused with 401, the send with the fresh token counts as a
first attempt and its 404 is reported as a missing file (`OwnDeleteCounts` states this
exception); and any 404 to a resend is a success, also for a file that never existed
after a first send that storage refused with 503 or never got. `AgentRun` reports a run
as unconfirmed when its last response was lost; when the first send is lost and its
resend is refused, and when a 2xx does not decode (`parseAgentTurn`), the error is
returned as it is although a turn may have been started (`NoSilentRun` states both
exceptions). The comment on `WaitUntilRunning` says that a Computer which was running
in the answer to its create skips the first poll; it skips all of them, so success then
says nothing of the time of the call (`TargetWasReached` states this exception). An
event without an id moves no cursor (`pumpFrames`): it is yielded again after a
reconnect, and connections that keep ending behind such events can go on for ever,
for each event restores the budget (`ExactlyOnce` and `Delivery` state both).

## 4. Fairness

Weak fairness of a call's own steps: a goroutine is scheduled, a request with a
deadline returns, a timer fires, Go's mutex is granted in the end. No fairness of
any service. `ComputerHandle`, `CaptureKeys`, `AgentTurns` and `ControlLease` state safety
only and assume none: their calls are waits bounded by a context, which `lifecycle`,
`bind` and `control` show to end. `EventStream` additionally needs that bytes on a live connection are
read and that an over-long block ends it. `ArtifactTokens` asks strong fairness of
a request, because the mutex it waits for is taken and freed by others: a Go mutex
hands itself to a goroutine that has waited for a millisecond (starvation mode).

## 5. Proofs

Every theorem is over arbitrary constants (goroutines, backends, budgets, bounds).

* `BinderProofs`: the inductive invariant adds to the types what the loop knows
  at each place: every mint request expects the revision the handshake began
  with, so the first commit excludes all others; an envelope exists only after
  its revision is recorded; posts carry the present envelope. From it follow
  `OneAuthorization`, `SameEnvelope`, `AuthorizedFirst`,
  `RestoreBounded`, `NoRemint`, and step by step the refinement of `BindContract`.
  `ClassifyIsTheTable` goes through the problem types one by one: the table's rows that
  match an outcome are named, and `Classify`'s first applicable case is shown to be
  theirs. `TableAgreement` puts it into the loop.
* `SandboxLifecycleProofs`: an observation is never newer than the record, and one
  that shows a released sandbox stays true because release is final; a wait's
  history covers the record and its own observation. `LifecycleRefinement` shows that
  the calls implement `SandboxContract`: the sandbox the contract sees is `View` of the
  server's record, and the answer is `Answered` of the result. `CallEffect` lists what a
  call's step does to that view (nothing, or what a Stop or a DELETE may do, and then it
  does not succeed in the same step); a reported release is of a sandbox that is gone by
  `ConfirmedIsReleased` of the next state (`CallConfirms`); that Recover's DELETE meets
  only a recorded failure needs `RecoverInv`. The mapping also needs `CallInv`: a backend
  has made a call exactly when it is no longer idle, and has no result before its return.
* `EventStreamProofs`: `InOrder` and `CursorExact` are inductive together with
  `AheadInv`: a connection is ahead of the cursor only by events without an id; the
  budget counts exactly the barren reconnects.
* `ControlPlaneProofs`: the mutex discipline, the order of tokens in calls, cache
  and Portal, what a forced call holds, and what a call's effect count may be.
* `ArtifactTransferProofs`: the pinned generation is either the one delivered or
  one storage has left behind for good, because generations only grow; an open
  response continues what was delivered, and ends with its generation unless that
  one's length is known; storage makes an object only of all its bytes; after a send
  that deleted the file the call is at a resend or in its second attempt after a 401.
* `ComputerHandleProofs`: `HandleInv`. A sandbox that an attach has made and not
  published belongs to that attach alone (`Holders`), so the receipt it obtains cannot be
  paired with another handle or a saved binding (`Paired`); without it a crash and a
  reconnect could mix them. A Start whose frozen revision is still Portal's has seen
  Portal's sandbox gone (`Starts`), and gone is for ever. `Attachers` (one attach per
  handle, none on an attached one) is what attaches that do not overlap give, and is
  preserved by every stop, kill and delete that does. `NoLiveReplacement` and
  `KeptBySoleUser` are action properties and follow from it step by step; the latter also
  needs that a stop that is about to reset has its own sandbox gone (`ReleaseConfirmed`).
* `FacadeProofs`, control: `LeaseInv`. Requests astray force only if their callers did,
  and a call that is under way has had no effect yet, so an attempt that is repeated
  (only after a 412, which had none) adds at most one.
* `FacadeProofs`, agent: `AgentInv`. Every run on the wire carries its submission's one
  key, late ones too, so a second turn would need a second key; every run late or turned
  into a turn has a caller that knows of it or still waits (`RunsJustified`); a text is
  delivered, or in exactly one place, or nowhere (`SteersOnce`); a cancel on the wire
  names a turn that was asked for. Each is about requests in flight, which the properties
  do not mention, and that is why they are not inductive by themselves.
* `FacadeProofs`, keys: `KeysInv` (a current generation has its keypair; prior ones lie
  below it unless `PriorFirst`) gives `ExportStorable` under `~PriorFirst`, and
  `KeysForward`. `RecoverInv` adds that an attach's snapshot is part of its object's
  registry, and that an object inside Create or Start holds only saved keys or is the
  only object of a Computer nothing was saved of, with its keys still in the recovery
  Credentials: the one case in which the error must carry them.
* `ArtifactTokensProofs`: the cache of a key only moves to later tokens or to none,
  so after a refusal it holds nothing a request was refused with; whoever mints
  holds the mutex alone.

What ends the calls. Each liveness property rests on a measure that the call's own steps
lower and nothing else raises, and that is a safety statement, proved for every budget:

| Theorem | Measure | What could have broken it |
|---|---|---|
| `DeadlineEndsHolds` (Bind) | restores left, times the steps of one, and the place in the loop | after the deadline the restore still restarts; its transactions and rounds are counted |
| `LateCallsEndHolds` (lifecycle) | the place in the call | a late call goes on to its next request, never to an earlier one |
| `BudgetsNestHolds` (control plane) | busy repeats, the forced pass, sends and mint attempts, nested | each outer repetition refills the inner budget |
| `FeedNearsEndHolds` (streams) | events unread, times what one may cost, and the budget left | an event refills the budget; only the server's next event, or a connection that ends behind events without an id, adds to the measure |
| `CallNearsEndHolds` (transfers) | losses of kept bytes left, times a whole transfer; bytes left, times the budget, and the attempt | progress forgets failures; it has moved the transfer, which moves back only with storage |
| `RequestNearsEndHolds` (storage tokens) | attempts left and the place in one | a 401 starts the request again, once |

With the fairness of section 4 they give the liveness properties, which the runs check.

What limits the violations. The finding of each violation run has a theorem about where
it stops: `KeptBySoleUserHolds` (a handle that one goroutine uses is kept until its
sandbox is released, whatever other backends do), `SaveErrorExplainedHolds` and
`OlderServerSaveError` (a save error about the past needs ETags and a Stop that retries a
retryable failure), and `ExportStorableHolds` (a superseded keypair registered after the
current one). `handle_overlap` needs two attaches of one object: the other properties
of `ComputerHandle` hold without.

The type invariants of all these modules, and `LockDiscipline`, `SameEnvelope`, `NoRemint`,
`CacheNeverRegresses` and the artifact tokens' `NoRedundantMint`, are proved and not
repeated in the runs. The theorems on `ComputerHandle` rest on attaches of one object that
do not overlap, and `SteeredOnce` on one Steer call per text. `Recoverable` rests on
what the comment on `Computer.Credentials` asks: an application that changes keys saves
them before its process ends.

Only model-checked: the liveness properties (`Terminates`, `CallsReturn`, `Delivery`,
`CallEnds`, `RequestsReturn`), because fairness and `ENABLED` are outside the prover's
reach. Every other property of the passing runs is stated by a theorem.

## 6. Not modelled

HPKE, JSON shapes, header and URL construction, text of errors, TLS: no protocol
state. Facades that make a single request keep nothing between calls: sessions, drive,
exec, files, tabs, desktop tokens, handoffs, artifact links, passkeys, skills, policies,
agent Reset and the reads of turns and pages. Delegation seals one secret and posts it.
Registration of a new id is a request without state before Create. An `AdoptExisting`
without a binding revision is left out: it adds an object with revision 0 to every state
of `ComputerHandle`, and such an object's binding names no revision to compare.

Three hazards have no property, with the reason in `PROJECT.json`: the 412 of a resent
conditional DELETE and the create whose answer is lost for good change no state of the
client, and a copy that is resent is a second legal write at storage.

## 7. Plan

1. Session creation and adoption with the saved name and token, across Stop and Start.
2. `AgentWait`'s holds and its timeout as a liveness property: Wait returns once the turn
   does, under fairness of the reads.
