----------------------------- MODULE CaptureKeys -----------------------------
(***************************************************************************)
(* The capture keypairs of one Computer (computer.go, client.go,           *)
(* credentials.go).  State is sealed to the current keypair's public half; *)
(* only the caller holds the private halves, in Computer objects and in    *)
(* the Credentials it saved.  A keypair is its generation and its material.*)
(*                                                                         *)
(* Each object's registry changes under Computer.mu, by any goroutine, at  *)
(* any point of an Attach of the same object: the Attach configures and    *)
(* checks the registry in its first critical sections and snapshots it for *)
(* the bind minutes later.                                                 *)
(***************************************************************************)
EXTENDS Naturals, FiniteSets

CONSTANTS
    Objects,        \* Computer objects, in this or another backend
    Materials,      \* key material: both halves of a keypair
    NoKey,          \* no keypair registered under a generation
    MaxGeneration,  \* bound: generations
    MaxSaved,       \* bound: Credentials records the application keeps
    PriorFirst      \* TRUE: superseded keypairs are also registered on objects
                    \* that have no current keypair yet

ASSUME KeysAssumption ==
    /\ NoKey \notin Materials
    /\ MaxGeneration \in Nat \ {0} /\ MaxSaved \in Nat
    /\ PriorFirst \in BOOLEAN

VARIABLES
    live,      \* live[o]: none, making (inside Create or Start), ready
    keypairs,  \* Computer.captureKeypairs
    captureGen,\* Computer.captureGen
    ephemeral, \* Computer.ephemeral
    attach,    \* where the object's Attach stands
    optEph,    \* its opts.Ephemeral
    snap,      \* its captureKeypairsCopy: keypairs and current generation
    recovery,  \* CreateComputer's recoveryCredentials
    stored,    \* every Credentials the application has saved
    sealed     \* <<generation, material>> pairs Pine sealed state to

keyVars == <<live, keypairs, captureGen, ephemeral, attach, optEph, snap,
             recovery, stored, sealed>>

Generations == 1 .. MaxGeneration
Registry    == [Generations -> Materials \cup {NoKey}]
NoKeys      == [g \in Generations |-> NoKey]

\* Credentials: the current generation (0 for none), every keypair held,
\* current and prior, and the persistence mode.
Credentials == [current : 0 .. MaxGeneration, keys : Registry, eph : BOOLEAN]
NoCreds     == [current |-> 0, keys |-> NoKeys, eph |-> FALSE]

Attaches == {"idle", "configured", "minting", "bind", "bound"}

KeysTypeOK ==
    /\ live \in [Objects -> {"none", "making", "ready"}]
    /\ keypairs \in [Objects -> Registry]
    /\ captureGen \in [Objects -> 0 .. MaxGeneration]
    /\ ephemeral \in [Objects -> BOOLEAN]
    /\ attach \in [Objects -> Attaches]
    /\ optEph \in [Objects -> BOOLEAN]
    /\ snap \in [Objects -> [keys : Registry, gen : 0 .. MaxGeneration]]
    /\ recovery \in [Objects -> Credentials]
    /\ stored \subseteq Credentials
    /\ sealed \subseteq (0 .. MaxGeneration) \X (Materials \cup {NoKey})

NoSnap == [keys |-> NoKeys, gen |-> 0]

KeysInit ==
    /\ live = [o \in Objects |-> "none"]
    /\ keypairs = [o \in Objects |-> NoKeys]
    /\ captureGen = [o \in Objects |-> 0]
    /\ ephemeral = [o \in Objects |-> FALSE]
    /\ attach = [o \in Objects |-> "idle"]
    /\ optEph = [o \in Objects |-> FALSE]
    /\ snap = [o \in Objects |-> NoSnap]
    /\ recovery = [o \in Objects |-> NoCreds]
    /\ stored = {} /\ sealed = {}

-----------------------------------------------------------------------------
\* Credentials: what an object exports, and what may be stored and loaded.

\* Computer.Credentials: every generation but the current one is prior.
Export(o) == [current |-> captureGen[o], keys |-> keypairs[o], eph |-> ephemeral[o]]

\* Credentials.validate, which MarshalJSON, UnmarshalJSON, Start and Reconnect
\* all run: a persistent Computer has a current keypair, and prior ones are
\* distinct (by the shape of a registry) and below it.
Valid(c) == /\ c.eph \/ c.current # 0
            /\ \A g \in Generations : c.keys[g] # NoKey => g <= c.current

\* A keypair may join a registry that holds nothing else in its place.
Joins(reg, g, m) == reg[g] \in {NoKey, m}

\* configureCaptureKeypairs: nothing changes unless all of c passes.
NextGeneration(gen, c) == IF c.current # 0 THEN c.current ELSE gen
Configurable(reg, gen, c) ==
    /\ c.current # 0 => /\ c.current >= gen
                        /\ Joins(reg, c.current, c.keys[c.current])
    /\ \A g \in Generations \ {c.current} : c.keys[g] # NoKey =>
          /\ g < NextGeneration(gen, c)
          /\ Joins(reg, g, c.keys[g])

\* The candidate keypairs join the ones already registered.
Configured(reg, c) ==
    [g \in Generations |-> IF c.keys[g] # NoKey THEN c.keys[g] ELSE reg[g]]

\* Credentials.UnmarshalJSON: what the application stored is loaded whole, or
\* refused.
Loaded == {c \in stored : Valid(c)}

\* The keys a caller passes: from Credentials it saved, current and prior, or
\* none.
Options == Loaded \cup {NoCreds}

-----------------------------------------------------------------------------
\* The application's store.

\* A record joins the ones the application keeps.
Keeps(c) == /\ stored' = stored \cup {c}
            /\ Cardinality(stored \cup {c}) <= MaxSaved

\* GenerateCredentials: a new Computer, so nothing of this one exists yet.
Generated ==
    IF stored = {} /\ \A o \in Objects : live[o] = "none"
    THEN {[current |-> 1, keys |-> [NoKeys EXCEPT ![1] = m], eph |-> FALSE] : m \in Materials}
    ELSE {}

\* Credentials are generated and saved before Create, of either mode.
Generate ==
    /\ \E c \in Generated, eph \in BOOLEAN : Keeps([c EXCEPT !.eph = eph])
    /\ UNCHANGED <<live, keypairs, captureGen, ephemeral, attach, optEph, snap,
                   recovery, sealed>>

\* Credentials are saved again after a change of keys: MarshalJSON validates.
Save(o) ==
    /\ live[o] = "ready" /\ Valid(Export(o))
    /\ Keeps(Export(o))
    /\ UNCHANGED <<live, keypairs, captureGen, ephemeral, attach, optEph, snap,
                   recovery, sealed>>

\* A rotation of saved Credentials: the current keypair becomes a prior one.
Rotate(c, m) ==
    /\ Valid(c) /\ c.current \in 1 .. MaxGeneration - 1
    /\ Keeps([c EXCEPT !.current = @ + 1, !.keys[c.current + 1] = m])
    /\ UNCHANGED <<live, keypairs, captureGen, ephemeral, attach, optEph, snap,
                   recovery, sealed>>

-----------------------------------------------------------------------------
\* Computer objects.

Becomes(o, stage, reg, gen, eph) ==
    /\ live' = [live EXCEPT ![o] = stage]
    /\ keypairs' = [keypairs EXCEPT ![o] = reg]
    /\ captureGen' = [captureGen EXCEPT ![o] = gen]
    /\ ephemeral' = [ephemeral EXCEPT ![o] = eph]

\* CreateComputer with saved Credentials, or with ones it generates: an
\* ephemeral Computer takes no keypair.  The recovery Credentials are copied
\* before the Attach, which is not reached by a registry without a key.
CreateComputer(o) ==
    /\ live[o] = "none"
    /\ \E c \in Loaded \cup Generated, opt \in BOOLEAN :
          LET eph == opt \/ c.eph
              k   == IF eph THEN NoCreds ELSE c
          IN  /\ Configurable(NoKeys, 0, k)
              /\ Becomes(o, "making", Configured(NoKeys, k), k.current, eph)
              /\ recovery' = [recovery EXCEPT ![o] =
                    [current |-> k.current, keys |-> Configured(NoKeys, k), eph |-> eph]]
              /\ optEph' = [optEph EXCEPT ![o] = eph]
    /\ attach' = [attach EXCEPT ![o] = "configured"]
    /\ UNCHANGED <<snap, stored, sealed>>

\* StartComputer with saved Credentials; the mode is set when the Attach ends.
StartComputer(o) ==
    /\ live[o] = "none"
    /\ \E c \in Loaded :
          /\ Configurable(NoKeys, 0, c)
          /\ Becomes(o, "making", Configured(NoKeys, c), c.current, FALSE)
          /\ optEph' = [optEph EXCEPT ![o] = c.eph]
    /\ attach' = [attach EXCEPT ![o] = "configured"]
    /\ UNCHANGED <<snap, recovery, stored, sealed>>

\* ReconnectComputer: a live object from saved Credentials, without an Attach.
ReconnectComputer(o) ==
    /\ live[o] = "none"
    /\ \E c \in Loaded : /\ Configurable(NoKeys, 0, c)
                         /\ Becomes(o, "ready", Configured(NoKeys, c), c.current, c.eph)
    /\ UNCHANGED <<attach, optEph, snap, recovery, stored, sealed>>

\* AdoptExisting: a live object without any keypair.
AdoptExisting(o) ==
    /\ live[o] = "none" /\ stored # {}
    /\ \E eph \in BOOLEAN : Becomes(o, "ready", NoKeys, 0, eph)
    /\ UNCHANGED <<attach, optEph, snap, recovery, stored, sealed>>

\* Mutant: the material already registered is not compared.
SetCaptureKeypairOver(o, g, m) ==
    /\ live[o] = "ready" /\ g >= captureGen[o]
    /\ keypairs' = [keypairs EXCEPT ![o][g] = m]
    /\ captureGen' = [captureGen EXCEPT ![o] = g]
    /\ UNCHANGED <<live, ephemeral, attach, optEph, snap, recovery, stored, sealed>>

\* SetCaptureKeypair: rotations move forward, and a generation has one material.
SetCaptureKeypair(o, g, m) ==
    /\ live[o] = "ready" /\ g >= captureGen[o] /\ Joins(keypairs[o], g, m)
    /\ keypairs' = [keypairs EXCEPT ![o][g] = m]
    /\ captureGen' = [captureGen EXCEPT ![o] = g]
    /\ UNCHANGED <<live, ephemeral, attach, optEph, snap, recovery, stored, sealed>>

\* Mutant: a prior keypair may have the current generation or a later one.
AddPriorCaptureKeypairAny(o, g, m) ==
    /\ live[o] = "ready" /\ Joins(keypairs[o], g, m)
    /\ keypairs' = [keypairs EXCEPT ![o][g] = m]
    /\ UNCHANGED <<live, captureGen, ephemeral, attach, optEph, snap, recovery,
                   stored, sealed>>

\* AddPriorCaptureKeypair: below the current generation, when there is one.
AddPriorCaptureKeypair(o, g, m) ==
    /\ live[o] = "ready" /\ Joins(keypairs[o], g, m)
    /\ IF captureGen[o] # 0 THEN g < captureGen[o] ELSE PriorFirst
    /\ keypairs' = [keypairs EXCEPT ![o][g] = m]
    /\ UNCHANGED <<live, captureGen, ephemeral, attach, optEph, snap, recovery,
                   stored, sealed>>

-----------------------------------------------------------------------------
\* Computer.Attach and what CreateComputer and StartComputer make of its error.

\* A direct Attach of an object that is not attached: the options' keypairs are
\* configured, and a persistent attach needs a current one.
BeginAttach(o) ==
    /\ live[o] = "ready" /\ attach[o] = "idle"
    /\ \E c \in Options, eph \in BOOLEAN :
          /\ Configurable(keypairs[o], captureGen[o], c)
          /\ keypairs' = [keypairs EXCEPT ![o] = Configured(@, c)]
          /\ captureGen' = [captureGen EXCEPT ![o] = NextGeneration(@, c)]
          /\ optEph' = [optEph EXCEPT ![o] = eph]
          /\ attach' = [attach EXCEPT ![o] =
                IF eph \/ NextGeneration(captureGen[o], c) # 0 THEN "configured" ELSE "idle"]
    /\ UNCHANGED <<live, ephemeral, snap, recovery, stored, sealed>>

\* captureKeypairsCopy for the bind, after the sandbox was made and awaited:
\* what another goroutine registered meanwhile is in the copy.
Snapshot(o) ==
    /\ attach[o] = "configured"
    /\ snap' = [snap EXCEPT ![o] = [keys |-> keypairs[o], gen |-> captureGen[o]]]
    /\ attach' = [attach EXCEPT ![o] = "minting"]
    /\ UNCHANGED <<live, keypairs, captureGen, ephemeral, optEph, recovery, stored, sealed>>

\* The attach ends and its locals are gone.
Ended(o) == /\ attach' = [attach EXCEPT ![o] = "idle"]
            /\ optEph' = [optEph EXCEPT ![o] = FALSE]
            /\ snap' = [snap EXCEPT ![o] = NoSnap]
            /\ recovery' = [recovery EXCEPT ![o] = NoCreds]

\* Create and Start return no object with an error; a direct caller keeps it.
Dropped(o) ==
    IF live[o] = "making" THEN Becomes(o, "none", NoKeys, 0, FALSE)
                          ELSE UNCHANGED <<live, keypairs, captureGen, ephemeral>>

\* The attach fails before Portal's receipt arrived.
FailUnauthorized(o) ==
    /\ attach[o] \in {"configured", "minting"}
    /\ Dropped(o) /\ Ended(o)
    /\ UNCHANGED <<stored, sealed>>

\* OnAuthorized: Portal's receipt is recorded in the object.
Authorized(o) ==
    /\ attach[o] = "minting"
    /\ attach' = [attach EXCEPT ![o] = "bind"]
    /\ UNCHANGED <<live, keypairs, captureGen, ephemeral, optEph, snap, recovery,
                   stored, sealed>>

\* The coordinator binds: from now on it seals state to the snapshot's current
\* keypair.  Its answer is still to come.
Seals(o) ==
    /\ attach[o] = "bind"
    /\ attach' = [attach EXCEPT ![o] = "bound"]
    /\ sealed' = IF optEph[o] THEN sealed
                 ELSE sealed \cup {<<snap[o].gen, IF snap[o].gen = 0 THEN NoKey
                                                  ELSE snap[o].keys[snap[o].gen]>>}
    /\ UNCHANGED <<live, keypairs, captureGen, ephemeral, optEph, snap, recovery, stored>>

\* Mutant: CreateComputer's error carries no Credentials.
FailAuthorizedBare(o) ==
    /\ attach[o] \in {"bind", "bound"}
    /\ Dropped(o) /\ Ended(o)
    /\ UNCHANGED <<stored, sealed>>

\* The attach fails after the authorization: attachClientError reports it, and
\* Create's error carries the recovery Credentials, which the caller saves.
FailAuthorized(o) ==
    /\ attach[o] \in {"bind", "bound"}
    /\ IF live[o] = "making" /\ recovery[o] # NoCreds THEN Keeps(recovery[o])
                                                     ELSE UNCHANGED stored
    /\ Dropped(o) /\ Ended(o)
    /\ UNCHANGED sealed

\* The attach succeeds.
Publish(o) ==
    /\ attach[o] = "bound"
    /\ live' = [live EXCEPT ![o] = "ready"]
    /\ ephemeral' = [ephemeral EXCEPT ![o] = optEph[o]]
    /\ Ended(o)
    /\ UNCHANGED <<keypairs, captureGen, stored, sealed>>

\* The backend ends.  The application has saved what the object holds, as the
\* comment on Computer.Credentials asks: before Create, and after changing keys.
Saved(o) == \A g \in Generations : keypairs[o][g] # NoKey =>
                \E c \in stored : c.keys[g] = keypairs[o][g]
Crash(o) ==
    /\ live[o] # "none" /\ Saved(o)
    /\ Becomes(o, "none", NoKeys, 0, FALSE) /\ Ended(o)
    /\ UNCHANGED <<stored, sealed>>

-----------------------------------------------------------------------------
KeysNext ==
    \/ Generate
    \/ \E c \in stored, m \in Materials : Rotate(c, m)
    \/ \E o \in Objects :
          \/ Save(o) \/ CreateComputer(o) \/ StartComputer(o) \/ ReconnectComputer(o)
          \/ AdoptExisting(o) \/ BeginAttach(o) \/ Snapshot(o) \/ FailUnauthorized(o)
          \/ Authorized(o) \/ Seals(o) \/ FailAuthorized(o) \/ Publish(o) \/ Crash(o)
          \/ \E g \in Generations, m \in Materials :
                SetCaptureKeypair(o, g, m) \/ AddPriorCaptureKeypair(o, g, m)

KeysSpec == KeysInit /\ [][KeysNext]_keyVars

-----------------------------------------------------------------------------
\* Properties.

\* State Pine sealed can be restored: the keypair it is sealed to is a real one
\* and its private half is in Credentials the application saved, or in an object
\* that is still there to be saved, whatever was rotated, configured, attached,
\* failed half-way or crashed in between.
Recoverable ==
    \A s \in sealed :
        /\ s[1] # 0 /\ s[2] # NoKey
        /\ \/ \E c \in stored : c.keys[s[1]] = s[2]
           \/ \E o \in Objects : live[o] # "none" /\ keypairs[o][s[1]] = s[2]

\* The Credentials of an object with a current keypair can always be saved and
\* loaded again: no sequence of registrations leaves a prior keypair above the
\* current one.
ExportStorable ==
    \A o \in Objects : live[o] # "none" /\ captureGen[o] # 0 => Valid(Export(o))

\* While an object lives its generation only moves forward and a generation
\* keeps its material; a refused set of keypairs changes nothing.
KeysForward ==
    [][\A o \in Objects : live[o] # "none" /\ live'[o] # "none" =>
          /\ captureGen'[o] >= captureGen[o]
          /\ \A g \in Generations : keypairs[o][g] # NoKey =>
                keypairs'[o][g] = keypairs[o][g]]_keyVars
=============================================================================
