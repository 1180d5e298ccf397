------------------------------- MODULE FlakeNew -------------------------------
(***************************************************************************)
(* flake.New (flake/flake.go): parse a flake reference, lock it, and cache *)
(* its lock graph and fingerprint.                                         *)
(*                                                                         *)
(* The function creates up to four native temporaries and two more for     *)
(* each input override, all freed by deferred calls in the reverse order   *)
(* of their creation, and the locked flake, which a deferred function      *)
(* frees when the variable err is not nil at the return.                   *)
(*                                                                         *)
(* err is an interface.  status.FromContext returns a pointer, nil when    *)
(* Nix reported no error; assigned to err it makes an interface that holds *)
(* a nil pointer and is itself not nil ("typed nil").                      *)
(*                                                                         *)
(* A definition named Mutant... is a mistaken form of the definition after *)
(* it, used only to show that the properties notice the mistake.           *)
(***************************************************************************)
EXTENDS Naturals, Sequences, SequencesExt

CONSTANT MaxOverrides  \* a bound of the model on WithInputOverride options

ASSUME MaxOverridesAssumption == MaxOverrides \in Nat

VARIABLES
    pc,        \* the next step of flake.New
    cfg,       \* the options, and which of the borrowed resources are closed
    live,      \* the native objects created and not freed
    deferred,  \* the deferred frees, the last one to run first
    applied,   \* the options the lock flags received
    err,       \* the variable err of the function
    found,     \* what Nix answered about the fingerprint
    outcome    \* what the function returned

vars == <<pc, cfg, live, deferred, applied, err, found, outcome>>

-----------------------------------------------------------------------------

Resources == {"ctx", "evaluator", "fetcherSettings", "flakeSettings", "store"}

ConfigType == [baseDirectory : BOOLEAN, mode : {"valid", "invalid"},
               referenceLock : BOOLEAN, overrides : 0 .. MaxOverrides,
               closed : SUBSET Resources]

\* The temporaries; objects of the i-th override carry its number.
Object(name) == <<name, 0>>
Objects ==
    {Object(name) : name \in {"parseFlags", "result", "ref", "lockFlags", "locked"}}
        \cup {"overrideResult", "overrideRef"} \X (1 .. MaxOverrides)

Locked == Object("locked")

Steps == {"borrow", "parseFlags", "baseDirectory", "reference", "lockFlags",
          "mode", "referenceLock", "override", "addOverride", "lock",
          "lockJSON", "borrowStore", "fingerprint", "unwind", "done"}

\* The options that must reach the lock flags before the reference is locked.
Wanted == {<<"mode", 0>>} \cup (IF cfg.referenceLock THEN {<<"referenceLock", 0>>} ELSE {})
            \cup ({"override"} \X (1 .. cfg.overrides))

Overrides == Cardinality({x \in applied : x[1] = "override"})

TypeOK ==
    /\ pc \in Steps
    /\ cfg \in ConfigType
    /\ live \in SUBSET Objects
    /\ deferred \in Seq(Objects)
    /\ applied \subseteq {"mode", "referenceLock", "override"} \X (0 .. MaxOverrides)
    /\ err \in {"nil", "typed nil", "error"}
    /\ found \in {"unknown", "value", "unavailable", "error"}
    /\ outcome \in {"none", "flake", "error"}

Init ==
    /\ pc = "borrow"
    /\ cfg \in ConfigType
    /\ live = {}
    /\ deferred = <<>>
    /\ applied = {}
    /\ err = "nil"
    /\ found = "unknown"
    /\ outcome = "none"

\* Whether an interface with value e compares unequal to nil.
NotNil(e) == e # "nil"

\* Return a nil Flake.  e is what err holds at that moment.
ReturnError(e) ==
    /\ pc' = "unwind"
    /\ err' = e
    /\ outcome' = "error"
    /\ UNCHANGED <<cfg, live, deferred, applied>>

\* A step fails, its error wrapped and returned but not assigned to err.
Fails(step) == pc = step /\ ReturnError(err) /\ UNCHANGED found

\* Go on to step next with the new objects, their frees deferred in order.
Continue(next, new) ==
    /\ pc' = next
    /\ live' = live \cup Range(new)
    /\ deferred' = deferred \o new
    /\ UNCHANGED <<cfg, err, outcome>>

-----------------------------------------------------------------------------

\* Context, evaluator and both settings are borrowed first.  A failing Borrow
\* assigns err, before anything exists.
Borrow ==
    /\ pc = "borrow"
    /\ cfg.closed \subseteq {"store"}
    /\ Continue("parseFlags", <<>>)
    /\ UNCHANGED <<applied, found>>

BorrowFails ==
    /\ pc = "borrow"
    /\ ~ cfg.closed \subseteq {"store"}
    /\ ReturnError("error")
    /\ UNCHANGED found

ParseFlagsNew ==
    /\ pc = "parseFlags"
    /\ Continue("baseDirectory", <<Object("parseFlags")>>)
    /\ UNCHANGED <<applied, found>>

\* No base directory, no call.
SetBaseDirectory ==
    /\ pc = "baseDirectory"
    /\ Continue("reference", <<>>)
    /\ UNCHANGED <<applied, found>>

SetBaseDirectoryFails == cfg.baseDirectory /\ Fails("baseDirectory")

\* Parse the reference and take it out of the result; the fragment is copied
\* to a Go string at once.
ParseReference ==
    /\ pc = "reference"
    /\ Continue("lockFlags", <<Object("result"), Object("ref")>>)
    /\ UNCHANGED <<applied, found>>

LockFlagsNew ==
    /\ pc = "lockFlags"
    /\ Continue("mode", <<Object("lockFlags")>>)
    /\ UNCHANGED <<applied, found>>

\* applyLockMode.
ApplyLockMode ==
    /\ pc = "mode"
    /\ cfg.mode = "valid"
    /\ Continue("referenceLock", <<>>)
    /\ applied' = applied \cup {<<"mode", 0>>}
    /\ UNCHANGED found

\* Encode the caller's lock graph and hand it to the flags, if there is one.
SetReferenceLock ==
    /\ pc = "referenceLock"
    /\ Continue("override", <<>>)
    /\ applied' = IF cfg.referenceLock THEN applied \cup {<<"referenceLock", 0>>} ELSE applied
    /\ UNCHANGED found

SetReferenceLockFails == cfg.referenceLock /\ Fails("referenceLock")

\* The loop over the input overrides.
MutantMoreOverrides == Overrides + 1 < cfg.overrides
MutantOneMoreOverride == Overrides <= cfg.overrides
MoreOverrides == Overrides < cfg.overrides

MutantOverrideObjects(i) == <<<<"overrideResult", i>>>>
OverrideObjects(i) == <<<<"overrideResult", i>>, <<"overrideRef", i>>>>

\* Parse one override reference; both objects live until the function returns.
ParseOverride ==
    /\ pc = "override"
    /\ MoreOverrides
    /\ pc' = "addOverride"
    /\ live' = live \cup {<<"overrideResult", Overrides + 1>>, <<"overrideRef", Overrides + 1>>}
    /\ deferred' = deferred \o OverrideObjects(Overrides + 1)
    /\ UNCHANGED <<cfg, applied, err, found, outcome>>

ParseOverrideFails == MoreOverrides /\ Fails("override")

AddInputOverride ==
    /\ pc = "addOverride"
    /\ Continue("override", <<>>)
    /\ applied' = applied \cup {<<"override", Overrides + 1>>}
    /\ UNCHANGED found

OverridesDone ==
    /\ pc = "override"
    /\ ~MoreOverrides
    /\ Continue("lock", <<>>)
    /\ UNCHANGED <<applied, found>>

\* raw.FlakeLock; its free is deferred, under the condition on err.
FlakeLock ==
    /\ pc = "lock"
    /\ Continue("lockJSON", <<Locked>>)
    /\ UNCHANGED <<applied, found>>

GetLockJSON ==
    /\ pc = "lockJSON"
    /\ Continue("borrowStore", <<>>)
    /\ UNCHANGED <<applied, found>>

\* err gets the result of FromContext, a typed nil if Nix reported nothing; it
\* is not nil in either case.
MutantGetLockJSONFails == Fails("lockJSON")
GetLockJSONFails ==
    /\ pc = "lockJSON"
    /\ \E e \in {"typed nil", "error"} : ReturnError(e)
    /\ UNCHANGED found

\* The store is borrowed only here, after the flake has been locked.
BorrowStore ==
    /\ pc = "borrowStore"
    /\ "store" \notin cfg.closed
    /\ Continue("fingerprint", <<>>)
    /\ UNCHANGED <<applied, found>>

BorrowStoreFails ==
    /\ pc = "borrowStore"
    /\ "store" \in cfg.closed
    /\ ReturnError("error")
    /\ UNCHANGED found

\* raw.LockedFlakeGetFingerprint: a value, or nil with the error slot of the
\* context clear when Nix cannot fingerprint the flake, or nil with an error.
FingerprintAnswers == {"value", "unavailable", "error"}

\* A nil answer is told apart by "if err = status.FromContext(rawCtx); err !=
\* nil": the test sees the interface, not the pointer in it.
GetFingerprint ==
    /\ pc = "fingerprint"
    /\ pc' = "unwind"
    /\ found' \in FingerprintAnswers
    /\ err' = CASE found' = "value"       -> err
               [] found' = "unavailable" -> "typed nil"
               [] found' = "error"       -> "error"
    /\ outcome' = IF NotNil(err') THEN "error" ELSE "flake"
    /\ UNCHANGED <<cfg, live, deferred, applied>>

\* Run the last deferred call.  The one of the locked flake looks at err.
Unwind ==
    /\ pc = "unwind"
    /\ deferred # <<>>
    /\ deferred' = Front(deferred)
    /\ live' = IF Last(deferred) # Locked \/ NotNil(err) THEN live \ {Last(deferred)} ELSE live
    /\ UNCHANGED <<pc, cfg, applied, err, found, outcome>>

Return ==
    /\ pc = "unwind"
    /\ deferred = <<>>
    /\ pc' = "done"
    /\ UNCHANGED <<cfg, live, deferred, applied, err, found, outcome>>

Next ==
    \/ Borrow \/ BorrowFails
    \/ ParseFlagsNew \/ Fails("parseFlags")
    \/ SetBaseDirectory \/ SetBaseDirectoryFails
    \/ ParseReference \/ Fails("reference")
    \/ LockFlagsNew \/ Fails("lockFlags")
    \/ ApplyLockMode \/ Fails("mode")
    \/ SetReferenceLock \/ SetReferenceLockFails
    \/ ParseOverride \/ ParseOverrideFails
    \/ AddInputOverride \/ Fails("addOverride")
    \/ OverridesDone
    \/ FlakeLock \/ Fails("lock")
    \/ GetLockJSON \/ GetLockJSONFails
    \/ BorrowStore \/ BorrowStoreFails
    \/ GetFingerprint
    \/ Unwind \/ Return

Spec == Init /\ [][Next]_vars

-----------------------------------------------------------------------------
(* Properties *)

\* Until the function returns, every native object has exactly one deferred
\* free, so that each is freed once whichever step fails; while the deferred
\* calls run, none of them frees an object that is already gone.
OneFreePerObject ==
    /\ IsInjective(deferred)
    /\ Range(deferred) \subseteq live
    /\ pc \notin {"unwind", "done"} => Range(deferred) = live

\* flake.New leaves nothing behind but the locked flake of the Flake it
\* returns, and frees that one when it returns an error ("Temporary flake
\* references are released during flake.New", docs/architecture.md).
OnlyTheFlakeRemains ==
    pc = "done" => live = IF outcome = "flake" THEN {Locked} ELSE {}

\* The reference is locked only after the lock flags received the mode, the
\* reference lock and every override of the options.
LockedWithAllOptions == Locked \in live => applied = Wanted

\* A flake Nix cannot fingerprint is opened all the same, with an empty
\* fingerprint.
UnavailableFingerprintIsEmpty == found = "unavailable" => outcome # "error"

=============================================================================
