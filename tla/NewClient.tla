------------------------------ MODULE NewClient ------------------------------
(***************************************************************************)
(* Construction of a Client (client.go, NewClient), one raw Nix call per   *)
(* step, any of which may fail.                                            *)
(*                                                                         *)
(* NewClient creates the Nix context, applies the settings of its          *)
(* ClientConfig to Nix, opens the settings objects, the store and the      *)
(* evaluator, and relies on deferred calls to release what it created when *)
(* a later step fails.  The deferred calls look at the variable err of the *)
(* function: a failure that another variable of that name holds is not     *)
(* seen by them.                                                           *)
(*                                                                         *)
(* Nix keeps its settings per process.  nix[k] is the value of setting k,  *)
(* shared by every Client of the process.                                  *)
(*                                                                         *)
(* A definition named Mutant... is a mistaken form of the definition after *)
(* it, used only to show that the properties notice the mistake.           *)
(***************************************************************************)
EXTENDS Integers, FiniteSets, FiniteSetsExt

CONSTANTS
    Clients,      \* the calls of NewClient in the process
    Keys,         \* names of Nix settings, numbered in alphabetical order
    Experimental, \* the setting experimental-features
    Gated,        \* settings Nix ignores while the flakes feature is off
    Configs       \* the ClientConfigs callers pass

ASSUME KeysAssumption == Keys \subseteq Int /\ IsFiniteSet(Keys)
ASSUME ExperimentalAssumption == Experimental \in Keys /\ Gated \subseteq Keys \ {Experimental}

\* A ClientConfig: the settings its typed fields give, the settings of
\* RawSettings, whether the experimental-features it gives leave flakes out,
\* and how the logging fields are set.
ConfigType == [typed : SUBSET Keys, raw : SUBSET Keys, withoutFlakes : BOOLEAN,
               verbosity : {"default", "valid", "invalid"},
               logFormat : BOOLEAN, logSink : BOOLEAN]

ASSUME ConfigsAssumption == Configs \subseteq ConfigType

VARIABLES
    nix,      \* the value of every Nix setting of the process
    pc,       \* the next raw call of each construction
    cfg,      \* its ClientConfig
    pending,  \* the settings applyClientSettings has still to apply
    live,     \* the native objects it created and did not free
    fields,   \* the non-nil fields of its Client
    err,      \* the variable err of NewClient is not nil
    outcome   \* what NewClient returned

vars == <<nix, pc, cfg, pending, live, fields, err, outcome>>

-----------------------------------------------------------------------------

Parts == {"ctx", "fetcherSettings", "flakeSettings", "store", "evaluator"}

\* The value of a setting is told apart by where it comes from: the configuration
\* that gave it, and what of the configuration.  "withoutFlakes" is a list of
\* experimental features without flakes.
Values == {"nix", "default", "typed", "raw", "withoutFlakes"} \X ConfigType

\* The configuration gives experimental-features, and leaves flakes out.
TurnsFlakesOff(f) == f.withoutFlakes /\ Experimental \in f.typed \cup f.raw

\* ClientConfig.Serialize.  RawSettings is copied last; experimental-features
\* has a default unless a field or RawSettings gives it.
MutantSerialize(f) == [k \in f.typed \cup f.raw |-> <<IF k \in f.raw THEN "raw" ELSE "typed", f>>]
Serialize(f) ==
    [k \in f.typed \cup f.raw \cup {Experimental} |->
        <<CASE k = Experimental /\ TurnsFlakesOff(f) -> "withoutFlakes"
            [] k \in f.raw   -> "raw"
            [] k \in f.typed -> "typed"
            [] OTHER         -> "default", f>>]

\* Whether a value of experimental-features contains flakes.
EnablesFlakes(v) == v[1] \in {"default", "typed", "raw"}

\* The order of the calls.  SetSetting repeats until no setting is pending.
Calls == <<"CContextCreate", "LibutilInit", "LibstoreInit", "LibexprInit",
           "SetSetting", "SetVerbosity", "SetLogFormat", "LogSinkInstall",
           "FetchersSettingsNew", "FlakeSettingsNew", "StoreOpen",
           "StoreGetUri", "StoreGetStoredir", "StoreGetVersion",
           "EvalStateBuilderNew", "SetLookupPath", "AddToEvalStateBuilder",
           "EvalStateBuild", "return">>

After(call) == Calls[1 + CHOOSE i \in DOMAIN Calls : Calls[i] = call]

TypeOK ==
    /\ nix \in [Keys -> Values]
    /\ pc \in [Clients -> {Calls[i] : i \in DOMAIN Calls} \cup {"idle", "fail", "closed"}]
    /\ \A c \in Clients : pc[c] # "idle" => cfg[c] \in Configs
    /\ pending \in [Clients -> SUBSET Keys]
    /\ live \in [Clients -> SUBSET (Parts \cup {"builder"})]
    /\ fields \in [Clients -> SUBSET Parts]
    /\ err \in [Clients -> BOOLEAN]
    /\ outcome \in [Clients -> {"none", "client", "error"}]

NoConfig == [typed |-> {}, raw |-> {}, withoutFlakes |-> FALSE, verbosity |-> "default",
             logFormat |-> FALSE, logSink |-> FALSE]

Init ==
    /\ nix = [k \in Keys |-> <<"nix", NoConfig>>]
    /\ pc = [c \in Clients |-> "idle"]
    /\ cfg = [c \in Clients |-> NoConfig]
    /\ pending = [c \in Clients |-> {}]
    /\ live = [c \in Clients |-> {}]
    /\ fields = [c \in Clients |-> {}]
    /\ err = [c \in Clients |-> FALSE]
    /\ outcome = [c \in Clients |-> "none"]

\* The steps below leave everything but pc, live and fields alone, unless
\* they say otherwise.
Rest == <<nix, cfg, pending, err, outcome>>

Begin(c, f) ==
    /\ pc[c] = "idle"
    /\ pc' = [pc EXCEPT ![c] = "CContextCreate"]
    /\ cfg' = [cfg EXCEPT ![c] = f]
    /\ pending' = [pending EXCEPT ![c] = DOMAIN Serialize(f)]
    /\ UNCHANGED <<nix, live, fields, err, outcome>>

\* A call that creates native object obj succeeds.
Create(c, call, obj, owned) ==
    /\ pc[c] = call
    /\ pc' = [pc EXCEPT ![c] = After(call)]
    /\ live' = [live EXCEPT ![c] = @ \cup {obj}]
    /\ fields' = [fields EXCEPT ![c] = @ \cup owned]
    /\ UNCHANGED Rest

\* A call that creates nothing succeeds.
Pass(c, call) ==
    /\ pc[c] = call
    /\ pc' = [pc EXCEPT ![c] = After(call)]
    /\ UNCHANGED <<live, fields, Rest>>

\* A call fails, the function that made it frees released and returns, and
\* NewClient assigns the error to err: its deferred function will run.
Fail(c, call, released) ==
    /\ pc[c] = call
    /\ pc' = [pc EXCEPT ![c] = "fail"]
    /\ live' = [live EXCEPT ![c] = @ \ released]
    /\ err' = [err EXCEPT ![c] = TRUE]
    /\ UNCHANGED <<nix, cfg, pending, fields, outcome>>

-----------------------------------------------------------------------------
(* nixcontext.New *)

CreateContext(c) == Create(c, "CContextCreate", "ctx", {})

\* nixcontext.New returned nil and an error, before NewClient deferred anything.
NoContext(c, call) ==
    /\ pc[c] = call
    /\ pc' = [pc EXCEPT ![c] = "return"]
    /\ live' = [live EXCEPT ![c] = {}]
    /\ outcome' = [outcome EXCEPT ![c] = "error"]
    /\ UNCHANGED <<nix, cfg, pending, fields, err>>

CreateContextFails(c) == NoContext(c, "CContextCreate")

InitLibrary(c, call) ==
    /\ call \in {"LibutilInit", "LibstoreInit"}
    /\ Pass(c, call)

\* The last initialization: the Context becomes a field of the Client.
InitExpr(c) == Create(c, "LibexprInit", "ctx", {"ctx"})

\* The deferred ctx.Close of nixcontext.New frees the context.
InitLibraryFails(c, call) ==
    /\ call \in {"LibutilInit", "LibstoreInit", "LibexprInit"}
    /\ NoContext(c, call)

-----------------------------------------------------------------------------
(* Settings *)

\* The setting applyClientSettings applies next: experimental-features, then
\* the others in alphabetical order.
MutantNextSetting(c) == Min(pending[c])
NextSetting(c) == IF Experimental \in pending[c] THEN Experimental ELSE Min(pending[c])

\* raw.SettingSet: a gated setting is ignored, with success, while the
\* feature is off.
SettingSet(k, v) ==
    IF k \in Gated /\ ~EnablesFlakes(nix[Experimental]) THEN nix ELSE [nix EXCEPT ![k] = v]

SetSetting(c) ==
    /\ pc[c] = "SetSetting"
    /\ pending[c] # {}
    /\ LET k == NextSetting(c) IN
        /\ nix' = SettingSet(k, Serialize(cfg[c])[k])
        /\ pending' = [pending EXCEPT ![c] = @ \ {k}]
    /\ UNCHANGED <<pc, cfg, live, fields, err, outcome>>

SettingsDone(c) == pending[c] = {} /\ Pass(c, "SetSetting")

SetSettingFails(c) == pending[c] # {} /\ Fail(c, "SetSetting", {})

\* SetVerbosity does nothing for the default level and refuses a level out of
\* range; otherwise Nix may refuse it.
SetVerbosity(c) == cfg[c].verbosity # "invalid" /\ Pass(c, "SetVerbosity")
SetVerbosityFails(c) == cfg[c].verbosity # "default" /\ Fail(c, "SetVerbosity", {})

\* An empty log format, and an empty sink path, make no raw call.
SetLogFormat(c) == Pass(c, "SetLogFormat")
SetLogFormatFails(c) == cfg[c].logFormat /\ Fail(c, "SetLogFormat", {})

SetLogSinkPath(c) == Pass(c, "LogSinkInstall")

\* The failure is in a variable err of the if statement: the one the deferred
\* function reads stays nil.
SetLogSinkPathFails(c) ==
    /\ cfg[c].logSink
    /\ pc[c] = "LogSinkInstall"
    /\ pc' = [pc EXCEPT ![c] = "fail"]
    /\ UNCHANGED <<live, fields, Rest>>

-----------------------------------------------------------------------------
(* Resources *)

NewFetcherSettings(c) == Create(c, "FetchersSettingsNew", "fetcherSettings", {"fetcherSettings"})
NewFetcherSettingsFails(c) == Fail(c, "FetchersSettingsNew", {})

NewFlakeSettings(c) == Create(c, "FlakeSettingsNew", "flakeSettings", {"flakeSettings"})
NewFlakeSettingsFails(c) == Fail(c, "FlakeSettingsNew", {})

\* store.New keeps the handle to itself until its metadata is read.
StoreOpen(c) == Create(c, "StoreOpen", "store", {})
StoreOpenFails(c) == Fail(c, "StoreOpen", {})

StoreRead(c, call) ==
    /\ call \in {"StoreGetUri", "StoreGetStoredir"}
    /\ Pass(c, call)

StoreReady(c) == Create(c, "StoreGetVersion", "store", {"store"})

MutantStoreReadFails(c, call) ==
    call \in {"StoreGetUri", "StoreGetStoredir", "StoreGetVersion"} /\ Fail(c, call, {})
StoreReadFails(c, call) ==
    /\ call \in {"StoreGetUri", "StoreGetStoredir", "StoreGetVersion"}
    /\ Fail(c, call, {"store"})

MutantBuilderNew(c) == Create(c, "EvalStateBuilderNew", "builder", {"builder"})
BuilderNew(c) == Create(c, "EvalStateBuilderNew", "builder", {})
BuilderNewFails(c) == Fail(c, "EvalStateBuilderNew", {})

ConfigureBuilder(c, call) ==
    /\ call \in {"SetLookupPath", "AddToEvalStateBuilder"}
    /\ Pass(c, call)

\* What the deferred EvalStateBuilderFree frees.
MutantDeferredFree == {}
DeferredFree == {"builder"}

\* EvalStateBuild, the deferred EvalStateBuilderFree, and NewClient's return.
EvalStateBuild(c) ==
    /\ pc[c] = "EvalStateBuild"
    /\ pc' = [pc EXCEPT ![c] = "return"]
    /\ live' = [live EXCEPT ![c] = (@ \cup {"evaluator"}) \ DeferredFree]
    /\ fields' = [fields EXCEPT ![c] = @ \cup {"evaluator"}]
    /\ outcome' = [outcome EXCEPT ![c] = "client"]
    /\ UNCHANGED <<nix, cfg, pending, err>>

\* The deferred EvalStateBuilderFree runs on every failure too.
EvalNewFails(c, call) ==
    /\ call \in {"SetLookupPath", "AddToEvalStateBuilder", "EvalStateBuild"}
    /\ Fail(c, call, DeferredFree)

\* NewClient's deferred function.  Close frees what the fields hold; the
\* fields of constructors that failed are nil.
Unwind(c) ==
    /\ pc[c] = "fail"
    /\ pc' = [pc EXCEPT ![c] = "return"]
    /\ live' = [live EXCEPT ![c] = IF err[c] THEN @ \ fields[c] ELSE @]
    /\ fields' = [fields EXCEPT ![c] = {}]
    /\ outcome' = [outcome EXCEPT ![c] = "error"]
    /\ UNCHANGED <<nix, cfg, pending, err>>

\* The caller closes a Client it got (closeLocked).
Close(c) ==
    /\ pc[c] = "return"
    /\ outcome[c] = "client"
    /\ pc' = [pc EXCEPT ![c] = "closed"]
    /\ live' = [live EXCEPT ![c] = @ \ fields[c]]
    /\ fields' = [fields EXCEPT ![c] = {}]
    /\ UNCHANGED Rest

Succeeds(c) ==
    \/ CreateContext(c)
    \/ \E call \in {"LibutilInit", "LibstoreInit"} : InitLibrary(c, call)
    \/ InitExpr(c)
    \/ SetSetting(c)
    \/ SettingsDone(c)
    \/ SetVerbosity(c)
    \/ SetLogFormat(c)
    \/ SetLogSinkPath(c)
    \/ NewFetcherSettings(c)
    \/ NewFlakeSettings(c)
    \/ StoreOpen(c)
    \/ \E call \in {"StoreGetUri", "StoreGetStoredir"} : StoreRead(c, call)
    \/ StoreReady(c)
    \/ BuilderNew(c)
    \/ \E call \in {"SetLookupPath", "AddToEvalStateBuilder"} : ConfigureBuilder(c, call)
    \/ EvalStateBuild(c)

Fails(c) ==
    \/ CreateContextFails(c)
    \/ \E call \in {"LibutilInit", "LibstoreInit", "LibexprInit"} : InitLibraryFails(c, call)
    \/ SetSettingFails(c)
    \/ SetVerbosityFails(c)
    \/ SetLogFormatFails(c)
    \/ SetLogSinkPathFails(c)
    \/ NewFetcherSettingsFails(c)
    \/ NewFlakeSettingsFails(c)
    \/ StoreOpenFails(c)
    \/ \E call \in {"StoreGetUri", "StoreGetStoredir", "StoreGetVersion"} : StoreReadFails(c, call)
    \/ BuilderNewFails(c)
    \/ \E call \in {"SetLookupPath", "AddToEvalStateBuilder", "EvalStateBuild"} : EvalNewFails(c, call)

Next == \E c \in Clients :
    \/ \E f \in Configs : Begin(c, f)
    \/ Succeeds(c)
    \/ Fails(c)
    \/ Unwind(c)
    \/ Close(c)

Spec == Init /\ [][Next]_vars

-----------------------------------------------------------------------------
(* Properties *)

\* A failed construction leaves no native object behind, whichever of its calls
\* failed, for every failure that the deferred function of NewClient sees.  It does
\* not see that of SetLogSinkPath, whose error an inner err hides: then, and only
\* then, the context remains.
SeenFailureLeavesNothing ==
    \A c \in Clients :
        outcome[c] = "error" => live[c] = {} \/ (cfg[c].logSink /\ ~err[c] /\ live[c] = {"ctx"})

\* A returned Client is complete, and its fields are the only native objects
\* its construction left: the state in which ClientMiddleware starts.  Once it
\* is closed nothing is left.
ClientOwnsItsParts ==
    \A c \in Clients :
        /\ pc[c] = "return" /\ outcome[c] = "client" => live[c] = Parts /\ fields[c] = Parts
        /\ pc[c] = "closed" => live[c] = {}

\* When NewClient returns its Client, every setting of the configuration is in
\* force in Nix, the gated ones too unless the configuration itself turned the
\* flakes feature off, and flakes can be used unless it did (ClientConfig{} "enables
\* nix-command and flakes").  Stated for a process with a single Client.
SettingsInForce ==
    \A c \in Clients : outcome[c] = "client" =>
        /\ \A k \in DOMAIN Serialize(cfg[c]) :
            \/ nix[k] = Serialize(cfg[c])[k]
            \/ k \in Gated /\ TurnsFlakesOff(cfg[c])
        /\ ~TurnsFlakesOff(cfg[c]) => EnablesFlakes(nix[Experimental])

=============================================================================
