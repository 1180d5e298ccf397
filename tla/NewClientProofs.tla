--------------------------- MODULE NewClientProofs ---------------------------
(***************************************************************************)
(* Proofs about NewClient for any set of Clients, any settings and any     *)
(* configurations.                                                         *)
(*                                                                         *)
(* Cleanup and ownership follow from the native objects and the fields     *)
(* that each step of a construction finds (Account).  That the settings    *)
(* are in force needs how far applyClientSettings has come (InForce), and  *)
(* holds for ever in a process with one Client only: Nix keeps settings    *)
(* per process.  The last part says what several Clients can count on.     *)
(***************************************************************************)
EXTENDS NewClient, FiniteSetTheorems, WellFoundedInduction, TLAPS

Stage(objects, owned) == [live |-> objects, fields |-> owned]

\* What a construction has created, and what its Client holds, when a call is due.
Due ==
    LET settings == {"ctx", "fetcherSettings", "flakeSettings"}
        opened == settings \cup {"store"}
        context == Stage({"ctx"}, {"ctx"})
        reading == Stage(opened, settings)
        building == Stage(opened \cup {"builder"}, opened)
    IN  [idle |-> Stage({}, {}), CContextCreate |-> Stage({}, {}),
         LibutilInit |-> Stage({"ctx"}, {}), LibstoreInit |-> Stage({"ctx"}, {}),
         LibexprInit |-> Stage({"ctx"}, {}),
         SetSetting |-> context, SetVerbosity |-> context, SetLogFormat |-> context,
         LogSinkInstall |-> context, FetchersSettingsNew |-> context,
         FlakeSettingsNew |-> Stage({"ctx", "fetcherSettings"}, {"ctx", "fetcherSettings"}),
         StoreOpen |-> Stage(settings, settings),
         StoreGetUri |-> reading, StoreGetStoredir |-> reading, StoreGetVersion |-> reading,
         EvalStateBuilderNew |-> Stage(opened, opened),
         SetLookupPath |-> building, AddToEvalStateBuilder |-> building,
         EvalStateBuild |-> building]

\* The failure of SetLogSinkPath, which the deferred function does not see.
Unseen(c) == cfg[c].logSink /\ ~err[c] /\ live[c] = {"ctx"}

AccountOf(c) ==
    /\ pc[c] \in DOMAIN Due =>
        /\ live[c] = Due[pc[c]].live /\ fields[c] = Due[pc[c]].fields
        /\ ~err[c] /\ outcome[c] = "none"
    /\ pc[c] = "fail" =>
        /\ (err[c] /\ live[c] = fields[c]) \/ Unseen(c)
        /\ outcome[c] = "none"
    /\ pc[c] = "return" =>
        \/ outcome[c] = "client" /\ live[c] = Parts /\ fields[c] = Parts
        \/ outcome[c] = "error" /\ (live[c] = {} \/ Unseen(c))
    /\ pc[c] = "closed" => outcome[c] = "client" /\ live[c] = {}

Account == \A c \in Clients : AccountOf(c)

\* What applyClientSettings has still to apply is of the configuration.
Configured ==
    /\ cfg \in [Clients -> ConfigType]
    /\ \A c \in Clients : pending[c] \subseteq DOMAIN Serialize(cfg[c])

ClientInv == TypeOK /\ Configured /\ Account

BeforeSettings == {"CContextCreate", "LibutilInit", "LibstoreInit", "LibexprInit"}

\* A setting the configuration gives has the value it gives, or Nix ignores it.
Given(c, k) ==
    \/ nix[k] = Serialize(cfg[c])[k]
    \/ k \in Gated /\ TurnsFlakesOff(cfg[c])

\* What applyClientSettings has applied so far: experimental-features first.
InForceOf(c) ==
    pc[c] \notin {"idle", "fail"} /\ outcome[c] # "error" =>
        /\ pc[c] \in BeforeSettings => pending[c] = DOMAIN Serialize(cfg[c])
        /\ pc[c] \notin BeforeSettings \cup {"SetSetting"} => pending[c] = {}
        /\ Experimental \in pending[c] => pending[c] = DOMAIN Serialize(cfg[c])
        /\ \A k \in DOMAIN Serialize(cfg[c]) \ pending[c] : Given(c, k)

InForce == \A c \in Clients : InForceOf(c)

-----------------------------------------------------------------------------
(* Settings and calls in order *)

\* A finite set of integers has a least element: the set with the fewest smaller
\* ones is minimal among the initial segments.
LEMMA MinOf ==
    ASSUME NEW S, S \subseteq Int, IsFiniteSet(S), S # {}
    PROVE  Min(S) \in S
<1> DEFINE Segment(x) == {y \in S : y <= x}
           Segments == {Segment(x) : x \in S}
<1>1. IsWellFoundedOn(StrictSubsetOrdering(S), SUBSET S)
    BY FS_StrictSubsetOrderingWellFounded, FS_FiniteSubsetsOfFinite
<1>2. Segments \subseteq SUBSET S /\ Segments # {}
    OBVIOUS
<1>3. PICK T \in Segments : \A U \in Segments : ~(<<U, T>> \in StrictSubsetOrdering(S))
    BY <1>1, <1>2, WFMin, Zenon
<1>4. PICK x \in S : T = Segment(x)
    OBVIOUS
<1>5. ASSUME NEW y \in S PROVE x <= y
  <2> SUFFICES ASSUME y < x PROVE FALSE
    BY <1>5
  <2>1. x \in Int /\ y \in Int
    OBVIOUS
  <2>2. ASSUME NEW z \in Segment(y) PROVE z \in Segment(x)
    <3>1. z \in S /\ z \in Int /\ z <= y
      BY <2>2
    <3>2. z <= x
      BY <2>1, <3>1
    <3> QED
      BY <3>1, <3>2
  <2>3. x \in Segment(x) /\ x \notin Segment(y)
    BY <2>1
  <2>4. Segment(y) \in Segments
    OBVIOUS
  <2> HIDE DEF Segment, Segments
  <2>5. <<Segment(y), T>> \in StrictSubsetOrdering(S)
    BY <1>2, <1>4, <2>2, <2>3, <2>4 DEF StrictSubsetOrdering
  <2> QED
    BY <1>3, <2>4, <2>5
<1> QED
    BY <1>5 DEF Min

\* The setting applied next is one that is pending.
LEMMA NextSettingPending ==
    ASSUME TypeOK, NEW c \in Clients, pending[c] # {}
    PROVE  NextSetting(c) \in pending[c] /\ NextSetting(c) \in Keys
<1>1. pending[c] \subseteq Keys
    BY DEF TypeOK
<1>2. pending[c] \subseteq Int /\ IsFiniteSet(pending[c])
    BY <1>1, KeysAssumption, FS_Subset
<1>3. Min(pending[c]) \in pending[c]
    BY <1>2, MinOf
<1> QED
    BY <1>1, <1>3 DEF NextSetting

\* The calls in their order.
LEMMA NextCall ==
    /\ After("CContextCreate") = "LibutilInit"
    /\ After("LibutilInit") = "LibstoreInit"
    /\ After("LibstoreInit") = "LibexprInit"
    /\ After("LibexprInit") = "SetSetting"
    /\ After("SetSetting") = "SetVerbosity"
    /\ After("SetVerbosity") = "SetLogFormat"
    /\ After("SetLogFormat") = "LogSinkInstall"
    /\ After("LogSinkInstall") = "FetchersSettingsNew"
    /\ After("FetchersSettingsNew") = "FlakeSettingsNew"
    /\ After("FlakeSettingsNew") = "StoreOpen"
    /\ After("StoreOpen") = "StoreGetUri"
    /\ After("StoreGetUri") = "StoreGetStoredir"
    /\ After("StoreGetStoredir") = "StoreGetVersion"
    /\ After("StoreGetVersion") = "EvalStateBuilderNew"
    /\ After("EvalStateBuilderNew") = "SetLookupPath"
    /\ After("SetLookupPath") = "AddToEvalStateBuilder"
    /\ After("AddToEvalStateBuilder") = "EvalStateBuild"
<1>1. DOMAIN Calls = 1..19
    BY DEF Calls
<1>2. \A i, j \in 1..19 : Calls[i] = Calls[j] => i = j
    BY DEF Calls
<1>3. ASSUME NEW i \in 1..18
      PROVE  After(Calls[i]) = Calls[i + 1]
  <2>1. (CHOOSE j \in DOMAIN Calls : Calls[j] = Calls[i]) = i
    BY <1>1, <1>2
  <2>2. 1 + i = i + 1
    OBVIOUS
  <2> QED
    BY <2>1, <2>2, Zenon DEF After
<1> QED
    BY <1>3 DEF Calls

\* Where a construction can be.
LEMMA Places ==
    /\ {Calls[i] : i \in DOMAIN Calls} \cup {"idle", "fail", "closed"}
           = DOMAIN Due \cup {"return", "fail", "closed"}
    /\ DOMAIN Due \cap {"return", "fail", "closed"} = {}
    /\ "idle" \in DOMAIN Due
<1>1. DOMAIN Due \cap {"return", "fail", "closed"} = {} /\ "idle" \in DOMAIN Due
    BY DEF Due
<1>2. {Calls[i] : i \in DOMAIN Calls} \cup {"idle", "fail", "closed"}
           = DOMAIN Due \cup {"return", "fail", "closed"}
    BY DEF Calls, Due
<1> QED
    BY <1>1, <1>2

-----------------------------------------------------------------------------
(* The account of the native objects *)

\* A construction touches its own objects and fields: the account of the others
\* stays.
LEMMA OthersKept ==
    ASSUME Account, NEW c \in Clients, AccountOf(c)',
           \A d \in Clients \ {c} :
               /\ pc'[d] = pc[d] /\ cfg'[d] = cfg[d] /\ live'[d] = live[d]
               /\ fields'[d] = fields[d] /\ err'[d] = err[d] /\ outcome'[d] = outcome[d]
    PROVE  Account'
<1> SUFFICES ASSUME NEW d \in Clients, d # c PROVE AccountOf(d)'
    BY DEF Account
<1>1. AccountOf(d)
    BY DEF Account
<1> QED
    BY <1>1 DEF AccountOf, Unseen

\* A call that creates a native object leads to the objects and the fields that the
\* next call finds.
LEMMA CreateStep ==
    ASSUME ClientInv, NEW c \in Clients, NEW call \in DOMAIN Due,
           NEW obj \in Parts \cup {"builder"}, NEW owned \in SUBSET Parts,
           Create(c, call, obj, owned), After(call) \in DOMAIN Due \ {"idle"},
           call # "idle",
           Due[After(call)].live = Due[call].live \cup {obj},
           Due[After(call)].fields = Due[call].fields \cup owned
    PROVE  ClientInv'
<1>1. TypeOK' /\ Configured'
    BY Places DEF ClientInv, TypeOK, Configured, Create, Rest
<1>2. AccountOf(c)'
    BY Places DEF ClientInv, TypeOK, Account, AccountOf, Create, Rest
<1>3. Account'
    BY <1>2, OthersKept DEF ClientInv, TypeOK, Create, Rest
<1> QED
    BY <1>1, <1>3 DEF ClientInv

\* A call that creates nothing leads to a call that finds the same.
LEMMA PassStep ==
    ASSUME ClientInv, NEW c \in Clients, NEW call \in DOMAIN Due,
           Pass(c, call), After(call) \in DOMAIN Due \ {"idle"}, call # "idle",
           Due[After(call)] = Due[call]
    PROVE  ClientInv'
<1>1. TypeOK' /\ Configured'
    BY Places DEF ClientInv, TypeOK, Configured, Pass, Rest
<1>2. AccountOf(c)'
    BY Places DEF ClientInv, TypeOK, Account, AccountOf, Pass, Rest
<1>3. Account'
    BY <1>2, OthersKept DEF ClientInv, TypeOK, Pass, Rest
<1> QED
    BY <1>1, <1>3 DEF ClientInv

\* A failure that the function releases what the Client does not hold before it
\* returns leaves to the deferred function exactly what the Client holds.
LEMMA FailStep ==
    ASSUME ClientInv, NEW c \in Clients, NEW call \in DOMAIN Due, NEW released,
           Fail(c, call, released), call # "idle",
           Due[call].live \ released = Due[call].fields
    PROVE  ClientInv'
<1>1. TypeOK' /\ Configured'
    BY Places DEF ClientInv, TypeOK, Configured, Fail
<1>2. AccountOf(c)'
    BY Places DEF ClientInv, TypeOK, Account, AccountOf, Fail
<1>3. Account'
    BY <1>2, OthersKept DEF ClientInv, TypeOK, Fail
<1> QED
    BY <1>1, <1>3 DEF ClientInv

\* nixcontext.New closes its context itself when it fails.
LEMMA NoContextStep ==
    ASSUME ClientInv, NEW c \in Clients, NEW call \in DOMAIN Due, NoContext(c, call),
           call # "idle"
    PROVE  ClientInv'
<1>1. TypeOK' /\ Configured'
    BY Places DEF ClientInv, TypeOK, Configured, NoContext
<1>2. AccountOf(c)'
    BY Places DEF ClientInv, TypeOK, Account, AccountOf, NoContext
<1>3. Account'
    BY <1>2, OthersKept DEF ClientInv, TypeOK, NoContext
<1> QED
    BY <1>1, <1>3 DEF ClientInv

\* The settings a configuration gives are settings of Nix, experimental-features
\* among them; its value leaves flakes out exactly when the configuration does.
LEMMA Serialized ==
    ASSUME NEW f \in ConfigType
    PROVE  /\ DOMAIN Serialize(f) \subseteq Keys
           /\ Experimental \in DOMAIN Serialize(f)
           /\ \A k \in DOMAIN Serialize(f) : Serialize(f)[k] \in Values
           /\ ~TurnsFlakesOff(f) => EnablesFlakes(Serialize(f)[Experimental])
<1> DEFINE V(k) ==
        CASE k = Experimental /\ TurnsFlakesOff(f) -> "withoutFlakes"
          [] k \in f.raw   -> "raw"
          [] k \in f.typed -> "typed"
          [] OTHER         -> "default"
<1>1. DOMAIN Serialize(f) = f.typed \cup f.raw \cup {Experimental}
    BY Zenon DEF Serialize
<1>2. f.typed \cup f.raw \cup {Experimental} \subseteq Keys
    BY ExperimentalAssumption DEF ConfigType
<1>3. \A k \in DOMAIN Serialize(f) : Serialize(f)[k] = <<V(k), f>>
    BY <1>1, Zenon DEF Serialize
<1>4. ASSUME NEW k
      PROVE  /\ V(k) \in {"withoutFlakes", "raw", "typed", "default"}
             /\ ~TurnsFlakesOff(f) => V(k) # "withoutFlakes"
  <2>1. CASE k = Experimental /\ TurnsFlakesOff(f)
    BY <2>1
  <2>2. CASE ~(k = Experimental /\ TurnsFlakesOff(f)) /\ k \in f.raw
    BY <2>2
  <2>3. CASE ~(k = Experimental /\ TurnsFlakesOff(f)) /\ k \notin f.raw /\ k \in f.typed
    BY <2>3
  <2>4. CASE ~(k = Experimental /\ TurnsFlakesOff(f)) /\ k \notin f.raw /\ k \notin f.typed
    BY <2>4
  <2> QED
    BY <2>1, <2>2, <2>3, <2>4
<1> HIDE DEF V
<1> QED
    BY <1>1, <1>2, <1>3, <1>4 DEF Values, EnablesFlakes

\* The settings are applied, and the flow of the calls after them, on one construction.
LEMMA SettingStep ==
    ASSUME ClientInv, NEW c \in Clients, SetSetting(c)
    PROVE  ClientInv'
<1>1. NextSetting(c) \in pending[c] /\ NextSetting(c) \in Keys
    BY NextSettingPending DEF ClientInv, SetSetting
<1> DEFINE k == NextSetting(c)
           v == Serialize(cfg[c])[k]
<1> HIDE DEF k, v
<1>2. pending' = [pending EXCEPT ![c] = @ \ {k}] /\ nix' = SettingSet(k, v)
    BY DEF SetSetting, k, v
<1>3. v \in Values
    BY <1>1, Serialized DEF ClientInv, Configured, k, v
<1>4. TypeOK'
    BY <1>1, <1>2, <1>3 DEF ClientInv, TypeOK, SetSetting, SettingSet, k
<1>5. Configured'
    BY <1>2 DEF ClientInv, TypeOK, Configured, SetSetting
<1>6. Account'
    BY DEF ClientInv, Account, AccountOf, Unseen, SetSetting
<1> QED
    BY <1>4, <1>5, <1>6 DEF ClientInv

\* NewClient starts on its configuration.
LEMMA BeginStep ==
    ASSUME ClientInv, NEW c \in Clients, NEW f \in Configs, Begin(c, f)
    PROVE  ClientInv'
<1>1. f \in ConfigType /\ DOMAIN Serialize(f) \subseteq Keys
    BY ConfigsAssumption, Serialized
<1>2. TypeOK'
    BY <1>1, Places DEF ClientInv, TypeOK, Configured, Begin, Calls
<1>3. Configured'
    BY <1>1 DEF ClientInv, TypeOK, Configured, Begin
<1>4. AccountOf(c)'
    BY Places DEF ClientInv, TypeOK, Account, AccountOf, Begin, Due
<1>5. Account'
    BY <1>4, OthersKept DEF ClientInv, TypeOK, Configured, Begin
<1> QED
    BY <1>2, <1>3, <1>5 DEF ClientInv

\* The failure of SetLogSinkPath, the return of the Client, the deferred function and
\* Close, which end a construction.
LEMMA EndStep ==
    ASSUME ClientInv, NEW c \in Clients,
           SetLogSinkPathFails(c) \/ EvalStateBuild(c) \/ Unwind(c) \/ Close(c)
    PROVE  ClientInv'
<1>1. ~(pc[c] = "idle")
    BY DEF SetLogSinkPathFails, EvalStateBuild, Unwind, Close
<1>2. pc' \in [Clients -> DOMAIN Due \cup {"return", "fail", "closed"}]
    BY Places DEF ClientInv, TypeOK, SetLogSinkPathFails, EvalStateBuild, Unwind, Close
<1>3. TypeOK'
  <2>1. /\ live' \in [Clients -> SUBSET (Parts \cup {"builder"})]
        /\ fields' \in [Clients -> SUBSET Parts]
        /\ outcome' \in [Clients -> {"none", "client", "error"}]
    BY DEF ClientInv, TypeOK, Parts, SetLogSinkPathFails, EvalStateBuild, Unwind, Close, Rest
  <2>2. \A d \in Clients : pc'[d] # "idle" => pc[d] # "idle"
    BY <1>1 DEF ClientInv, TypeOK, SetLogSinkPathFails, EvalStateBuild, Unwind, Close
  <2> QED
    BY <1>2, <2>1, <2>2, Places
    DEF ClientInv, TypeOK, SetLogSinkPathFails, EvalStateBuild, Unwind, Close, Rest
<1>4. Configured'
    BY DEF ClientInv, Configured, SetLogSinkPathFails, EvalStateBuild, Unwind, Close, Rest
<1>5. AccountOf(c)'
  <2>1. AccountOf(c)
    BY DEF ClientInv, Account
  <2>2. CASE SetLogSinkPathFails(c)
    BY <2>1, <2>2 DEF ClientInv, TypeOK, AccountOf, Unseen, SetLogSinkPathFails, Rest, Due, Stage
  <2>3. CASE EvalStateBuild(c)
    BY <2>1, <2>3
    DEF ClientInv, TypeOK, AccountOf, EvalStateBuild, DeferredFree, Due, Stage, Parts
  <2>4. CASE Unwind(c)
    BY <2>1, <2>4, Places DEF ClientInv, TypeOK, AccountOf, Unseen, Unwind
  <2>5. CASE Close(c)
    BY <2>1, <2>5, Places DEF ClientInv, TypeOK, AccountOf, Close, Rest
  <2> QED
    BY <2>2, <2>3, <2>4, <2>5
<1>6. Account'
    BY <1>5, OthersKept
    DEF ClientInv, TypeOK, SetLogSinkPathFails, EvalStateBuild, Unwind, Close, Rest
<1> QED
    BY <1>3, <1>4, <1>6 DEF ClientInv

\* The calls that create nothing lie between calls that find the same.
LEMMA SameStage ==
    /\ Due["LibutilInit"] = Due["LibstoreInit"] /\ Due["LibstoreInit"] = Due["LibexprInit"]
    /\ Due["SetSetting"] = Due["SetVerbosity"] /\ Due["SetVerbosity"] = Due["SetLogFormat"]
    /\ Due["SetLogFormat"] = Due["LogSinkInstall"]
    /\ Due["LogSinkInstall"] = Due["FetchersSettingsNew"]
    /\ Due["StoreGetUri"] = Due["StoreGetStoredir"]
    /\ Due["StoreGetStoredir"] = Due["StoreGetVersion"]
    /\ Due["SetLookupPath"] = Due["AddToEvalStateBuilder"]
    /\ Due["AddToEvalStateBuilder"] = Due["EvalStateBuild"]
BY DEF Due, Stage

\* A call of a construction that succeeds.
LEMMA SucceedsStep ==
    ASSUME ClientInv, NEW c \in Clients, Succeeds(c)
    PROVE  ClientInv'
<1> USE NextCall DEF Due, Stage, Parts
<1>1. CASE CreateContext(c)
    BY <1>1, CreateStep DEF CreateContext
<1>2. ASSUME NEW call \in {"LibutilInit", "LibstoreInit"}, InitLibrary(c, call)
      PROVE  ClientInv'
  <2>1. call \in DOMAIN Due /\ After(call) \in DOMAIN Due \ {"idle"}
    BY <1>2
  <2> HIDE DEF Due
  <2>2. Due[After(call)] = Due[call]
    BY <1>2, SameStage
  <2> QED
    BY <1>2, <2>1, <2>2, PassStep DEF InitLibrary
<1>3. CASE InitExpr(c)
    BY <1>3, CreateStep DEF InitExpr
<1>4. CASE SetSetting(c)
    BY <1>4, SettingStep
<1>5. CASE SettingsDone(c)
    BY <1>5, PassStep, SameStage DEF SettingsDone
<1>6. CASE SetVerbosity(c)
    BY <1>6, PassStep, SameStage DEF SetVerbosity
<1>7. CASE SetLogFormat(c)
    BY <1>7, PassStep, SameStage DEF SetLogFormat
<1>8. CASE SetLogSinkPath(c)
    BY <1>8, PassStep, SameStage DEF SetLogSinkPath
<1>9. CASE NewFetcherSettings(c)
    BY <1>9, CreateStep DEF NewFetcherSettings
<1>10. CASE NewFlakeSettings(c)
    BY <1>10, CreateStep DEF NewFlakeSettings
<1>11. CASE StoreOpen(c)
    BY <1>11, CreateStep DEF StoreOpen
<1>12. ASSUME NEW call \in {"StoreGetUri", "StoreGetStoredir"}, StoreRead(c, call)
       PROVE  ClientInv'
  <2>1. call \in DOMAIN Due /\ After(call) \in DOMAIN Due \ {"idle"}
    BY <1>12
  <2> HIDE DEF Due
  <2>2. Due[After(call)] = Due[call]
    BY <1>12, SameStage
  <2> QED
    BY <1>12, <2>1, <2>2, PassStep DEF StoreRead
<1>13. CASE StoreReady(c)
    BY <1>13, CreateStep DEF StoreReady
<1>14. CASE BuilderNew(c)
    BY <1>14, CreateStep DEF BuilderNew
<1>15. ASSUME NEW call \in {"SetLookupPath", "AddToEvalStateBuilder"}, ConfigureBuilder(c, call)
       PROVE  ClientInv'
  <2>1. call \in DOMAIN Due /\ After(call) \in DOMAIN Due \ {"idle"}
    BY <1>15
  <2> HIDE DEF Due
  <2>2. Due[After(call)] = Due[call]
    BY <1>15, SameStage
  <2> QED
    BY <1>15, <2>1, <2>2, PassStep DEF ConfigureBuilder
<1>16. CASE EvalStateBuild(c)
    BY <1>16, EndStep
<1> QED
    BY <1>1, <1>2, <1>3, <1>4, <1>5, <1>6, <1>7, <1>8, <1>9, <1>10, <1>11, <1>12, <1>13,
       <1>14, <1>15, <1>16 DEF Succeeds

\* A call of a construction that fails.
LEMMA FailsStep ==
    ASSUME ClientInv, NEW c \in Clients, Fails(c)
    PROVE  ClientInv'
<1> USE DEF Due, Stage
<1>1. CASE CreateContextFails(c)
    BY <1>1, NoContextStep DEF CreateContextFails
<1>2. ASSUME NEW call \in {"LibutilInit", "LibstoreInit", "LibexprInit"},
             InitLibraryFails(c, call)
      PROVE  ClientInv'
    BY <1>2, NoContextStep DEF InitLibraryFails
<1>3. CASE SetSettingFails(c)
    BY <1>3, FailStep DEF SetSettingFails
<1>4. CASE SetVerbosityFails(c)
    BY <1>4, FailStep DEF SetVerbosityFails
<1>5. CASE SetLogFormatFails(c)
    BY <1>5, FailStep DEF SetLogFormatFails
<1>6. CASE SetLogSinkPathFails(c)
    BY <1>6, EndStep
<1>7. CASE NewFetcherSettingsFails(c)
    BY <1>7, FailStep DEF NewFetcherSettingsFails
<1>8. CASE NewFlakeSettingsFails(c)
    BY <1>8, FailStep DEF NewFlakeSettingsFails
<1>9. CASE StoreOpenFails(c)
    BY <1>9, FailStep DEF StoreOpenFails
<1>10. ASSUME NEW call \in {"StoreGetUri", "StoreGetStoredir", "StoreGetVersion"},
              StoreReadFails(c, call)
       PROVE  ClientInv'
    BY <1>10, FailStep DEF StoreReadFails
<1>11. CASE BuilderNewFails(c)
    BY <1>11, FailStep DEF BuilderNewFails
<1>12. ASSUME NEW call \in {"SetLookupPath", "AddToEvalStateBuilder", "EvalStateBuild"},
              EvalNewFails(c, call)
       PROVE  ClientInv'
    BY <1>12, FailStep DEF EvalNewFails, DeferredFree
<1> QED
    BY <1>1, <1>2, <1>3, <1>4, <1>5, <1>6, <1>7, <1>8, <1>9, <1>10, <1>11, <1>12 DEF Fails

\* A construction starts with nothing.
LEMMA ClientInvInit == Init => ClientInv
<1> SUFFICES ASSUME Init PROVE ClientInv
    OBVIOUS
<1>1. TypeOK
    BY ExperimentalAssumption DEF Init, TypeOK, Values, NoConfig, ConfigType
<1>2. Configured
    BY DEF Init, Configured, NoConfig, ConfigType
<1>3. Account
    BY Places DEF Init, Account, AccountOf, Due, Stage
<1> QED
    BY <1>1, <1>2, <1>3 DEF ClientInv

\* Every step of every construction keeps the account.
LEMMA ClientInvStep == ClientInv /\ [Next]_vars => ClientInv'
<1> SUFFICES ASSUME ClientInv, [Next]_vars PROVE ClientInv'
    OBVIOUS
<1>1. CASE UNCHANGED vars
    BY <1>1 DEF ClientInv, TypeOK, Configured, Account, AccountOf, Unseen, vars
<1>2. ASSUME NEW c \in Clients, NEW f \in Configs, Begin(c, f) PROVE ClientInv'
    BY <1>2, BeginStep
<1>3. ASSUME NEW c \in Clients, Succeeds(c) PROVE ClientInv'
    BY <1>3, SucceedsStep
<1>4. ASSUME NEW c \in Clients, Fails(c) PROVE ClientInv'
    BY <1>4, FailsStep
<1>5. ASSUME NEW c \in Clients, Unwind(c) \/ Close(c) PROVE ClientInv'
    BY <1>5, EndStep
<1> QED
    BY <1>1, <1>2, <1>3, <1>4, <1>5 DEF Next

\* The inductive invariant: every construction holds exactly what its next call finds.
THEOREM ConstructionAccounted == Spec => []ClientInv
BY ClientInvInit, ClientInvStep, PTL DEF Spec

\* Type correctness of NewClient's model.
THEOREM TypeCorrect == Spec => []TypeOK
<1>1. ClientInv => TypeOK
    BY DEF ClientInv
<1> QED
    BY <1>1, ConstructionAccounted, PTL

\* A failed NewClient leaves no native object behind, unless the failure is that of
\* SetLogSinkPath, which the deferred function does not see: then the context remains.
THEOREM FailureLeavesNothing == Spec => []SeenFailureLeavesNothing
<1>1. ClientInv => SeenFailureLeavesNothing
    BY Places DEF ClientInv, TypeOK, Account, AccountOf, Unseen, SeenFailureLeavesNothing
<1> QED
    BY <1>1, ConstructionAccounted, PTL

\* A returned Client holds all its parts and nothing else was left; a closed one holds
\* nothing.
THEOREM ClientComplete == Spec => []ClientOwnsItsParts
<1>1. ClientInv => ClientOwnsItsParts
    BY Places DEF ClientInv, TypeOK, Account, AccountOf, ClientOwnsItsParts
<1> QED
    BY <1>1, ConstructionAccounted, PTL

-----------------------------------------------------------------------------
(* The settings in force *)

\* A step that leaves the settings alone, and lets its construction past
\* applyClientSettings only when nothing is pending, keeps them in force.
LEMMA Onward ==
    ASSUME NEW c \in Clients, InForceOf(c), UNCHANGED <<nix, cfg, pending>>,
           \/ pc'[c] \in {"idle", "fail"}
           \/ outcome'[c] = "error"
           \/ /\ pc[c] \notin {"idle", "fail"} /\ outcome[c] # "error"
              /\ pc'[c] \in BeforeSettings => pc[c] \in BeforeSettings
              /\ \/ pc'[c] \in BeforeSettings \cup {"SetSetting"}
                 \/ pc[c] \notin BeforeSettings \cup {"SetSetting"}
                 \/ pending[c] = {}
    PROVE  InForceOf(c)'
<1>1. Serialize(cfg[c])' = Serialize(cfg[c])
    BY DEF Serialize, TurnsFlakesOff
<1>2. \A k : Given(c, k)' <=> Given(c, k)
    BY <1>1 DEF Given, TurnsFlakesOff
<1> QED
    BY <1>1, <1>2 DEF InForceOf

\* NewClient has applied nothing when it starts.
LEMMA BeginInForce ==
    ASSUME ClientInv, NEW c \in Clients, NEW f \in Configs, Begin(c, f)
    PROVE  InForceOf(c)'
<1>1. cfg'[c] = f /\ pending'[c] = DOMAIN Serialize(f) /\ pc'[c] = "CContextCreate"
    BY DEF ClientInv, TypeOK, Configured, Begin
<1>2. Serialize(cfg[c])' = Serialize(f)
    BY <1>1 DEF Serialize, TurnsFlakesOff
<1> QED
    BY <1>1, <1>2 DEF InForceOf, BeforeSettings

\* The setting applied has the value of the configuration, or is one that Nix ignores
\* because the configuration turned flakes off: experimental-features was applied
\* before any other.
LEMMA SettingInForce ==
    ASSUME ClientInv, NEW c \in Clients, InForceOf(c), SetSetting(c)
    PROVE  InForceOf(c)'
<1> DEFINE k == NextSetting(c)
           f == cfg[c]
           v == Serialize(f)[k]
<1>1. k \in pending[c] /\ k \in Keys
    BY NextSettingPending DEF ClientInv, SetSetting
<1>2. Experimental \in pending[c] => k = Experimental
    BY DEF NextSetting
<1>3. /\ f \in ConfigType /\ pending[c] \subseteq DOMAIN Serialize(f)
      /\ outcome[c] = "none" /\ pc[c] = "SetSetting" /\ nix \in [Keys -> Values]
    BY DEF ClientInv, TypeOK, Configured, Account, AccountOf, SetSetting, Due
<1>4. pending'[c] = pending[c] \ {k} /\ pc' = pc /\ cfg' = cfg /\ outcome' = outcome
    BY DEF ClientInv, TypeOK, SetSetting
<1>5. nix' = SettingSet(k, v)
    BY DEF SetSetting
<1>6. Serialize(cfg[c])' = Serialize(f)
    BY <1>4 DEF Serialize, TurnsFlakesOff
<1>7. Experimental \notin pending'[c]
    BY <1>2, <1>4
<1>8. \A j \in DOMAIN Serialize(f) \ pending[c] : Given(c, j)
    BY <1>3 DEF InForceOf, BeforeSettings
<1> HIDE DEF k, v, f
<1>9. ASSUME NEW j \in DOMAIN Serialize(f) \ pending'[c] PROVE Given(c, j)'
  <2>1. CASE j # k
    <3>1. Given(c, j) /\ j \in Keys
      BY <1>3, <1>4, <1>8, <2>1, Serialized
    <3>2. nix'[j] = nix[j]
      BY <1>3, <1>5, <2>1 DEF SettingSet
    <3> QED
      BY <1>4, <1>6, <3>1, <3>2 DEF Given, TurnsFlakesOff, f
  <2>2. CASE j = k /\ ~(k \in Gated /\ ~EnablesFlakes(nix[Experimental]))
    <3>1. nix'[k] = v
      BY <1>1, <1>3, <1>5, <2>2 DEF SettingSet
    <3> QED
      BY <1>6, <2>2, <3>1 DEF Given, v, f
  <2>3. CASE j = k /\ k \in Gated /\ ~EnablesFlakes(nix[Experimental])
    <3>1. k # Experimental /\ Experimental \notin Gated
      BY <2>3, ExperimentalAssumption
    <3>2. Given(c, Experimental)
      BY <1>2, <1>3, <1>8, <3>1, Serialized
    <3>3. TurnsFlakesOff(f)
      BY <1>3, <2>3, <3>1, <3>2, Serialized DEF Given, f
    <3> QED
      BY <1>4, <2>3, <3>3 DEF Given, TurnsFlakesOff, f
  <2> QED
    BY <2>1, <2>2, <2>3
<1> QED
    BY <1>3, <1>4, <1>6, <1>7, <1>9 DEF InForceOf, BeforeSettings

\* A call other than SettingSet leaves the settings alone, and follows the last
\* of them.
LEMMA SucceedsInForce ==
    ASSUME ClientInv, NEW c \in Clients, InForceOf(c), Succeeds(c)
    PROVE  InForceOf(c)'
<1> USE NextCall DEF BeforeSettings
<1>1. AccountOf(c) /\ pc \in [Clients -> DOMAIN Due \cup {"return", "fail", "closed"}]
    BY Places DEF ClientInv, TypeOK, Account
<1>2. ASSUME NEW call \in DOMAIN Due \ {"idle"}, NEW obj, NEW owned,
             Create(c, call, obj, owned) \/ Pass(c, call), After(call) # "return",
             call = "SetSetting" => pending[c] = {},
             After(call) \in BeforeSettings => call \in BeforeSettings,
             \/ After(call) \in BeforeSettings \cup {"SetSetting"}
             \/ call \notin BeforeSettings
      PROVE  InForceOf(c)'
  <2>1. /\ pc[c] = call /\ pc'[c] = After(call) /\ UNCHANGED <<nix, cfg, pending, outcome>>
        /\ outcome[c] = "none" /\ call \notin {"idle", "fail"}
    BY <1>1, <1>2, Places DEF Create, Pass, Rest, AccountOf
  <2> QED
    BY <1>2, <2>1, Onward
<1> USE DEF Due
<1>3. CASE CreateContext(c) \/ InitExpr(c)
    BY <1>2, <1>3 DEF CreateContext, InitExpr
<1>4. ASSUME NEW call \in {"LibutilInit", "LibstoreInit"}, InitLibrary(c, call)
      PROVE  InForceOf(c)'
    BY <1>2, <1>4 DEF InitLibrary
<1>5. CASE SetSetting(c)
    BY <1>5, SettingInForce
<1>6. CASE SettingsDone(c)
    BY <1>2, <1>6 DEF SettingsDone
<1>7. CASE SetVerbosity(c) \/ SetLogFormat(c) \/ SetLogSinkPath(c)
    BY <1>2, <1>7 DEF SetVerbosity, SetLogFormat, SetLogSinkPath
<1>8. CASE NewFetcherSettings(c) \/ NewFlakeSettings(c)
    BY <1>2, <1>8 DEF NewFetcherSettings, NewFlakeSettings
<1>9. CASE StoreOpen(c) \/ StoreReady(c)
    BY <1>2, <1>9 DEF StoreOpen, StoreReady
<1>10. ASSUME NEW call \in {"StoreGetUri", "StoreGetStoredir"}, StoreRead(c, call)
       PROVE  InForceOf(c)'
    BY <1>2, <1>10 DEF StoreRead
<1>11. CASE BuilderNew(c)
    BY <1>2, <1>11 DEF BuilderNew
<1>12. ASSUME NEW call \in {"SetLookupPath", "AddToEvalStateBuilder"}, ConfigureBuilder(c, call)
       PROVE  InForceOf(c)'
    BY <1>2, <1>12 DEF ConfigureBuilder
<1>13. CASE EvalStateBuild(c)
  <2>1. /\ pc[c] = "EvalStateBuild" /\ pc'[c] = "return" /\ UNCHANGED <<nix, cfg, pending>>
        /\ outcome[c] = "none"
    BY <1>1, <1>13 DEF EvalStateBuild, AccountOf
  <2> QED
    BY <2>1, Onward
<1> QED
    BY <1>3, <1>4, <1>5, <1>6, <1>7, <1>8, <1>9, <1>10, <1>11, <1>12, <1>13 DEF Succeeds

\* A failure ends the construction without a Client.
LEMMA FailsInForce ==
    ASSUME ClientInv, NEW c \in Clients, InForceOf(c), Fails(c)
    PROVE  InForceOf(c)'
<1>1. pc'[c] = "fail" \/ outcome'[c] = "error"
    BY DEF ClientInv, TypeOK, Fails, Fail, NoContext, CreateContextFails, InitLibraryFails,
        SetSettingFails, SetVerbosityFails, SetLogFormatFails, SetLogSinkPathFails,
        NewFetcherSettingsFails, NewFlakeSettingsFails, StoreOpenFails, StoreReadFails,
        BuilderNewFails, EvalNewFails
<1>2. UNCHANGED <<nix, cfg, pending>>
    BY DEF Fails, Fail, NoContext, CreateContextFails, InitLibraryFails,
        SetSettingFails, SetVerbosityFails, SetLogFormatFails, SetLogSinkPathFails,
        NewFetcherSettingsFails, NewFlakeSettingsFails, StoreOpenFails, StoreReadFails,
        BuilderNewFails, EvalNewFails, Rest
<1> QED
    BY <1>1, <1>2, Onward

\* So do the deferred function, and Close after the Client was returned.
LEMMA EndInForce ==
    ASSUME ClientInv, NEW c \in Clients, InForceOf(c), Unwind(c) \/ Close(c)
    PROVE  InForceOf(c)'
<1>1. UNCHANGED <<nix, cfg, pending>>
    BY DEF Unwind, Close, Rest
<1>2. \/ outcome'[c] = "error"
      \/ pc[c] = "return" /\ pc'[c] = "closed" /\ outcome[c] = "client"
    BY DEF ClientInv, TypeOK, Unwind, Close
<1> QED
    BY <1>1, <1>2, Onward DEF BeforeSettings

\* With one Client in the process, every step keeps what was applied in force.
LEMMA InForceStep ==
    ASSUME \A c, d \in Clients : c = d
    PROVE  ClientInv /\ InForce /\ [Next]_vars => InForce'
<1> SUFFICES ASSUME ClientInv, InForce, [Next]_vars PROVE InForce'
    OBVIOUS
<1>1. \A c \in Clients : InForceOf(c)
    BY DEF InForce
<1>2. ASSUME NEW c \in Clients, InForceOf(c)' PROVE InForce'
    BY <1>2 DEF InForce
<1>3. CASE UNCHANGED vars
  <2> SUFFICES ASSUME NEW c \in Clients PROVE InForceOf(c)'
    BY DEF InForce
  <2>1. InForceOf(c)
    BY <1>1
  <2> QED
    BY <1>3, <2>1 DEF vars, InForceOf, Given, Serialize, TurnsFlakesOff
<1>4. ASSUME NEW c \in Clients, NEW f \in Configs, Begin(c, f) PROVE InForce'
    BY <1>2, <1>4, BeginInForce
<1>5. ASSUME NEW c \in Clients, Succeeds(c) PROVE InForce'
    BY <1>1, <1>2, <1>5, SucceedsInForce
<1>6. ASSUME NEW c \in Clients, Fails(c) PROVE InForce'
    BY <1>1, <1>2, <1>6, FailsInForce
<1>7. ASSUME NEW c \in Clients, Unwind(c) \/ Close(c) PROVE InForce'
    BY <1>1, <1>2, <1>7, EndInForce
<1> QED
    BY <1>3, <1>4, <1>5, <1>6, <1>7 DEF Next

\* In a process with one Client, the Client that NewClient returns has every setting of
\* its configuration in force, and flakes unless the configuration left them out.
THEOREM SingleClientSettings ==
    ASSUME \A c, d \in Clients : c = d
    PROVE  Spec => []SettingsInForce
<1>1. Init => InForce
    BY DEF Init, InForce, InForceOf
<1>2. ClientInv /\ InForce => SettingsInForce
  <2> SUFFICES ASSUME ClientInv, InForce, NEW c \in Clients, outcome[c] = "client"
               PROVE  /\ \A k \in DOMAIN Serialize(cfg[c]) : Given(c, k)
                      /\ ~TurnsFlakesOff(cfg[c]) => EnablesFlakes(nix[Experimental])
    BY DEF SettingsInForce, Given
  <2>1. pc[c] \in {"return", "closed"}
    BY Places DEF ClientInv, TypeOK, Account, AccountOf
  <2>2. \A k \in DOMAIN Serialize(cfg[c]) : Given(c, k)
    BY <2>1 DEF InForce, InForceOf, BeforeSettings
  <2>3. cfg[c] \in ConfigType
    BY DEF ClientInv, Configured
  <2> QED
    BY <2>2, <2>3, Serialized, ExperimentalAssumption DEF Given
<1> QED
    BY <1>1, <1>2, InForceStep, ConstructionAccounted, PTL DEF Spec

-----------------------------------------------------------------------------
(* More than one Client.  Settings are of the process, so a Client may lose  *)
(* its settings to another; the two theorems below say when it does not.     *)

\* The settings of the configuration of c are in force, as SettingsInForce has it.
SettingsOf(c) ==
    /\ \A k \in DOMAIN Serialize(cfg[c]) : Given(c, k)
    /\ ~TurnsFlakesOff(cfg[c]) => EnablesFlakes(nix[Experimental])

\* NewClient has begun and not returned.
UnderConstruction(c) == pc[c] \notin {"idle", "return", "closed"}

\* The calls of NewClient in the process do not overlap.
OneAtATime == \A c, d \in Clients : UnderConstruction(c) /\ UnderConstruction(d) => c = d

SerialSpec == Init /\ [][Next /\ OneAtATime']_vars

\* NewClient returns its Client with the settings of its configuration in force,
\* whatever the Clients before it, and the constructions that failed, left in Nix.
ConfiguredWhenReturned ==
    [][\A c \in Clients :
          outcome[c] # "client" /\ outcome'[c] = "client" => SettingsOf(c)']_vars

\* The Clients of the process are given the same configuration.
SameConfig ==
    \A c, d \in Clients : pc[c] # "idle" /\ pc[d] # "idle" => cfg[c] = cfg[d]

SameConfigSpec == Init /\ [][Next /\ SameConfig']_vars

\* What InForceOf says of a returned Client.
LEMMA InForceReturned ==
    ASSUME ClientInv, NEW c \in Clients, InForceOf(c), outcome[c] = "client"
    PROVE  SettingsOf(c)
<1>1. pc[c] \in {"return", "closed"}
    BY Places DEF ClientInv, TypeOK, Account, AccountOf
<1>2. \A k \in DOMAIN Serialize(cfg[c]) : Given(c, k)
    BY <1>1 DEF InForceOf, BeforeSettings
<1>3. cfg[c] \in ConfigType
    BY DEF ClientInv, Configured
<1> QED
    BY <1>2, <1>3, Serialized, ExperimentalAssumption DEF Given, SettingsOf

\* A step changes the construction it belongs to and no other.
LEMMA OneConstruction ==
    ASSUME ClientInv, NEW d \in Clients, NEW c \in Clients, c # d,
           \/ \E f \in Configs : Begin(d, f)
           \/ Succeeds(d) \/ Fails(d) \/ Unwind(d) \/ Close(d)
    PROVE  /\ pc'[c] = pc[c] /\ cfg'[c] = cfg[c] /\ pending'[c] = pending[c]
           /\ outcome'[c] = outcome[c]
<1> USE DEF ClientInv, TypeOK, Configured
<1>1. CASE \E f \in Configs : Begin(d, f)
    BY <1>1 DEF Begin
<1>2. CASE Succeeds(d)
    BY <1>2 DEF Succeeds, Create, Pass, Rest, CreateContext, InitLibrary, InitExpr, SetSetting,
        SettingsDone, SetVerbosity, SetLogFormat, SetLogSinkPath, NewFetcherSettings,
        NewFlakeSettings, StoreOpen, StoreRead, StoreReady, BuilderNew, ConfigureBuilder,
        EvalStateBuild
<1>3. CASE Fails(d)
    BY <1>3 DEF Fails, Fail, NoContext, CreateContextFails, InitLibraryFails,
        SetSettingFails, SetVerbosityFails, SetLogFormatFails, SetLogSinkPathFails,
        NewFetcherSettingsFails, NewFlakeSettingsFails, StoreOpenFails, StoreReadFails,
        BuilderNewFails, EvalNewFails, Rest
<1>4. CASE Unwind(d) \/ Close(d)
    BY <1>4 DEF Unwind, Close, Rest
<1> QED
    BY <1>1, <1>2, <1>3, <1>4

\* A setting another construction does not touch stays given.
LEMMA OtherKeepsInForce ==
    ASSUME ClientInv, NEW c \in Clients, InForceOf(c),
           pc'[c] = pc[c], cfg'[c] = cfg[c], pending'[c] = pending[c], outcome'[c] = outcome[c],
           \A k \in DOMAIN Serialize(cfg[c]) : Given(c, k) => nix'[k] = nix[k] \/ nix'[k] = Serialize(cfg[c])[k]
    PROVE  InForceOf(c)'
<1>1. Serialize(cfg[c])' = Serialize(cfg[c])
    BY DEF Serialize, TurnsFlakesOff
<1>2. \A k \in DOMAIN Serialize(cfg[c]) : Given(c, k) => Given(c, k)'
    BY <1>1 DEF Given, TurnsFlakesOff
<1> QED
    BY <1>1, <1>2 DEF InForceOf

\* Only SettingSet writes the settings of Nix.
LEMMA OnlySettingSet ==
    ASSUME NEW d \in Clients,
           \/ \E f \in Configs : Begin(d, f)
           \/ Succeeds(d) /\ ~SetSetting(d)
           \/ Fails(d) \/ Unwind(d) \/ Close(d)
    PROVE  nix' = nix
<1>1. CASE \E f \in Configs : Begin(d, f)
    BY <1>1 DEF Begin
<1>2. CASE Succeeds(d) /\ ~SetSetting(d)
    BY <1>2 DEF Succeeds, Create, Pass, Rest, CreateContext, InitLibrary, InitExpr,
        SettingsDone, SetVerbosity, SetLogFormat, SetLogSinkPath, NewFetcherSettings,
        NewFlakeSettings, StoreOpen, StoreRead, StoreReady, BuilderNew, ConfigureBuilder,
        EvalStateBuild
<1>3. CASE Fails(d)
    BY <1>3 DEF Fails, Fail, NoContext, CreateContextFails, InitLibraryFails,
        SetSettingFails, SetVerbosityFails, SetLogFormatFails, SetLogSinkPathFails,
        NewFetcherSettingsFails, NewFlakeSettingsFails, StoreOpenFails, StoreReadFails,
        BuilderNewFails, EvalNewFails, Rest
<1>4. CASE Unwind(d) \/ Close(d)
    BY <1>4 DEF Unwind, Close, Rest
<1> QED
    BY <1>1, <1>2, <1>3, <1>4

\* The construction that takes the step keeps its own settings.
LEMMA OwnInForce ==
    ASSUME ClientInv, NEW d \in Clients, InForceOf(d),
           \/ \E f \in Configs : Begin(d, f)
           \/ Succeeds(d) \/ Fails(d) \/ Unwind(d) \/ Close(d)
    PROVE  InForceOf(d)'
<1>1. CASE \E f \in Configs : Begin(d, f)
    BY <1>1, BeginInForce
<1>2. CASE Succeeds(d)
    BY <1>2, SucceedsInForce
<1>3. CASE Fails(d)
    BY <1>3, FailsInForce
<1>4. CASE Unwind(d) \/ Close(d)
    BY <1>4, EndInForce
<1> QED
    BY <1>1, <1>2, <1>3, <1>4

\* What is under construction has in force what it applied.
InForceSoFar == \A c \in Clients : UnderConstruction(c) => InForceOf(c)

\* Between constructions that do not overlap nobody else writes a setting.
LEMMA SerialInForceStep ==
    ClientInv /\ InForceSoFar /\ OneAtATime /\ [Next /\ OneAtATime']_vars => InForceSoFar'
<1> SUFFICES ASSUME ClientInv, InForceSoFar, OneAtATime, [Next /\ OneAtATime']_vars,
                    NEW c \in Clients, UnderConstruction(c)'
             PROVE  InForceOf(c)'
    BY DEF InForceSoFar
<1>1. CASE UNCHANGED vars
  <2>1. UnderConstruction(c) /\ nix' = nix /\ pc' = pc /\ cfg' = cfg /\ pending' = pending
        /\ outcome' = outcome
    BY <1>1 DEF vars, UnderConstruction
  <2> QED
    BY <2>1, OtherKeepsInForce DEF InForceSoFar
<1>2. ASSUME NEW d \in Clients,
             \/ \E f \in Configs : Begin(d, f)
             \/ Succeeds(d) \/ Fails(d) \/ Unwind(d) \/ Close(d),
             OneAtATime'
      PROVE  InForceOf(c)'
  <2>1. CASE c = d
    <3>1. CASE \E f \in Configs : Begin(d, f)
      BY <2>1, <3>1, BeginInForce
    <3>2. CASE ~\E f \in Configs : Begin(d, f)
      <4>1. ~Close(d)
        BY <2>1 DEF Close, UnderConstruction, ClientInv, TypeOK
      <4>2. pc[d] \notin {"idle", "return", "closed"}
        BY <1>2, <3>2, <4>1 DEF Succeeds, Create, Pass, CreateContext, InitLibrary, InitExpr, SetSetting,
          SettingsDone, SetVerbosity, SetLogFormat, SetLogSinkPath, NewFetcherSettings,
          NewFlakeSettings, StoreOpen, StoreRead, StoreReady, BuilderNew, ConfigureBuilder,
          EvalStateBuild, Fails, Fail, NoContext, CreateContextFails, InitLibraryFails,
          SetSettingFails, SetVerbosityFails, SetLogFormatFails, SetLogSinkPathFails,
          NewFetcherSettingsFails, NewFlakeSettingsFails, StoreOpenFails, StoreReadFails,
          BuilderNewFails, EvalNewFails, Unwind
      <4> QED
        BY <1>2, <2>1, <4>2, OwnInForce DEF InForceSoFar, UnderConstruction
    <3> QED
      BY <3>1, <3>2
  <2>2. CASE c # d
    <3>1. /\ pc'[c] = pc[c] /\ cfg'[c] = cfg[c] /\ pending'[c] = pending[c]
          /\ outcome'[c] = outcome[c]
      BY <1>2, <2>2, OneConstruction
    <3>2. UnderConstruction(c) /\ InForceOf(c)
      BY <3>1 DEF UnderConstruction, InForceSoFar
    <3>3. ~SetSetting(d)
      BY <2>2, <3>2 DEF OneAtATime, UnderConstruction, SetSetting
    <3>4. nix' = nix
      BY <1>2, <3>3, OnlySettingSet
    <3> QED
      BY <3>1, <3>2, <3>4, OtherKeepsInForce
  <2> QED
    BY <2>1, <2>2
<1> QED
    BY <1>1, <1>2 DEF Next

\* A Client is returned by the step that built its evaluator.
LEMMA ReturnedByBuild ==
    ASSUME ClientInv, Next, NEW c \in Clients, outcome[c] # "client", outcome'[c] = "client"
    PROVE  EvalStateBuild(c)
<1>1. PICK d \in Clients :
         \/ \E f \in Configs : Begin(d, f)
         \/ Succeeds(d) \/ Fails(d) \/ Unwind(d) \/ Close(d)
    BY DEF Next
<1>2. c = d
    BY <1>1, OneConstruction
<1> USE DEF ClientInv, TypeOK
<1>3. ~(\E f \in Configs : Begin(d, f)) /\ ~Unwind(d) /\ ~Close(d)
    BY <1>2 DEF Begin, Unwind, Close, Rest
<1>4. ~Fails(d)
    BY <1>2 DEF Fails, Fail, NoContext, CreateContextFails, InitLibraryFails,
        SetSettingFails, SetVerbosityFails, SetLogFormatFails, SetLogSinkPathFails,
        NewFetcherSettingsFails, NewFlakeSettingsFails, StoreOpenFails, StoreReadFails,
        BuilderNewFails, EvalNewFails, Rest
<1>5. Succeeds(d)
    BY <1>1, <1>3, <1>4
<1> QED
    BY <1>2, <1>5 DEF Succeeds, Create, Pass, Rest, CreateContext, InitLibrary, InitExpr, SetSetting,
        SettingsDone, SetVerbosity, SetLogFormat, SetLogSinkPath, NewFetcherSettings,
        NewFlakeSettings, StoreOpen, StoreRead, StoreReady, BuilderNew, ConfigureBuilder

\* Constructions that do not overlap, any number of them one after the other and with
\* any configurations: each Client is returned with its own settings in force, also when
\* an earlier Client, or a construction that failed half-way, had turned flakes off or
\* set the same settings.
THEOREM SerialClientsConfigured == SerialSpec => ConfiguredWhenReturned
<1> DEFINE J == ClientInv /\ InForceSoFar /\ OneAtATime
<1>1. Init => J
  <2>1. Init => InForceSoFar /\ OneAtATime
    BY DEF Init, InForceSoFar, UnderConstruction, OneAtATime
  <2> QED
    BY <2>1, ClientInvInit
<1>2. J /\ [Next /\ OneAtATime']_vars => J'
  <2>1. OneAtATime /\ [Next /\ OneAtATime']_vars => OneAtATime'
    BY DEF OneAtATime, UnderConstruction, vars
  <2> QED
    BY <2>1, ClientInvStep, SerialInForceStep
<1>3. J /\ [Next /\ OneAtATime']_vars =>
        \A c \in Clients : outcome[c] # "client" /\ outcome'[c] = "client" => SettingsOf(c)'
  <2> SUFFICES ASSUME J, [Next /\ OneAtATime']_vars, NEW c \in Clients,
                      outcome[c] # "client", outcome'[c] = "client"
               PROVE  SettingsOf(c)'
    OBVIOUS
  <2>1. Next
    BY DEF vars
  <2>2. EvalStateBuild(c)
    BY <2>1, ReturnedByBuild
  <2>3. InForceOf(c)
    BY <2>2 DEF EvalStateBuild, InForceSoFar, UnderConstruction
  <2>4. InForceOf(c)' /\ ClientInv'
    BY <2>1, <2>2, <2>3, OwnInForce, ClientInvStep DEF Succeeds
  <2>5. pc'[c] = "return" /\ cfg'[c] \in ConfigType
    BY <2>2, <2>4 DEF EvalStateBuild, ClientInv, TypeOK, Configured
  <2>6. \A k \in (DOMAIN Serialize(cfg[c]))' : Given(c, k)'
    BY <2>4, <2>5 DEF InForceOf, BeforeSettings
  <2>7. ASSUME NEW f \in ConfigType, f = cfg'[c]
        PROVE  SettingsOf(c)'
    <3>1. Serialize(f) = Serialize(cfg[c])' /\ (TurnsFlakesOff(f) <=> TurnsFlakesOff(cfg[c])')
      BY <2>7 DEF Serialize, TurnsFlakesOff
    <3> QED
      BY <2>6, <3>1, Serialized, ExperimentalAssumption DEF Given, SettingsOf
  <2> QED
    BY <2>5, <2>7
<1> QED
    BY <1>1, <1>2, <1>3, PTL DEF SerialSpec, ConfiguredWhenReturned

\* Another construction with the same configuration writes the values that are there.
LEMMA SameConfigStep ==
    ClientInv /\ InForce /\ SameConfig /\ [Next]_vars => InForce'
<1> SUFFICES ASSUME ClientInv, InForce, SameConfig, [Next]_vars, NEW c \in Clients
             PROVE  InForceOf(c)'
    BY DEF InForce
<1>1. InForceOf(c)
    BY DEF InForce
<1>2. CASE UNCHANGED vars
    BY <1>1, <1>2, OtherKeepsInForce DEF vars
<1>3. ASSUME NEW d \in Clients, c # d,
             \/ \E f \in Configs : Begin(d, f)
             \/ Succeeds(d) \/ Fails(d) \/ Unwind(d) \/ Close(d)
      PROVE  InForceOf(c)'
  <2>1. /\ pc'[c] = pc[c] /\ cfg'[c] = cfg[c] /\ pending'[c] = pending[c]
        /\ outcome'[c] = outcome[c]
    BY <1>3, OneConstruction
  <2>2. CASE ~SetSetting(d)
    <3>1. nix' = nix
      BY <1>3, <2>2, OnlySettingSet
    <3> QED
      BY <1>1, <2>1, <3>1, OtherKeepsInForce
  <2>3. CASE SetSetting(d) /\ pc[c] = "idle"
    BY <2>1, <2>3 DEF InForceOf
  <2>4. CASE SetSetting(d) /\ pc[c] # "idle"
    <3>1. cfg[c] = cfg[d]
      BY <2>4 DEF SameConfig, SetSetting
    <3>2. NextSetting(d) \in Keys /\ nix \in [Keys -> Values]
      BY <2>4, NextSettingPending DEF ClientInv, TypeOK, SetSetting
    <3>3. DOMAIN Serialize(cfg[c]) \subseteq Keys
      BY Serialized DEF ClientInv, Configured
    <3>4. \A k \in DOMAIN Serialize(cfg[c]) : nix'[k] = nix[k] \/ nix'[k] = Serialize(cfg[c])[k]
      BY <2>4, <3>1, <3>2, <3>3 DEF SetSetting, SettingSet
    <3> QED
      BY <1>1, <2>1, <3>4, OtherKeepsInForce
  <2> QED
    BY <2>2, <2>3, <2>4
<1>4. ASSUME NEW d \in Clients, c = d,
             \/ \E f \in Configs : Begin(d, f)
             \/ Succeeds(d) \/ Fails(d) \/ Unwind(d) \/ Close(d)
      PROVE  InForceOf(c)'
    BY <1>1, <1>4, OwnInForce
<1> QED
    BY <1>2, <1>3, <1>4 DEF Next

\* Clients that are given the same configuration do not disturb one another, whatever
\* the interleaving of their constructions and whichever of these fail: the settings of
\* every returned Client are in force, and stay so.
THEOREM SameConfigSettings == SameConfigSpec => []SettingsInForce
<1> DEFINE J == ClientInv /\ InForce /\ SameConfig
<1>1. Init => J
  <2>1. Init => InForce /\ SameConfig
    BY DEF Init, InForce, InForceOf, SameConfig
  <2> QED
    BY <2>1, ClientInvInit
<1>2. J /\ [Next /\ SameConfig']_vars => J'
  <2>1. SameConfig /\ [Next /\ SameConfig']_vars => SameConfig'
    BY DEF SameConfig, vars
  <2> QED
    BY <2>1, ClientInvStep, SameConfigStep
<1>3. J => SettingsInForce
  <2> SUFFICES ASSUME J, NEW c \in Clients, outcome[c] = "client"
               PROVE  SettingsOf(c)
    BY DEF SettingsInForce, SettingsOf, Given
  <2> QED
    BY InForceReturned DEF InForce
<1> QED
    BY <1>1, <1>2, <1>3, PTL DEF SameConfigSpec

=============================================================================
