--------------------------- MODULE LifecycleProofs ---------------------------
(***************************************************************************)
(* The life of the process, for every set of file contents, every command  *)
(* line, any number of handlers, edits and signals: what runChitchat       *)
(* leaves behind when it returns, and which configurations the reload hook *)
(* hands to the engine while the file is being edited.                     *)
(***************************************************************************)
EXTENDS Lifecycle, TLAPS

-----------------------------------------------------------------------------
(* The start-up, the error paths and the shutdown.                         *)

(* What is up at each step of runChitchat. *)
PhaseInv ==
  /\ DOMAIN engine = {"state", "cfg"}
  /\ pc \in {"load", "spy"} => spy = "off"
  /\ pc \in {"load", "spy", "connect"} => driver = "new"
  /\ pc \in {"load", "spy", "connect", "engine", "undoEngine"} =>
       engine.state = "new"
  /\ pc = "undoSpy" => driver # "open" /\ engine.state # "running"
  /\ pc \in {"drain", "close", "stopSpy", "spyDrain"} => engine.state = "stopped"
  /\ pc \in {"stopSpy", "spyDrain"} => driver = "closed"
  /\ pc = "spyDrain" => spy = "down"
  /\ CleanExit

LEMMA PhaseInit == Init => PhaseInv
  BY DEF Init, PhaseInv, CleanExit

LEMMA PhaseNext ==
  ASSUME PhaseInv, [Next]_vars
  PROVE  PhaseInv'
<1> USE DEF PhaseInv, CleanExit, At, Fail, Proceed
<1>1. CASE UNCHANGED vars
  BY <1>1 DEF vars, startVars, engineVars
<1>2. CASE LoadAndCheck
  BY <1>2 DEF LoadAndCheck, engineVars
<1>3. CASE StartSpy
  BY <1>3 DEF StartSpy, engineVars
<1>4. CASE connectBroker
  BY <1>4 DEF connectBroker, engineVars
<1>5. CASE StartEngine
  BY <1>5 DEF StartEngine, StartEngineOr, startVars
<1>6. CASE UndoEngine
  BY <1>6 DEF UndoEngine
<1>7. CASE UndoSpy
  BY <1>7 DEF UndoSpy, engineVars
<1>8. CASE SetReloader
  BY <1>8 DEF SetReloader, engineVars
<1>9. CASE NotifyForce \/ NotifyMain
  BY <1>9 DEF NotifyForce, NotifyMain, Notify, startVars, engineVars
<1>10. CASE TakeSignal
  BY <1>10 DEF TakeSignal, BeginShutdown, engineVars
<1>11. CASE StopEngine \/ DrainEngine \/ Exit
  BY <1>11 DEF StopEngine, DrainEngine, Exit, startVars, engineVars
<1>12. CASE CloseDriver
  BY <1>12 DEF CloseDriver, engineVars
<1>13. CASE StopSpy
  BY <1>13 DEF StopSpy, engineVars
<1>14. CASE Watch \/ Signal
  BY <1>14 DEF Watch, Signal, startVars, engineVars
<1>15. ASSUME NEW h \in Handlers,
              ReloadArrives(h) \/ LockReload(h) \/ LoadNext(h) \/ CheckNext(h)
              \/ RereadConfig(h)
       PROVE  PhaseInv'
  BY <1>15 DEF ReloadArrives, LockReload, Acquire, LoadNext, CheckNext,
     RereadConfig, hookVars, startVars, engineVars
<1>16. ASSUME NEW h \in Handlers, ReloadBegins(h) \/ ReloadEnds(h)
       PROVE  PhaseInv'
  BY <1>16 DEF ReloadBegins, ReloadEnds, ApplyOrFail, hookVars, startVars
<1>17. ASSUME NEW c \in Contents, EditFile(c)
       PROVE  PhaseInv'
  BY <1>17 DEF EditFile, startVars, engineVars
<1>18. CASE Deadline \/ WorkersEnd
  BY <1>18 DEF Deadline, WorkersEnd, startVars, engineVars
<1> HIDE DEF PhaseInv
<1> QED
  BY <1>1, <1>2, <1>3, <1>4, <1>5, <1>6, <1>7, <1>8, <1>9, <1>10, <1>11,
     <1>12, <1>13, <1>14, <1>15, <1>16, <1>17, <1>18
  DEF Next, Startup, Shutdown, Hook

(* From whichever step runChitchat returns, nothing it brought up is left: *)
(* each error path of main.go undoes exactly what was up by then, and the  *)
(* shutdown takes down the rest.                                           *)
THEOREM ExitsClean == SafetySpec => []CleanExit
<1>1. PhaseInv => CleanExit
  BY DEF PhaseInv
<1> QED BY <1>1, PhaseInit, PhaseNext, PTL DEF SafetySpec
-----------------------------------------------------------------------------
(* The reload hook.                                                        *)

(* A configuration as the proof knows it: its verdict and its edit. *)
IsConfig(c) == {"valid", "v"} \subseteq DOMAIN c /\ c.v \in Nat

TypeInv ==
  /\ IsConfig(file) /\ IsConfig(cfg)
  /\ DOMAIN next = Handlers /\ \A h \in Handlers : IsConfig(next[h])
  /\ DOMAIN engine = {"state", "cfg"} /\ IsConfig(engine.cfg)
  /\ DOMAIN hpc = Handlers

(* The hook runs next to an engine that has been started, one handler at a *)
(* time past the lock.                                                     *)
HookInv ==
  /\ pc = "hooks" \/ hook => engine.state # "new"
  /\ \A h \in Handlers :
       /\ hpc[h] # "idle" => hook
       /\ hpc[h] \in {"load", "check", "apply", "broker", "reread"} =>
            reloadMu = {h}

(* What is checked stays checked, and nothing is newer than the file. *)
CheckedInv ==
  /\ pc # "load" => cfg.valid
  /\ \A h \in Handlers : hpc[h] \in {"apply", "broker"} => next[h].valid
  /\ OnlyCheckedApplied

(* No configuration is newer than the file, none on its way to the engine  *)
(* older than the one the engine has.                                      *)
OrderInv ==
  /\ cfg.v <= file.v /\ engine.cfg.v <= file.v
  /\ engine.state = "new" => engine.cfg.v = 0
  /\ \A h \in Handlers :
       /\ next[h].v <= file.v
       /\ hpc[h] \in {"check", "apply", "broker"} => next[h].v >= engine.cfg.v

ReloadInv == TypeInv /\ HookInv /\ CheckedInv /\ OrderInv

LEMMA NoConfigType == IsConfig(NoConfig) /\ NoConfig.v = 0
  BY DEF NoConfig, IsConfig

LEMMA VersionType ==
  ASSUME NEW c, NEW n \in Nat
  PROVE  IsConfig(Version(c, n)) /\ Version(c, n).v = n
  BY DEF Version, IsConfig

(* The overrides touch neither the verdict nor the number of the edit. *)
LEMMA LoadConfigKeeps ==
  ASSUME NEW f, IsConfig(f)
  PROVE  /\ IsConfig(loadConfig(f))
         /\ loadConfig(f).valid = f.valid
         /\ loadConfig(f).v = f.v
  BY DEF loadConfig, IsConfig

LEMMA ReloadInit == Init => ReloadInv
<1> SUFFICES ASSUME Init PROVE ReloadInv
  OBVIOUS
<1>1. IsConfig(file) /\ file.v = 0
  BY VersionType DEF Init
<1> QED
  BY <1>1, NoConfigType
  DEF Init, ReloadInv, TypeInv, HookInv, CheckedInv, OnlyCheckedApplied, OrderInv

LEMMA ReloadNext ==
  ASSUME PhaseInv, ReloadInv, [Next]_vars
  PROVE  ReloadInv' /\ engine'.cfg.v >= engine.cfg.v
<1> DEFINE Goal == ReloadInv' /\ engine'.cfg.v >= engine.cfg.v
<1> USE DEF ReloadInv, TypeInv, HookInv, CheckedInv, OnlyCheckedApplied, OrderInv,
            At, Fail, Proceed
<1>0. IsConfig(file) /\ IsConfig(cfg) /\ IsConfig(engine.cfg)
  OBVIOUS
<1> USE DEF IsConfig
<1>1. CASE UNCHANGED vars
  BY <1>1 DEF vars, startVars, engineVars, reloadVars
<1>2. CASE LoadAndCheck
  <2> HIDE DEF IsConfig
  <2>1. /\ IsConfig(loadConfig(file))
        /\ loadConfig(file).valid = file.valid
        /\ loadConfig(file).v = file.v
    BY <1>0, LoadConfigKeeps
  <2> USE DEF IsConfig
  <2> QED BY <1>2, <2>1 DEF LoadAndCheck, engineVars, reloadVars
<1>3. CASE StartSpy \/ connectBroker \/ UndoSpy
  BY <1>3 DEF StartSpy, connectBroker, UndoSpy, engineVars, reloadVars
<1>4. CASE StartEngine
  <2>1. engine.state = "new" /\ engine.cfg.v = 0
    BY <1>4 DEF StartEngine, StartEngineOr, PhaseInv
  <2>2. \A h \in Handlers : hpc[h] = "idle"
    BY <2>1
  <2> QED
    BY <1>4, <2>1, <2>2
    DEF StartEngine, StartEngineOr, startVars, reloadVars
<1>5. CASE UndoEngine
  BY <1>5 DEF UndoEngine, reloadVars
<1>6. CASE SetReloader
  BY <1>6 DEF SetReloader, engineVars
<1>7. CASE NotifyForce \/ NotifyMain \/ TakeSignal
  BY <1>7 DEF NotifyForce, NotifyMain, Notify, TakeSignal, BeginShutdown,
     startVars, engineVars, reloadVars
<1>8. CASE StopEngine
  BY <1>8 DEF StopEngine, startVars, reloadVars
<1>9. CASE DrainEngine \/ CloseDriver \/ StopSpy \/ Exit \/ Watch
  BY <1>9 DEF DrainEngine, CloseDriver, StopSpy, Exit, Watch, startVars,
     engineVars, reloadVars
<1>10. ASSUME NEW h \in Handlers, ReloadArrives(h)
       PROVE  Goal
  BY <1>10 DEF ReloadArrives, In, Goto, hookVars, startVars, engineVars
<1>11. ASSUME NEW h \in Handlers, LockReload(h)
       PROVE  Goal
  BY <1>11 DEF LockReload, Acquire, In, Goto, hookVars, startVars, engineVars
<1>12. ASSUME NEW h \in Handlers, LoadNext(h)
       PROVE  Goal
  <2> HIDE DEF IsConfig
  <2>1. /\ IsConfig(loadConfig(file))
        /\ loadConfig(file).v = file.v
    BY <1>0, LoadConfigKeeps
  <2> USE DEF IsConfig
  <2>2. CASE Returns(h)
    BY <1>12, <2>2, NoConfigType
    DEF LoadNext, Returns, Leaves, Goto, hookVars, startVars, engineVars
  <2>3. CASE ~Returns(h)
    BY <1>12, <2>1, <2>3
    DEF LoadNext, In, Goto, hookVars, startVars, engineVars
  <2> QED BY <2>2, <2>3
<1>13. ASSUME NEW h \in Handlers, CheckNext(h)
       PROVE  Goal
  <2>1. CASE Returns(h)
    BY <1>13, <2>1, NoConfigType
    DEF CheckNext, Returns, Leaves, Goto, hookVars, startVars, engineVars
  <2>2. CASE ~Returns(h)
    BY <1>13, <2>2
    DEF CheckNext, In, Goto, hookVars, startVars, engineVars
  <2> QED BY <2>1, <2>2
<1>14. ASSUME NEW h \in Handlers, ReloadBegins(h)
       PROVE  Goal
  <2>1. CASE Returns(h)
    BY <1>14, <2>1, NoConfigType
    DEF ReloadBegins, Returns, Leaves, Goto, hookVars, startVars
  <2>2. CASE ~Returns(h)
    BY <1>14, <2>2
    DEF ReloadBegins, In, Goto, hookVars, startVars
  <2> QED BY <2>1, <2>2
<1>15. ASSUME NEW h \in Handlers, ReloadEnds(h)
       PROVE  Goal
  <2>1. CASE Returns(h)
    BY <1>15, <2>1, NoConfigType
    DEF ReloadEnds, ApplyOrFail, Returns, Leaves, Goto, hookVars, startVars
  <2>2. CASE ~Returns(h)
    <3>1. /\ hpc[h] = "broker" /\ next[h].valid /\ next[h].v >= engine.cfg.v
          /\ \A g \in Handlers \ {h} : hpc[g] \notin {"check", "apply", "broker"}
      BY <1>15 DEF ReloadEnds, ApplyOrFail, In
    <3> QED
      BY <1>15, <2>2, <3>1
      DEF ReloadEnds, ApplyOrFail, Goto, hookVars, startVars
  <2> QED BY <2>1, <2>2
<1>16. ASSUME NEW h \in Handlers, RereadConfig(h)
       PROVE  Goal
  BY <1>16, NoConfigType
  DEF RereadConfig, Returns, Leaves, Goto, hookVars, startVars, engineVars
<1>17. ASSUME NEW c \in Contents, EditFile(c)
       PROVE  Goal
  BY <1>17, VersionType DEF EditFile, startVars, engineVars, reloadVars
<1>18. CASE Signal \/ Deadline \/ WorkersEnd
  BY <1>18 DEF Signal, Deadline, WorkersEnd, startVars, engineVars, reloadVars
<1> HIDE DEF ReloadInv
<1> QED
  BY <1>1, <1>2, <1>3, <1>4, <1>5, <1>6, <1>7, <1>8, <1>9, <1>10, <1>11,
     <1>12, <1>13, <1>14, <1>15, <1>16, <1>17, <1>18
  DEF Next, Startup, Shutdown, Hook

(* While the file is edited under a reload, what reaches the engine is the *)
(* contents that were loaded and then checked, never a later reading: main *)
(* checks and applies one value of next.                                   *)
THEOREM EngineRunsChecked == SafetySpec => []OnlyCheckedApplied
<1>1. ReloadInv => OnlyCheckedApplied
  BY DEF ReloadInv, CheckedInv
<1> QED
  BY <1>1, PhaseInit, PhaseNext, ReloadInit, ReloadNext, PTL DEF SafetySpec

(* reloadMu is held from the load to the end of the reload, so reloads     *)
(* cannot overtake each other, however many handlers run the hook: the     *)
(* engine never goes back to an older edit of the file.                    *)
THEOREM ReloadsForward == SafetySpec => AppliedForward
<1>1. ASSUME PhaseInv, ReloadInv, [Next]_vars
      PROVE  [engine'.cfg.v >= engine.cfg.v]_vars
  BY <1>1, ReloadNext
<1> QED
  BY <1>1, PhaseInit, PhaseNext, ReloadInit, ReloadNext, PTL
  DEF SafetySpec, AppliedForward
=============================================================================
