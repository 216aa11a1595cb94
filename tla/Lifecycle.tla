------------------------------ MODULE Lifecycle ------------------------------
(***************************************************************************)
(* cmd/chitchat/main.go: the process from its start to its exit.  main     *)
(* brings up the spy server, the driver and the engine one after another,  *)
(* takes them down again when one of them fails or a signal comes, and     *)
(* registers a reload hook that runs in HTTP handlers, next to a           *)
(* configuration file that others edit at any time.                        *)
(*                                                                         *)
(* The components are known here by what main sees of them: the engine has *)
(* the lock e.mu and the configuration it applies, as in module Engine,    *)
(* and the spy server its requests in progress, as in module SpyServer.    *)
(*                                                                         *)
(* The contents of the file are [reads, valid, url, host, port, v]: does   *)
(* it load, does it pass checkConfig, the settings a reload cannot change, *)
(* and the number of the edit that wrote it, for the rest.                 *)
(***************************************************************************)
EXTENDS Integers, FiniteSets

CONSTANTS
  Contents,  \* what the configuration file may hold, without v
  Flags,     \* the command line: [url, port], "" and 0 where not given
  Handlers,  \* the HTTP goroutines that may run the reload hook
  MaxEdits,  \* bound: edits of the file
  MaxSignals \* bound: signals sent to the process

VARIABLES
  file,      \* the configuration file
  cfg,       \* the configuration the process started with
  pc,        \* where runChitchat is
  exit,      \* how the process ended: "none" while it runs
  spy,       \* the spy server: "off", "up", "down"
  driver,    \* the broker driver: "new", "open", "closed"
  engine,    \* [state, cfg]: the engine and the configuration it applies
  emu,       \* the holder of e.mu, {} when it is free
  busy,      \* may workers of the engine be at work?
  ctx,       \* the context of the shutdown: "none", "live", "expired"
  hook,      \* is the reloader registered?
  reloadMu,  \* the holder of reloadMu
  current,   \* the configuration the hook compares with
  hpc, next, flagged, \* per handler: where it is, what it loaded, did it warn
  notified,  \* the channels signal.Notify was called for
  sigChan, forceExit, \* signals in these channels, of capacity 1
  watch,     \* the signals the goroutine behind forceExit has taken
  signals    \* the signals sent so far

startVars  == <<cfg, spy, driver, hook>>
engineVars == <<engine, emu, busy>>
reloadVars == <<reloadMu, current, hpc, next, flagged>>
signalVars == <<notified, sigChan, forceExit, watch, signals>>
vars == <<file, pc, exit, ctx, startVars, engineVars, reloadVars, signalVars>>

Version(c, n) == [reads |-> c.reads, valid |-> c.valid, url |-> c.url,
                  host |-> c.host, port |-> c.port, v |-> n]
NoConfig == [reads |-> FALSE, valid |-> FALSE, url |-> "", host |-> "", port |-> 0, v |-> 0]

(* ApplyOverrides on what the file says. *)
loadConfig(f) ==
  [f EXCEPT !.url = IF Flags.url # "" THEN Flags.url ELSE @,
            !.port = IF Flags.port > 0 THEN Flags.port ELSE @]

Init ==
  /\ \E c \in Contents : file = Version(c, 0)
  /\ cfg = NoConfig /\ current = NoConfig
  /\ pc = "load" /\ exit = "none" /\ ctx = "none"
  /\ spy = "off" /\ driver = "new"
  /\ engine = [state |-> "new", cfg |-> NoConfig]
  /\ emu = {} /\ busy = FALSE
  /\ hook = FALSE /\ reloadMu = {}
  /\ hpc = [h \in Handlers |-> "idle"]
  /\ next = [h \in Handlers |-> NoConfig]
  /\ flagged = [h \in Handlers |-> FALSE]
  /\ notified = {} /\ sigChan = 0 /\ forceExit = 0 /\ watch = 0 /\ signals = 0

At(where) == exit = "none" /\ pc = where

-----------------------------------------------------------------------------
(* runChitchat: start-up.  Every step may fail; what is up is taken down.  *)

Fail == exit' = "error" /\ UNCHANGED pc
Proceed(where) == pc' = where /\ UNCHANGED exit

(* loadConfig and checkConfig, before anything is touched. *)
LoadAndCheck ==
  /\ At("load")
  /\ \/ ~(file.reads /\ file.valid) /\ Fail /\ UNCHANGED cfg
     \/ file.reads /\ file.valid /\ cfg' = loadConfig(file) /\ Proceed("spy")
  /\ UNCHANGED <<file, ctx, spy, driver, hook, engineVars, reloadVars, signalVars>>

StartSpy ==
  /\ At("spy")
  /\ \/ Fail /\ UNCHANGED spy
     \/ spy' = "up" /\ Proceed("connect")
  /\ UNCHANGED <<file, ctx, cfg, driver, hook, engineVars, reloadVars, signalVars>>

connectBroker ==
  /\ At("connect")
  /\ \/ Proceed("undoSpy") /\ UNCHANGED driver
     \/ driver' = "open" /\ Proceed("engine")
  /\ UNCHANGED <<file, ctx, cfg, spy, hook, engineVars, reloadVars, signalVars>>

StartEngineOr(undo) ==
  /\ At("engine")
  /\ \/ Proceed(undo) /\ UNCHANGED <<engine, busy>>
     \/ /\ engine' = [state |-> "running", cfg |-> cfg]
        /\ busy' = TRUE
        /\ Proceed("hooks")
  /\ UNCHANGED <<file, ctx, startVars, emu, reloadVars, signalVars>>

(* Mutant: a failed start of the engine takes down the spy server only. *)
StartEngineForgets == StartEngineOr("undoSpy")

StartEngine == StartEngineOr("undoEngine")

(* eng.Stop, with no worker to wait for and no reload to compete with. *)
UndoEngine ==
  /\ At("undoEngine")
  /\ engine' = [engine EXCEPT !.state = "stopped"]
  /\ driver' = "closed"
  /\ Proceed("undoSpy")
  /\ UNCHANGED <<file, ctx, cfg, spy, hook, emu, busy, reloadVars, signalVars>>

UndoSpy ==
  /\ At("undoSpy")
  /\ spy' = "down"
  /\ Fail
  /\ UNCHANGED <<file, ctx, cfg, driver, hook, engineVars, reloadVars, signalVars>>

SetReloader ==
  /\ At("hooks")
  /\ hook' = TRUE /\ current' = cfg
  /\ Proceed("notifyForce")
  /\ UNCHANGED <<file, ctx, cfg, spy, driver, engineVars, reloadMu, hpc, next,
                 flagged, signalVars>>

-----------------------------------------------------------------------------
(* runChitchat: signals and shutdown.                                      *)

Notify(where, channel, then) ==
  /\ At(where)
  /\ notified' = notified \cup {channel}
  /\ Proceed(then)
  /\ UNCHANGED <<file, ctx, startVars, engineVars, reloadVars, sigChan,
                 forceExit, watch, signals>>

NotifyForce == Notify("notifyForce", "forceExit", "notifyMain")
NotifyMain  == Notify("notifyMain", "sigChan", "wait")

BeginShutdown(context) ==
  /\ At("wait") /\ sigChan = 1
  /\ sigChan' = 0 /\ ctx' = context
  /\ Proceed("stopEngine")
  /\ UNCHANGED <<file, cfg, spy, driver, hook, engineVars, reloadVars, notified,
                 forceExit, watch, signals>>

(* Mutant: a context without a deadline. *)
TakeSignalUnbounded == BeginShutdown("none")

TakeSignal == BeginShutdown("live")

(* eng.Stop: the flags under e.mu, the workers or the deadline, the driver. *)
StopEngine ==
  /\ At("stopEngine") /\ emu = {}
  /\ engine' = [engine EXCEPT !.state = "stopped"]
  /\ Proceed("drain")
  /\ UNCHANGED <<file, ctx, startVars, emu, busy, reloadVars, signalVars>>

DrainEngine ==
  /\ At("drain")
  /\ ~busy \/ ctx = "expired"
  /\ Proceed("close")
  /\ UNCHANGED <<file, ctx, startVars, engineVars, reloadVars, signalVars>>

CloseDriver ==
  /\ At("close")
  /\ driver' = "closed"
  /\ Proceed("stopSpy")
  /\ UNCHANGED <<file, ctx, cfg, spy, hook, engineVars, reloadVars, signalVars>>

(* spyServer.Stop, on what is left of the same context: the listener is    *)
(* closed, then requests in progress or the deadline.                      *)
StopSpy ==
  /\ At("stopSpy")
  /\ spy' = "down"
  /\ Proceed("spyDrain")
  /\ UNCHANGED <<file, ctx, cfg, driver, hook, engineVars, reloadVars, signalVars>>

Exit ==
  /\ At("spyDrain")
  /\ ctx = "expired" \/ \A h \in Handlers : hpc[h] = "idle"
  /\ exit' = "ok"
  /\ UNCHANGED <<file, pc, ctx, startVars, engineVars, reloadVars, signalVars>>

(* The goroutine behind forceExit: the second signal ends the process. *)
Watch ==
  /\ exit = "none" /\ forceExit = 1
  /\ forceExit' = 0 /\ watch' = watch + 1
  /\ exit' = IF watch = 1 THEN "forced" ELSE exit
  /\ UNCHANGED <<file, pc, ctx, startVars, engineVars, reloadVars, notified,
                 sigChan, signals>>

-----------------------------------------------------------------------------
(* The reload hook, in the goroutine of an HTTP handler.                   *)

In(h, where) == exit = "none" /\ hpc[h] = where
Goto(h, where) == hpc' = [hpc EXCEPT ![h] = where]

Leaves(h, mu) ==
  /\ Goto(h, "idle")
  /\ next' = [next EXCEPT ![h] = NoConfig]
  /\ flagged' = [flagged EXCEPT ![h] = FALSE]
  /\ reloadMu' = mu

(* Mutant: the hook returns without giving back reloadMu. *)
ReturnsLocked(h) == Leaves(h, reloadMu)

(* The hook returns; reloadMu is given back by a deferred call. *)
Returns(h) == Leaves(h, reloadMu \ {h})

hookVars == <<pc, exit, ctx, startVars, signalVars>>

ReloadArrives(h) ==
  /\ In(h, "idle") /\ spy = "up" /\ hook
  /\ Goto(h, "lock")
  /\ UNCHANGED <<file, hookVars, engineVars, reloadMu, current, next, flagged>>

Acquire(h, free) ==
  /\ In(h, "lock") /\ free
  /\ reloadMu' = reloadMu \cup {h}
  /\ Goto(h, "load")
  /\ UNCHANGED <<file, hookVars, engineVars, current, next, flagged>>

(* Mutant: reloads run side by side. *)
LockReloadShared(h) == Acquire(h, TRUE)

LockReload(h) == Acquire(h, reloadMu = {})

(* reloadConfig: load, check and compare, apply. *)
LoadNext(h) ==
  /\ In(h, "load")
  /\ \/ ~file.reads /\ Returns(h)
     \/ /\ file.reads
        /\ next' = [next EXCEPT ![h] = loadConfig(file)]
        /\ Goto(h, "check")
        /\ UNCHANGED <<reloadMu, flagged>>
  /\ UNCHANGED <<file, hookVars, engineVars, current>>

Differs(c, d) == c.url # d.url \/ c.host # d.host \/ c.port # d.port

CheckNext(h) ==
  /\ In(h, "check")
  /\ \/ ~next[h].valid /\ Returns(h)
     \/ /\ next[h].valid
        /\ flagged' = [flagged EXCEPT ![h] = Differs(next[h], current)]
        /\ Goto(h, "apply")
        /\ UNCHANGED <<reloadMu, next>>
  /\ UNCHANGED <<file, hookVars, engineVars, current>>

(* eng.Reload takes e.mu, asks the broker, and swaps the rules or fails. *)
ReloadBegins(h) ==
  /\ In(h, "apply") /\ emu = {}
  /\ \/ /\ engine.state # "running"
        /\ Returns(h)
        /\ UNCHANGED emu
     \/ /\ engine.state = "running"
        /\ emu' = {h}
        /\ Goto(h, "broker")
        /\ UNCHANGED <<reloadMu, next, flagged>>
  /\ UNCHANGED <<file, hookVars, engine, busy, current>>

ApplyOrFail(h, c) ==
  /\ In(h, "broker")
  /\ emu' = {}
  /\ \/ Returns(h) /\ UNCHANGED engine
     \/ /\ engine' = [engine EXCEPT !.cfg = c]
        /\ Goto(h, "reread")
        /\ UNCHANGED <<reloadMu, next, flagged>>
  /\ UNCHANGED <<file, hookVars, busy, current>>

(* Mutant: the engine is given the file as it is now, not as checked. *)
ReloadEndsRereads(h) == ApplyOrFail(h, loadConfig(file))

ReloadEnds(h) == ApplyOrFail(h, next[h])

(* After a success the file is read again and becomes current, unchecked. *)
RereadConfig(h) ==
  /\ In(h, "reread")
  /\ current' = IF file.reads THEN loadConfig(file) ELSE current
  /\ Returns(h)
  /\ UNCHANGED <<file, hookVars, engineVars>>

-----------------------------------------------------------------------------
(* The environment.                                                        *)

EditFile(c) ==
  /\ exit = "none" /\ file.v < MaxEdits
  /\ file' = Version(c, file.v + 1)
  /\ UNCHANGED <<pc, exit, ctx, startVars, engineVars, reloadVars, signalVars>>

(* signal.Notify's channels get the signal if they have room; a process    *)
(* that has registered none dies of it.                                    *)
Signal ==
  LET put(channel, n) == IF channel \in notified THEN 1 ELSE n
  IN  /\ exit = "none" /\ signals < MaxSignals
      /\ signals' = signals + 1
      /\ exit' = IF notified = {} THEN "killed" ELSE exit
      /\ sigChan' = put("sigChan", sigChan)
      /\ forceExit' = put("forceExit", forceExit)
      /\ UNCHANGED <<file, pc, ctx, startVars, engineVars, reloadVars, notified,
                     watch>>

Deadline ==
  /\ exit = "none" /\ ctx = "live"
  /\ ctx' = "expired"
  /\ UNCHANGED <<file, pc, exit, startVars, engineVars, reloadVars, signalVars>>

(* The workers of a stopped engine end; a publish may keep one busy. *)
WorkersEnd ==
  /\ exit = "none" /\ engine.state = "stopped" /\ busy
  /\ busy' = FALSE
  /\ UNCHANGED <<file, pc, exit, ctx, startVars, engine, emu, reloadVars, signalVars>>

Startup ==
  \/ LoadAndCheck \/ StartSpy \/ connectBroker \/ StartEngine
  \/ UndoEngine \/ UndoSpy \/ SetReloader \/ NotifyForce \/ NotifyMain
Shutdown ==
  \/ TakeSignal \/ StopEngine \/ DrainEngine \/ CloseDriver \/ StopSpy \/ Exit
Hook(h) ==
  \/ LoadNext(h) \/ CheckNext(h) \/ ReloadBegins(h) \/ ReloadEnds(h)
  \/ RereadConfig(h)

Next ==
  \/ Startup \/ Shutdown \/ Watch
  \/ \E h \in Handlers : ReloadArrives(h) \/ LockReload(h) \/ Hook(h)
  \/ \E c \in Contents : EditFile(c)
  \/ Signal \/ Deadline \/ WorkersEnd

(* main and the handlers run, the broker answers a reload, Go's mutexes    *)
(* starve nobody and the deadline comes.  Nothing is assumed of the        *)
(* workers, of signals or of edits.                                        *)
Fairness ==
  /\ WF_vars(Startup) /\ WF_vars(Watch) /\ WF_vars(Deadline)
  /\ SF_vars(Shutdown)
  /\ \A h \in Handlers : SF_vars(LockReload(h)) /\ WF_vars(Hook(h))

SafetySpec == Init /\ [][Next]_vars
Spec == SafetySpec /\ Fairness

-----------------------------------------------------------------------------
(* Properties.                                                             *)

(* Whenever runChitchat returns, from whichever step, it leaves no driver  *)
(* open, no engine running and no listener: each error path takes down     *)
(* what was up by then.                                                    *)
CleanExit ==
  exit \in {"ok", "error"} =>
    driver # "open" /\ engine.state # "running" /\ spy # "up"

(* What the engine runs has passed checkConfig as it stands, although the  *)
(* file is edited between load, check and apply.                           *)
OnlyCheckedApplied == engine.state = "running" => engine.cfg.valid

(* Reloads do not overtake each other: the engine never goes back to an    *)
(* older state of the file than the one it has.                            *)
AppliedForward == [][engine'.cfg.v >= engine.cfg.v]_vars

(* A signal that main gets ends the process, whatever the workers, the     *)
(* reloads and further signals do: the deadline of the context cuts the    *)
(* wait for the workers and the requests short, though not that for e.mu.  *)
SignalEnds == sigChan = 1 ~> exit # "none"

(* Every reload request is answered, or the process ends first. *)
ReloadAnswered ==
  \A h \in Handlers : hpc[h] # "idle" ~> hpc[h] = "idle" \/ exit # "none"

(* "current is the configuration the process started with, used to flag    *)
(* settings that a reload cannot change": a reload that is applied while   *)
(* the file disagrees with the process on one of them has warned of it.    *)
UnappliedFlagged ==
  \A h \in Handlers :
    hpc[h] = "reread" /\ Differs(next[h], cfg) => flagged[h]
=============================================================================
