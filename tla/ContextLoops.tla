---------------------------- MODULE ContextLoops -------------------------------
(***************************************************************************)
(* The saved universe of symbols and the context engine, which keeps one   *)
(* global loop and one loop per symbol: started at bootstrap and whenever  *)
(* a symbol is added, from a universe that a thread has read before, and   *)
(* stopped all together.                                                   *)
(***************************************************************************)
EXTENDS Naturals, FiniteSets

CONSTANTS
  Listable,        \* tickers
  Adders,          \* requests that add a symbol
  MaxContextStarts, MaxLoopCrashes, MaxRemovals    \* bounds

ASSUME ContextAssumption ==
  /\ IsFiniteSet(Listable) /\ IsFiniteSet(Adders)
  /\ MaxContextStarts \in Nat /\ MaxLoopCrashes \in Nat /\ MaxRemovals \in Nat

VARIABLES
  saved,           \* scanner_universe_symbols
  removals,        \* rows removed so far, for the bound
  adder,           \* each adding request: where it is, its symbol, what its refresh has read
  contextOn,       \* _running
  contextEpoch,    \* _lifecycle_generation
  globalTask,      \* the global loop: none, alive or crashed
  bootstrap,       \* the bootstrap task: where it is, its generation, what it has read
  symbolTasks,     \* _symbol_tasks: none, alive, crashed or cancelled
  stopAt,          \* where stop() is; "raised" after a stop that did not finish
  crashes,         \* crashes so far, for the bound
  promised         \* (history) symbols whose addition was answered with a refresh done

contextVars ==
  <<saved, removals, adder, contextOn, contextEpoch, globalTask, bootstrap, symbolTasks, stopAt,
    crashes, promised>>

IdleTask == [at |-> "none", epoch |-> 0, read |-> {}]

ContextInit ==
  /\ saved \in SUBSET Listable
  /\ removals = 0
  /\ adder = [a \in Adders |-> [task |-> IdleTask, sym |-> "none"]]
  /\ contextOn = FALSE /\ contextEpoch = 0
  /\ globalTask = "none" /\ bootstrap = IdleTask
  /\ symbolTasks = [s \in Listable |-> "none"]
  /\ stopAt = "off" /\ crashes = 0 /\ promised = {}

(***************************************************************************)
(* The context engine's loops                                              *)
(***************************************************************************)
StartContext ==
  /\ ~contextOn /\ stopAt = "off" /\ contextEpoch < 2 * MaxContextStarts
  /\ contextOn' = TRUE
  /\ contextEpoch' = contextEpoch + 1
  /\ globalTask' = "alive"
  /\ bootstrap' = [IdleTask EXCEPT !.at = "reading", !.epoch = contextEpoch + 1]
  /\ promised' = {}
  /\ UNCHANGED <<saved, removals, adder, symbolTasks, stopAt, crashes>>

(* mutant: the generation of the read is not compared *)
MayTrack_AnyEpoch(task) == TRUE

(* What is read before a stop starts no loop after it.                     *)
MayTrack(task) == contextOn /\ task.epoch = contextEpoch

(* _track_symbols: a symbol that has a loop, alive or not, gets no other.  *)
Tracked(task) ==
  [s \in Listable |->
     IF MayTrack(task) /\ s \in task.read /\ symbolTasks[s] = "none" THEN "alive"
     ELSE symbolTasks[s]]

(* The thread has read the universe; the loop hears of it later.           *)
BootstrapReads ==
  /\ bootstrap.at = "reading"
  /\ \/ bootstrap' = [bootstrap EXCEPT !.at = "read", !.read = saved] /\ UNCHANGED crashes
     \/ /\ crashes < MaxLoopCrashes
        /\ bootstrap' = [bootstrap EXCEPT !.at = "crashed"]
        /\ crashes' = crashes + 1
  /\ UNCHANGED <<saved, removals, adder, contextOn, contextEpoch, globalTask, symbolTasks, stopAt,
                 promised>>

BootstrapTracks ==
  /\ bootstrap.at = "read"
  /\ symbolTasks' = Tracked(bootstrap)
  /\ bootstrap' = [bootstrap EXCEPT !.at = "ended"]
  /\ UNCHANGED <<saved, removals, adder, contextOn, contextEpoch, globalTask, stopAt, crashes,
                 promised>>

(* add_symbol_to_universe commits, and refresh_symbol_loops starts a task  *)
(* of its own if the engine runs.                                          *)
AddSymbol(a, s) ==
  /\ adder[a].task.at = "none"
  /\ saved' = saved \cup {s}
  /\ adder' = [adder EXCEPT ![a].sym = s,
                 ![a].task = IF contextOn
                             THEN [IdleTask EXCEPT !.at = "reading", !.epoch = contextEpoch]
                             ELSE [IdleTask EXCEPT !.at = "ended"]]
  /\ UNCHANGED <<removals, contextOn, contextEpoch, globalTask, bootstrap, symbolTasks, stopAt,
                 crashes, promised>>

RefreshReads(a) ==
  /\ adder[a].task.at = "reading"
  /\ adder' = [adder EXCEPT ![a].task.at = "read", ![a].task.read = saved]
  /\ UNCHANGED <<saved, removals, contextOn, contextEpoch, globalTask, bootstrap, symbolTasks,
                 stopAt, crashes, promised>>

(* A read that raises leaves the loops as they are, and the addition is    *)
(* answered all the same.                                                  *)
RefreshFails(a) ==
  /\ adder[a].task.at = "reading" /\ crashes < MaxLoopCrashes
  /\ crashes' = crashes + 1
  /\ adder' = [adder EXCEPT ![a].task.at = "ended"]
  /\ UNCHANGED <<saved, removals, contextOn, contextEpoch, globalTask, bootstrap, symbolTasks,
                 stopAt, promised>>

RefreshTracks(a) ==
  /\ adder[a].task.at = "read"
  /\ symbolTasks' = Tracked(adder[a].task)
  /\ promised' = IF contextOn /\ adder[a].task.epoch = contextEpoch
                 THEN promised \cup {adder[a].sym} ELSE promised
  /\ adder' = [adder EXCEPT ![a].task.at = "ended"]
  /\ UNCHANGED <<saved, removals, contextOn, contextEpoch, globalTask, bootstrap, stopAt, crashes>>

(* A row removed after an addition's commit: its refresh need not see it.  *)
(* The loop of a removed symbol goes on.                                   *)
RemoveSymbol(s) ==
  /\ s \in saved /\ removals < MaxRemovals
  /\ \A a \in Adders : adder[a].task.at \in {"reading", "read"} => adder[a].sym # s
  /\ saved' = saved \ {s}
  /\ removals' = removals + 1
  /\ UNCHANGED <<adder, contextOn, contextEpoch, globalTask, bootstrap, symbolTasks, stopAt, crashes,
                 promised>>

(* A provider raises: the loop that asked it ends and is not replaced.     *)
LoopCrashes ==
  /\ crashes < MaxLoopCrashes
  /\ crashes' = crashes + 1
  /\ \/ globalTask = "alive" /\ globalTask' = "crashed" /\ UNCHANGED symbolTasks
     \/ /\ \E s \in Listable :
             symbolTasks[s] = "alive" /\ symbolTasks' = [symbolTasks EXCEPT ![s] = "crashed"]
        /\ UNCHANGED globalTask
  /\ UNCHANGED <<saved, removals, adder, contextOn, contextEpoch, bootstrap, stopAt, promised>>

(***************************************************************************)
(* stop(), one await after the other                                       *)
(***************************************************************************)
StopContext ==
  /\ contextOn /\ stopAt = "off"
  /\ contextOn' = FALSE
  /\ contextEpoch' = contextEpoch + 1
  /\ stopAt' = "global"
  /\ promised' = {}
  /\ UNCHANGED <<saved, removals, adder, globalTask, bootstrap, symbolTasks, crashes>>

(* A cancelled task is waited for and forgotten; one that had crashed      *)
(* raises its error out of stop().                                         *)
GlobalStopped ==
  /\ stopAt = "global"
  /\ stopAt' = IF globalTask = "crashed" THEN "raised" ELSE "boot"
  /\ globalTask' = IF globalTask = "crashed" THEN globalTask ELSE "none"
  /\ UNCHANGED <<saved, removals, adder, contextOn, contextEpoch, bootstrap, symbolTasks, crashes,
                 promised>>

BootstrapStopped ==
  /\ stopAt = "boot"
  /\ stopAt' = IF bootstrap.at = "crashed" THEN "raised" ELSE "refresh"
  /\ bootstrap' = IF bootstrap.at = "crashed" THEN bootstrap ELSE IdleTask
  /\ UNCHANGED <<saved, removals, adder, contextOn, contextEpoch, globalTask, symbolTasks, crashes,
                 promised>>

(* Refreshes are cancelled and their callers answered.                     *)
RefreshesStopped ==
  /\ stopAt = "refresh"
  /\ stopAt' = "loops"
  /\ adder' = [a \in Adders |->
                 IF adder[a].task.at = "none" THEN adder[a]
                 ELSE [adder[a] EXCEPT !.task.at = "ended"]]
  /\ UNCHANGED <<saved, removals, contextOn, contextEpoch, globalTask, bootstrap, symbolTasks,
                 crashes, promised>>

(* All are cancelled before any is waited for.                             *)
LoopsStopped ==
  /\ stopAt = "loops"
  /\ IF \E s \in Listable : symbolTasks[s] = "crashed"
     THEN /\ stopAt' = "raised"
          /\ symbolTasks' = [s \in Listable |->
                               IF symbolTasks[s] = "alive" THEN "cancelled" ELSE symbolTasks[s]]
     ELSE /\ stopAt' = "off"
          /\ symbolTasks' = [s \in Listable |-> "none"]
  /\ UNCHANGED <<saved, removals, adder, contextOn, contextEpoch, globalTask, bootstrap, crashes,
                 promised>>

ContextNext ==
  \/ StartContext \/ StopContext
  \/ GlobalStopped \/ BootstrapStopped \/ RefreshesStopped \/ LoopsStopped
  \/ BootstrapReads \/ BootstrapTracks \/ LoopCrashes
  \/ \E a \in Adders :
       \/ RefreshReads(a) \/ RefreshFails(a) \/ RefreshTracks(a)
       \/ \E s \in Listable : AddSymbol(a, s)
  \/ \E s \in Listable : RemoveSymbol(s)

ContextSpec == ContextInit /\ [][ContextNext]_contextVars

ContextTypeOK ==
  LET Tasks == [at : {"none", "reading", "read", "ended", "crashed"},
                epoch : 0 .. 2 * MaxContextStarts, read : SUBSET Listable]
  IN /\ saved \in SUBSET Listable /\ promised \in SUBSET Listable
     /\ adder \in [Adders -> [task : Tasks, sym : Listable \cup {"none"}]]
     /\ bootstrap \in Tasks
     /\ globalTask \in {"none", "alive", "crashed"}
     /\ symbolTasks \in [Listable -> {"none", "alive", "crashed", "cancelled"}]
     /\ stopAt \in {"off", "global", "boot", "refresh", "loops", "raised"}

(* An addition that was answered after its refresh has its loop for as     *)
(* long as the engine runs, whatever bootstrap and other refreshes read    *)
(* before and track later.                                                 *)
AdditionsTracked == contextOn => \A s \in promised : symbolTasks[s] # "none"

(* A stop that has finished leaves no loop, and no task that could start   *)
(* one; a stop that raised, because a loop or the bootstrap had crashed,   *)
(* promises neither.                                                       *)
StopIsComplete ==
  stopAt = "off" /\ ~contextOn =>
    /\ globalTask = "none" /\ bootstrap.at = "none"
    /\ \A s \in Listable : symbolTasks[s] = "none"
    /\ \A a \in Adders : adder[a].task.at \in {"none", "ended"}

(* After a stop has begun, and until the next start, no loop comes alive,  *)
(* even if the stop raised: what was read before it tracks nothing.        *)
NothingRevived ==
  [][~contextOn => \A s \in Listable : symbolTasks'[s] = "alive" => symbolTasks[s] = "alive"
    ]_contextVars
=============================================================================
