---------------------------- MODULE XrayManager ----------------------------
(***************************************************************************)
(* The agent's supervision of its Xray process, at the grain of the        *)
(* Manager's mutex.  Four kinds of goroutine meet there: the stream reader *)
(* (Apply and Restart), the one install allowed at a time (Installer and   *)
(* Activate), the waiter of every process ever started, and the settle     *)
(* loops, which look at the state without holding the lock in between.     *)
(* ConfigDelivery has the version protocol above Apply; kernels here are   *)
(* release versions and configs are opaque.                                *)
(*                                                                         *)
(*   bin         Manager.bin, as the release version at that path          *)
(*   installed   versions under kernels/ ; active: the kernels/active file *)
(*   disk        config.json; probe: the config whose probe outbound is    *)
(*               held (SetProbe)                                           *)
(*   kstate, cmd, generation   Manager.state, .cmd (0: nil), .generation;  *)
(*               a process is named by the generation it was started with  *)
(*   alive       live processes; exited: dead ones whose waiter has not    *)
(*               taken the lock yet                                        *)
(*   rpc, rcfg, rgen   the reader inside Apply, the config, the process it *)
(*               started                                                   *)
(*   ipc, kernel, prev, igen, baselineOK, verdict   the install goroutine  *)
(*   ctxUp       the stream the install belongs to is still there          *)
(***************************************************************************)
EXTENDS Integers, FiniteSets

CONSTANTS
    Kernels,      \* versions Core may ask for
    Image,        \* the version baked into the image
    None,
    Configs, NoConfig,
    NoStart,      \* kernels that cannot be exec'ed
    Dies,         \* kernels that die in the settle window
    NoTraffic,    \* kernels that stay up and carry no traffic
    Rejected,     \* configs `xray -test` refuses
    Crashes,      \* configs that pass and kill the kernel in the window
    FaultBudget   \* how often each fault, and each request, may happen

Faults == {"install", "apply", "restart", "break", "agent", "kernel", "start", "net", "fault"}

ASSUME ManagerAssumption ==
    /\ Image \notin Kernels /\ None \notin Kernels \cup {Image}
    /\ NoConfig \notin Configs
    /\ FaultBudget \in [Faults -> Nat]

VARIABLES bin, installed, active, disk, probe,
          kstate, cmd, generation, alive, exited,
          rpc, rcfg, rgen,
          ipc, kernel, prev, igen, baselineOK, verdict, ctxUp,
          budget

diskVars   == <<installed, active, disk>>
procVars   == <<kstate, cmd, generation, alive, exited>>
readerVars == <<rpc, rcfg, rgen>>
installVars == <<ipc, kernel, prev, igen, baselineOK, verdict, ctxUp>>
vars == <<bin, probe, diskVars, procVars, readerVars, installVars, budget>>

Process == [gen : Nat, ver : Kernels \cup {Image}, cfg : Configs]

Spend(f) == budget[f] > 0 /\ budget' = [budget EXCEPT ![f] = @ - 1]

\* Faults of all kinds share one more bound.
Fault(f) == /\ budget[f] > 0 /\ budget["fault"] > 0
            /\ budget' = [budget EXCEPT ![f] = @ - 1, !["fault"] = @ - 1]

\* The version a start from a fresh agent process would use (ActiveBinary):
\* the recorded one if it is really there, else the image's.
ActiveBinary == IF active \in installed THEN active ELSE Image

\* A process that will not live through a settle window.
Doomed(p) == p.ver \in Dies \/ p.cfg \in Crashes

\* A freshly registered node: the image's kernel, no config yet.
Init ==
    /\ bin = Image /\ installed = {} /\ active = None
    /\ disk = NoConfig /\ probe = NoConfig
    /\ kstate = "STOPPED" /\ cmd = 0 /\ generation = 0
    /\ alive = {} /\ exited = {}
    /\ rpc = "idle" /\ rcfg = NoConfig /\ rgen = 0
    /\ ipc = "idle" /\ kernel = None /\ prev = None /\ igen = 0
    /\ baselineOK = FALSE /\ verdict = None /\ ctxUp = FALSE
    /\ budget = FaultBudget
-----------------------------------------------------------------------------
(* Starting and stopping, under the mutex                                  *)

\* The generation after stopLocked: bumped only if there is a process to stop.
StoppedGen == IF cmd = 0 THEN generation ELSE generation + 1

\* stopLocked leaves the dead process's waiter behind.
StoppedExited == exited \cup {p.gen : p \in alive}

\* stopLocked, then a startLocked that execs.
StopAndStart ==
    /\ disk # NoConfig /\ bin \notin NoStart
    /\ generation' = StoppedGen + 1
    /\ cmd' = StoppedGen + 1
    /\ alive' = {[gen |-> StoppedGen + 1, ver |-> bin, cfg |-> disk]}
    /\ exited' = StoppedExited
    /\ kstate' = "RUNNING"
    /\ UNCHANGED budget

\* stopLocked, then a startLocked that returns an error.
StopAndFail ==
    /\ \/ disk = NoConfig /\ kstate' = "STOPPED" /\ UNCHANGED budget
       \/ disk # NoConfig /\ bin \in NoStart /\ kstate' = "ERROR" /\ UNCHANGED budget
       \/ disk # NoConfig /\ bin \notin NoStart /\ kstate' = "ERROR" /\ Fault("start")
    /\ generation' = StoppedGen
    /\ cmd' = 0 /\ alive' = {}
    /\ exited' = StoppedExited

\* The process exits on its own: it was doomed, or a fault.
KernelExits ==
    /\ \E p \in alive :
        /\ \/ Doomed(p) /\ UNCHANGED budget
           \/ ~Doomed(p) /\ Fault("kernel")
        /\ alive' = alive \ {p}
        /\ exited' = exited \cup {p.gen}
    /\ UNCHANGED <<bin, probe, diskVars, kstate, cmd, generation, readerVars, installVars>>

\* Faults of IsCurrent: every waiter believes its exit is news, or none does.
IsCurrent_Always(g) == TRUE
IsCurrent_OffByOne(g) == generation = g + 1

\* Only the waiter of the current process may report a crash.
IsCurrent(g) == generation = g

\* A waiter gets the lock.
WaiterReports(g) ==
    /\ g \in exited
    /\ exited' = exited \ {g}
    /\ \/ IsCurrent(g) /\ kstate' = "ERROR" /\ cmd' = 0
       \/ ~IsCurrent(g) /\ UNCHANGED <<kstate, cmd>>
    /\ UNCHANGED <<bin, probe, diskVars, generation, alive, readerVars, installVars, budget>>
-----------------------------------------------------------------------------
(* The reader: Apply and Restart                                           *)

\* A ConfigPush: SetProbe, then Apply up to its test.  Identical content on a
\* running process is acknowledged; one that is rejected, or that the binary of
\* the moment cannot test, leaves everything alone.
ApplyTest(c) ==
    /\ rpc = "idle" /\ Spend("apply")
    /\ probe' = c
    /\ IF (kstate = "RUNNING" /\ disk = c) \/ c \in Rejected \/ bin \in NoStart
       THEN UNCHANGED <<rpc, rcfg>>
       ELSE rpc' = "tested" /\ rcfg' = c
    /\ UNCHANGED <<bin, diskVars, procVars, rgen, installVars>>

\* The tested file is renamed into place, without the lock.
ApplyRename ==
    /\ rpc = "tested"
    /\ disk' = rcfg /\ rpc' = "renamed"
    /\ UNCHANGED <<bin, probe, installed, active, procVars, rcfg, rgen, installVars, budget>>

\* Stop and start under the lock.
ApplyRestart ==
    /\ rpc = "renamed"
    /\ \/ /\ StopAndStart
          /\ rpc' = "settling" /\ rgen' = StoppedGen + 1 /\ UNCHANGED rcfg
       \/ /\ StopAndFail
          /\ rpc' = "idle" /\ rcfg' = NoConfig /\ UNCHANGED rgen
    /\ UNCHANGED <<bin, probe, diskVars, installVars>>

\* What staysUp sees when its window is over: a process started in between by
\* somebody else has not had the window to itself.
WindowOver(g) ==
    \/ kstate # "RUNNING"
    \/ generation # g
    \/ \A p \in alive : ~Doomed(p)

ApplySettle ==
    /\ rpc = "settling" /\ WindowOver(rgen)
    /\ cmd \in exited => kstate # "RUNNING"
    /\ rpc' = "idle" /\ rcfg' = NoConfig /\ rgen' = 0
    /\ UNCHANGED <<bin, probe, diskVars, procVars, installVars, budget>>

\* A restart command arrives ...
TakeRestart ==
    /\ rpc = "idle" /\ Spend("restart")
    /\ rpc' = "restarting"
    /\ UNCHANGED <<bin, probe, diskVars, procVars, rcfg, rgen, installVars>>

\* ... and is carried out under the lock.
Restart ==
    /\ rpc = "restarting" /\ rpc' = "idle"
    /\ StopAndStart \/ StopAndFail
    /\ UNCHANGED <<bin, probe, diskVars, rcfg, rgen, installVars>>
-----------------------------------------------------------------------------
(* The install goroutine                                                   *)

\* startInstall: the slot is claimed on the stream that carried the request.
InstallBegin(k) ==
    /\ ipc = "idle" /\ Spend("install")
    /\ ipc' = "fetch" /\ kernel' = k /\ ctxUp' = TRUE
    /\ UNCHANGED <<bin, probe, diskVars, procVars, readerVars, prev, igen, baselineOK, verdict>>

Conclude(v) == ipc' = "report" /\ verdict' = v

\* fetchAndUnpack unless the version is there; a staged install stops here.
Fetch ==
    /\ ipc = "fetch"
    /\ \/ installed' = installed \cup {kernel} /\ ipc' = "activate" /\ UNCHANGED verdict
       \/ installed' = installed \cup {kernel} /\ Conclude("INSTALLED")
       \/ kernel \notin installed /\ UNCHANGED installed /\ Conclude("FAILED")
    /\ UNCHANGED <<bin, probe, active, disk, procVars, readerVars, kernel, prev, igen,
                   baselineOK, ctxUp, budget>>

\* Whether a client could get online through the live kernel, by the probe held.
PathWorks == /\ probe # NoConfig
             /\ \E p \in alive : p.ver \notin NoTraffic /\ p.cfg = probe

\* DataPath succeeds, or not: no path, the panel gone, or the network's fault.
ProbeOK == PathWorks /\ UNCHANGED budget
ProbeFails == \/ (~PathWorks \/ ~ctxUp) /\ UNCHANGED budget
              \/ PathWorks /\ ctxUp /\ Fault("net")

\* Activate up to the swap: the baseline under the old binary, and one look at
\* whether the panel is still there.
Baseline ==
    /\ ipc = "activate"
    /\ prev' = bin
    /\ \/ bin = kernel /\ Conclude("INCONCLUSIVE") /\ UNCHANGED <<baselineOK, budget>>
       \/ /\ bin # kernel
          /\ (ProbeOK /\ baselineOK' = TRUE) \/ (ProbeFails /\ baselineOK' = FALSE)
          /\ \/ ctxUp /\ ipc' = "swap" /\ UNCHANGED verdict
             \/ ~ctxUp /\ Conclude("INCONCLUSIVE")
    /\ UNCHANGED <<bin, probe, diskVars, procVars, readerVars, kernel, igen, ctxUp>>

\* setBinary(bin)
Swap ==
    /\ ipc = "swap" /\ bin' = kernel /\ ipc' = "restart"
    /\ UNCHANGED <<probe, diskVars, procVars, readerVars, kernel, prev, igen, baselineOK,
                   verdict, ctxUp, budget>>

\* Restart into the new binary; an error goes straight back to the old one.
SwapRestart ==
    /\ ipc = "restart"
    /\ \/ StopAndStart /\ ipc' = "settling" /\ igen' = StoppedGen + 1
       \/ StopAndFail /\ ipc' = "revert" /\ UNCHANGED igen
    /\ UNCHANGED <<bin, probe, diskVars, readerVars, kernel, prev, baselineOK, verdict, ctxUp>>

\* staysUp: over with its window, or as soon as the stream is gone.
SwapSettle ==
    /\ ipc = "settling"
    /\ \/ /\ kstate # "RUNNING"
          /\ ipc' = "revert" /\ UNCHANGED verdict
       \/ /\ kstate = "RUNNING"
          /\ ~ctxUp \/ (WindowOver(igen) /\ cmd \notin exited)
          /\ IF baselineOK THEN ipc' = "probe" /\ UNCHANGED verdict
                           ELSE Conclude("INCONCLUSIVE")
    /\ UNCHANGED <<bin, probe, diskVars, procVars, readerVars, kernel, prev, igen,
                   baselineOK, ctxUp, budget>>

\* The same probe under the new binary.
SwapProbe ==
    /\ ipc = "probe"
    /\ \/ ProbeOK /\ Conclude("ACTIVE")
       \/ ProbeFails /\ ipc' = "revert" /\ UNCHANGED verdict
    /\ UNCHANGED <<bin, probe, diskVars, procVars, readerVars, kernel, prev, igen,
                   baselineOK, ctxUp>>

\* rollback: setBinary(prev) ...
Revert ==
    /\ ipc = "revert" /\ bin' = prev /\ ipc' = "rerestart"
    /\ UNCHANGED <<probe, diskVars, procVars, readerVars, kernel, prev, igen,
                   baselineOK, verdict, ctxUp, budget>>

\* A fault of RevertRestart: the old binary is set but the process is left.
RevertRestart_Forgets ==
    /\ ipc = "rerestart" /\ Conclude("ROLLED_BACK")
    /\ UNCHANGED <<bin, probe, diskVars, procVars, readerVars, kernel, prev, igen,
                   baselineOK, ctxUp, budget>>

\* ... and Restart, whose error is only logged.
RevertRestart ==
    /\ ipc = "rerestart" /\ Conclude("ROLLED_BACK")
    /\ StopAndStart \/ StopAndFail
    /\ UNCHANGED <<bin, probe, diskVars, readerVars, kernel, prev, igen, baselineOK, ctxUp>>

\* The version of the process; one that died unnoticed was started from bin, which
\* Prune keeps anyway.
RunningVersion == IF kstate = "RUNNING" THEN {p.ver : p \in alive} ELSE {}

\* A fault of Pruned: only the running kernel is kept.
Pruned_KeepsRunning == installed \cap (RunningVersion \cup {kernel})

\* What Prune(RunningVersion, BinaryVersion, version) leaves.
Pruned == installed \cap (RunningVersion \cup {bin, kernel})

\* SetActive: a kernel that was kept is recorded.
SetActive == IF verdict \in {"ACTIVE", "INCONCLUSIVE"} THEN kernel ELSE active

\* The end of startInstall's goroutine: SetActive for a kernel that was kept,
\* the report, Prune, and the slot is free.
FinishInstall ==
    /\ ipc = "report"
    /\ active' = SetActive
    /\ installed' = Pruned
    /\ ipc' = "idle" /\ kernel' = None /\ prev' = None /\ igen' = 0
    /\ baselineOK' = FALSE /\ verdict' = None /\ ctxUp' = FALSE
    /\ UNCHANGED <<bin, probe, disk, procVars, readerVars, budget>>

\* The stream the install runs on ends; the install itself goes on.
StreamBreaks ==
    /\ ctxUp /\ Fault("break")
    /\ ctxUp' = FALSE
    /\ UNCHANGED <<bin, probe, diskVars, procVars, readerVars, ipc, kernel, prev, igen,
                   baselineOK, verdict>>

\* The agent's process dies, takes its kernel along, and is started again: the
\* recorded kernel if it is there, and the persisted config if there is one.
AgentRestarts ==
    /\ Fault("agent")
    /\ bin' = ActiveBinary /\ probe' = NoConfig
    /\ exited' = {}
    /\ \/ /\ disk # NoConfig /\ ActiveBinary \notin NoStart
          /\ kstate' = "RUNNING" /\ cmd' = 1 /\ generation' = 1
          /\ alive' = {[gen |-> 1, ver |-> ActiveBinary, cfg |-> disk]}
       \/ /\ disk = NoConfig \/ ActiveBinary \in NoStart
          /\ kstate' = (IF disk = NoConfig THEN "STOPPED" ELSE "ERROR")
          /\ cmd' = 0 /\ generation' = 0 /\ alive' = {}
    /\ rpc' = "idle" /\ rcfg' = NoConfig /\ rgen' = 0
    /\ ipc' = "idle" /\ kernel' = None /\ prev' = None /\ igen' = 0
    /\ baselineOK' = FALSE /\ verdict' = None /\ ctxUp' = FALSE
    /\ UNCHANGED diskVars
-----------------------------------------------------------------------------
Reader == \/ \E c \in Configs : ApplyTest(c)
          \/ ApplyRename \/ ApplyRestart \/ ApplySettle \/ TakeRestart \/ Restart

Install == \/ \E k \in Kernels : InstallBegin(k)
           \/ Fetch \/ Baseline \/ Swap \/ SwapRestart \/ SwapSettle \/ SwapProbe
           \/ Revert \/ RevertRestart \/ FinishInstall

Next == \/ Reader \/ Install
        \/ KernelExits \/ StreamBreaks \/ AgentRestarts
        \/ \E g \in exited : WaiterReports(g)

Spec == Init /\ [][Next]_vars
-----------------------------------------------------------------------------
(* Properties                                                              *)

BinTypeOK ==
    /\ bin \in Kernels \cup {Image}
    /\ installed \subseteq Kernels /\ active \in Kernels \cup {None}
    /\ disk \in Configs \cup {NoConfig} /\ probe \in Configs \cup {NoConfig}

KernelTypeOK ==
    /\ kstate \in {"STOPPED", "RUNNING", "ERROR"}
    /\ cmd \in Nat /\ generation \in Nat /\ cmd <= generation
    /\ alive \subseteq Process /\ exited \subseteq Nat

ReaderTypeOK ==
    /\ rpc \in {"idle", "tested", "renamed", "settling", "restarting"}
    /\ rcfg \in Configs \cup {NoConfig} /\ rgen \in Nat

InstallTypeOK ==
    /\ ipc \in {"idle", "fetch", "activate", "swap", "restart", "settling", "probe",
                "revert", "rerestart", "report"}
    /\ kernel \in Kernels \cup {None} /\ prev \in Kernels \cup {Image, None}
    /\ igen \in Nat /\ baselineOK \in BOOLEAN /\ ctxUp \in BOOLEAN
    /\ verdict \in {None, "INSTALLED", "FAILED", "ACTIVE", "INCONCLUSIVE", "ROLLED_BACK"}

\* Every variable keeps its type.
TypeOK ==
    /\ BinTypeOK /\ KernelTypeOK /\ ReaderTypeOK /\ InstallTypeOK
    /\ budget \in [Faults -> Nat]

\* The only live kernel is the one Manager.cmd names and the state says is
\* running: however Apply, Activate, Restart and late waiters interleave, no
\* process is left that the next stop would not find (startLocked's generation
\* check, stopLocked).
NoOrphanKernel == \A p \in alive : p.gen = cmd /\ kstate = "RUNNING"

\* Conversely a kernel believed to be running is alive, or its waiter is on the
\* way to say otherwise.
DeathIsNoticed ==
    kstate = "RUNNING" => cmd # 0 /\ (cmd \in exited \/ \E p \in alive : p.gen = cmd)

\* "Installed" and "running" disagree only between a change of binary and the
\* restart that follows it (setBinary, Activate, rollback), whoever else
\* restarts the kernel meanwhile.
RunningIsInstalled ==
    ipc \notin {"restart", "rerestart"} => \A p \in alive : p.ver = bin

\* The binary the next start uses is never pruned away, and neither is the one
\* an activation under way may have to go back to (Prune, startInstall).
RollbackTargetKept ==
    /\ bin \in installed \cup {Image}
    /\ ipc \in {"swap", "restart", "settling", "probe", "revert", "rerestart"}
          => prev \in installed \cup {Image}

-----------------------------------------------------------------------------
(* What the code means to keep, and does not                               *)

=============================================================================
