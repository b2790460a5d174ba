-------------------------- MODULE XrayManagerProofs --------------------------
(* Proofs about XrayManager, for every value of its constants.             *)
EXTENDS XrayManager, TLAPS

(* One kernel, known to the manager.  NoOrphanKernel and DeathIsNoticed are   *)
(* not inductive: that a late waiter does no harm rests on what generations   *)
(* are, which is added here.                                                  *)

ProcTypeOK == cmd \in Nat /\ generation \in Nat /\ exited \subseteq Nat

\* The process the manager holds is the one it started last.
CmdIsNewest == cmd # 0 => kstate = "RUNNING" /\ cmd = generation

\* A waiter that is due is the waiter of a process already started, and dead.
WaitersAreOfTheDead ==
    /\ \A g \in exited : g <= generation
    /\ \A p \in alive : p.gen \notin exited

\* There is one process at most.
OneKernel == \A p, q \in alive : p = q

ProcInv ==
    /\ ProcTypeOK /\ CmdIsNewest /\ WaitersAreOfTheDead /\ OneKernel
    /\ NoOrphanKernel /\ DeathIsNoticed

\* No process yet.
LEMMA ProcInit == Init => ProcInv
  BY DEF Init, ProcInv, ProcTypeOK, CmdIsNewest, WaitersAreOfTheDead, OneKernel,
     NoOrphanKernel, DeathIsNoticed

\* What stopLocked leaves: a generation not less than any waiter's.
LEMMA Stopped ==
    ASSUME ProcInv
    PROVE  /\ StoppedGen \in Nat /\ StoppedExited \subseteq Nat
           /\ \A g \in StoppedExited : g <= StoppedGen
<1>1. /\ cmd \in Nat /\ generation \in Nat /\ exited \subseteq Nat
      /\ \A g \in exited : g <= generation
      /\ \A p \in alive : p.gen = cmd /\ cmd = generation
  BY DEF ProcInv, ProcTypeOK, CmdIsNewest, WaitersAreOfTheDead, NoOrphanKernel, DeathIsNoticed
<1>2. StoppedGen \in Nat /\ generation <= StoppedGen
  BY <1>1 DEF StoppedGen
<1>3. ASSUME NEW g \in StoppedExited PROVE g \in Nat /\ g <= generation
  <2>1. CASE g \in exited
    BY <1>1, <2>1
  <2>2. CASE \E p \in alive : g = p.gen
    BY <1>1, <2>2
  <2> QED
    BY <1>3, <2>1, <2>2 DEF StoppedExited
<1>4. \A g \in StoppedExited : g <= StoppedGen
  BY <1>1, <1>2, <1>3
<1> QED
  BY <1>2, <1>3, <1>4

\* Stopping and starting under the lock.
LEMMA StartKeeps == ASSUME ProcInv, StopAndStart PROVE ProcInv'
<1>1. /\ generation' = StoppedGen + 1 /\ cmd' = StoppedGen + 1 /\ kstate' = "RUNNING"
      /\ alive' = {[gen |-> StoppedGen + 1, ver |-> bin, cfg |-> disk]}
      /\ exited' = StoppedExited
  BY DEF StopAndStart
<1>2. \A p \in alive' : p.gen = StoppedGen + 1
  BY <1>1
<1>3. \E p \in alive' : p.gen = StoppedGen + 1
  BY <1>1
<1>4. ProcTypeOK' /\ CmdIsNewest'
  BY <1>1, Stopped DEF ProcTypeOK, CmdIsNewest
<1>5. WaitersAreOfTheDead'
  BY <1>1, <1>2, Stopped DEF WaitersAreOfTheDead
<1>6. NoOrphanKernel' /\ DeathIsNoticed' /\ OneKernel'
  BY <1>1, <1>2, <1>3, Stopped DEF NoOrphanKernel, DeathIsNoticed, OneKernel
<1> QED
  BY <1>4, <1>5, <1>6 DEF ProcInv

\* Stopping, and a start that fails.
LEMMA FailKeeps == ASSUME ProcInv, StopAndFail PROVE ProcInv'
<1>1. /\ generation' = StoppedGen /\ cmd' = 0 /\ alive' = {} /\ exited' = StoppedExited
      /\ kstate' \in {"STOPPED", "ERROR"}
  BY DEF StopAndFail
<1>2. ProcTypeOK' /\ CmdIsNewest' /\ WaitersAreOfTheDead'
  BY <1>1, Stopped DEF ProcTypeOK, CmdIsNewest, WaitersAreOfTheDead
<1>3. NoOrphanKernel' /\ DeathIsNoticed' /\ OneKernel'
  BY <1>1 DEF NoOrphanKernel, DeathIsNoticed, OneKernel
<1> QED
  BY <1>2, <1>3 DEF ProcInv

\* A process dies; its waiter is on the way.
LEMMA ExitKeeps == ASSUME ProcInv, KernelExits PROVE ProcInv'
<1>1. PICK p \in alive : alive' = alive \ {p} /\ exited' = exited \cup {p.gen}
  BY DEF KernelExits
<1>2. UNCHANGED <<kstate, cmd, generation>>
  BY DEF KernelExits
<1>3. p.gen = cmd /\ kstate = "RUNNING" /\ cmd \in Nat /\ cmd = generation
  BY <1>1 DEF ProcInv, ProcTypeOK, NoOrphanKernel, CmdIsNewest, DeathIsNoticed
<1>4. alive' = {}
  BY <1>1 DEF ProcInv, OneKernel
<1>5. ProcTypeOK' /\ CmdIsNewest' /\ NoOrphanKernel' /\ DeathIsNoticed' /\ OneKernel'
  BY <1>1, <1>2, <1>3, <1>4
     DEF ProcInv, ProcTypeOK, NoOrphanKernel, CmdIsNewest, DeathIsNoticed, OneKernel
<1>6. WaitersAreOfTheDead'
  BY <1>1, <1>2, <1>3, <1>4 DEF ProcInv, WaitersAreOfTheDead, ProcTypeOK
<1> QED
  BY <1>5, <1>6 DEF ProcInv

\* A waiter takes the lock: if its process is the newest one, that process is dead
\* and the state becomes ERROR; if not, the state is another process's business.
LEMMA WaiterKeeps == ASSUME ProcInv, NEW g, WaiterReports(g) PROVE ProcInv'
<1>1. g \in exited /\ exited' = exited \ {g} /\ UNCHANGED <<generation, alive>>
  BY DEF WaiterReports
<1>2. ProcTypeOK' /\ WaitersAreOfTheDead' /\ OneKernel'
  BY <1>1 DEF WaiterReports, ProcInv, ProcTypeOK, WaitersAreOfTheDead, OneKernel
<1>3. CASE IsCurrent(g)
  <2>1. kstate' = "ERROR" /\ cmd' = 0 /\ generation = g
    BY <1>3 DEF WaiterReports, IsCurrent
  <2>2. alive = {}
    BY <1>1, <2>1
       DEF ProcInv, ProcTypeOK, WaitersAreOfTheDead, NoOrphanKernel, CmdIsNewest, DeathIsNoticed
  <2> QED
    BY <1>1, <1>2, <2>1, <2>2 DEF ProcInv, CmdIsNewest, NoOrphanKernel, DeathIsNoticed
<1>4. CASE ~IsCurrent(g)
  <2>1. UNCHANGED <<kstate, cmd>> /\ generation # g
    BY <1>4 DEF WaiterReports, IsCurrent
  <2> QED
    BY <1>1, <1>2, <2>1 DEF ProcInv, CmdIsNewest, NoOrphanKernel, DeathIsNoticed
<1> QED
  BY <1>3, <1>4

\* A fresh agent: no waiters, and at most the one process it started.
LEMMA AgentKeeps == ASSUME ProcInv, AgentRestarts PROVE ProcInv'
<1> DEFINE fresh == [gen |-> 1, ver |-> ActiveBinary, cfg |-> disk]
<1>1. fresh.gen = 1
  OBVIOUS
<1> HIDE DEF fresh
<1>2. CASE /\ kstate' = "RUNNING" /\ cmd' = 1 /\ generation' = 1 /\ exited' = {}
           /\ alive' = {fresh}
  BY <1>1, <1>2 DEF ProcInv, ProcTypeOK, CmdIsNewest, WaitersAreOfTheDead, OneKernel,
     NoOrphanKernel, DeathIsNoticed
<1>3. CASE /\ kstate' \in {"STOPPED", "ERROR"} /\ cmd' = 0 /\ generation' = 0
           /\ exited' = {} /\ alive' = {}
  BY <1>3 DEF ProcInv, ProcTypeOK, CmdIsNewest, WaitersAreOfTheDead, OneKernel,
     NoOrphanKernel, DeathIsNoticed
<1> QED
  BY <1>2, <1>3 DEF AgentRestarts, fresh

\* Steps that leave the processes alone.
LEMMA ProcSame == ASSUME ProcInv, UNCHANGED procVars PROVE ProcInv'
  BY DEF procVars, ProcInv, ProcTypeOK, CmdIsNewest, WaitersAreOfTheDead, OneKernel,
     NoOrphanKernel, DeathIsNoticed

\* ProcInv is inductive.
LEMMA ProcStep == ASSUME ProcInv, [Next]_vars PROVE ProcInv'
<1>1. ASSUME Reader PROVE ProcInv'
  <2>1. ASSUME ApplyRestart \/ Restart PROVE StopAndStart \/ StopAndFail
    BY <2>1 DEF ApplyRestart, Restart
  <2>2. ASSUME NEW c \in Configs, ApplyTest(c) PROVE UNCHANGED procVars
    BY <2>2 DEF ApplyTest
  <2>3. ASSUME ApplyRename \/ ApplySettle \/ TakeRestart PROVE UNCHANGED procVars
    BY <2>3 DEF ApplyRename, ApplySettle, TakeRestart
  <2> QED
    BY <1>1, <2>1, <2>2, <2>3, StartKeeps, FailKeeps, ProcSame DEF Reader
<1>2. ASSUME Install PROVE ProcInv'
  <2>1. ASSUME SwapRestart \/ RevertRestart PROVE StopAndStart \/ StopAndFail
    BY <2>1 DEF SwapRestart, RevertRestart
  <2>2. ASSUME NEW k \in Kernels, InstallBegin(k) PROVE UNCHANGED procVars
    BY <2>2 DEF InstallBegin
  <2>3. ASSUME \/ Fetch \/ Baseline \/ Swap \/ SwapSettle \/ SwapProbe \/ Revert
               \/ FinishInstall
        PROVE  UNCHANGED procVars
    BY <2>3 DEF Fetch, Baseline, Swap, SwapSettle, SwapProbe, Revert, FinishInstall
  <2> QED
    BY <1>2, <2>1, <2>2, <2>3, StartKeeps, FailKeeps, ProcSame DEF Install
<1>3. ASSUME StreamBreaks \/ UNCHANGED vars PROVE UNCHANGED procVars
  BY <1>3 DEF StreamBreaks, vars
<1> QED
  BY <1>1, <1>2, <1>3, ExitKeeps, WaiterKeeps, AgentKeeps, ProcSame DEF Next

\* However Apply, Activate, Restart, deaths and late waiters interleave, the only
\* live kernel is the one the manager holds (startLocked, stopLocked).
THEOREM NoKernelIsOrphaned == Spec => []NoOrphanKernel
<1>1. ProcInv /\ [Next]_vars => ProcInv'
  BY ProcStep
<1>2. ProcInv => NoOrphanKernel
  BY DEF ProcInv
<1> QED
  BY <1>1, <1>2, ProcInit, PTL DEF Spec

\* A kernel believed to be running is alive, or its waiter is about to say
\* otherwise (the goroutine of startLocked).
THEOREM DeathsAreNoticed == Spec => []DeathIsNoticed
<1>1. ProcInv /\ [Next]_vars => ProcInv'
  BY ProcStep
<1>2. ProcInv => DeathIsNoticed
  BY DEF ProcInv
<1> QED
  BY <1>1, <1>2, ProcInit, PTL DEF Spec

-----------------------------------------------------------------------------
(* Binaries.  Types and what may be pruned depend on each other: a swap goes   *)
(* to a kernel that is installed, a rollback to a binary that still is.        *)

\* An install under way has a version, and from its activation on that version is
\* unpacked.
KernelReady ==
    /\ ipc = "fetch" => kernel \in Kernels
    /\ ipc \in {"activate", "swap"} => kernel \in installed

BinaryInv == TypeOK /\ ProcInv /\ KernelReady /\ RollbackTargetKept /\ RunningIsInstalled

\* Types and binaries at the start.
LEMMA BinaryInit == Init => BinaryInv
<1> SUFFICES ASSUME Init PROVE BinaryInv
  OBVIOUS
<1>1. BinTypeOK /\ KernelTypeOK /\ ReaderTypeOK /\ budget \in [Faults -> Nat]
  BY ManagerAssumption DEF Init, BinTypeOK, KernelTypeOK, ReaderTypeOK
<1>2. InstallTypeOK
  BY Zenon DEF Init, InstallTypeOK
<1>3. TypeOK
  BY <1>1, <1>2 DEF TypeOK
<1>4. ProcInv
  BY ProcInit
<1> QED
  BY <1>3, <1>4 DEF Init, BinaryInv, KernelReady, RollbackTargetKept, RunningIsInstalled

\* Budgets stay budgets.
LEMMA BudgetStep == ASSUME TypeOK, [Next]_vars PROVE budget' \in [Faults -> Nat]
<1>0. budget \in [Faults -> Nat]
  BY DEF TypeOK
<1>1. ASSUME NEW f \in Faults \ {"fault"}, Spend(f) \/ Fault(f)
      PROVE  budget' \in [Faults -> Nat]
  BY <1>0, <1>1 DEF Spend, Fault, Faults
<1>2. {"install", "apply", "restart", "break", "agent", "kernel", "start", "net"}
         \subseteq Faults \ {"fault"}
  BY DEF Faults
<1>3. ASSUME Reader
      PROVE  budget' = budget \/ Spend("apply") \/ Spend("restart") \/ Fault("start")
  BY <1>3 DEF Reader, ApplyTest, ApplyRename, ApplyRestart, ApplySettle, TakeRestart, Restart,
     StopAndStart, StopAndFail
<1>4. ASSUME Install
      PROVE  budget' = budget \/ Spend("install") \/ Fault("start") \/ Fault("net")
  <2>1. ASSUME \/ (\E k \in Kernels : InstallBegin(k)) \/ Fetch \/ Swap \/ SwapSettle \/ Revert
               \/ FinishInstall
        PROVE  budget' = budget \/ Spend("install")
    BY <2>1 DEF InstallBegin, Fetch, Swap, SwapSettle, Revert, FinishInstall
  <2>2. ASSUME SwapRestart \/ RevertRestart PROVE budget' = budget \/ Fault("start")
    BY <2>2 DEF SwapRestart, RevertRestart, StopAndStart, StopAndFail
  <2>3. ASSUME Baseline \/ SwapProbe PROVE budget' = budget \/ Fault("net")
    BY <2>3 DEF Baseline, SwapProbe, ProbeOK, ProbeFails
  <2> QED
    BY <1>4, <2>1, <2>2, <2>3 DEF Install
<1>5. ASSUME KernelExits \/ StreamBreaks \/ AgentRestarts
      PROVE  budget' = budget \/ Fault("kernel") \/ Fault("break") \/ Fault("agent")
  BY <1>5 DEF KernelExits, StreamBreaks, AgentRestarts
<1>6. ASSUME UNCHANGED vars \/ \E g \in exited : WaiterReports(g) PROVE budget' = budget
  BY <1>6 DEF vars, WaiterReports
<1> QED
  BY <1>0, <1>1, <1>2, <1>3, <1>4, <1>5, <1>6 DEF Next

\* Starts and failed starts, as far as types and the version that runs go.
LEMMA StartTyped ==
    ASSUME BinaryInv, StopAndStart \/ StopAndFail
    PROVE  KernelTypeOK' /\ \A p \in alive' : p.ver = bin
<1>0. ProcInv /\ BinTypeOK
  BY DEF BinaryInv, TypeOK
<1>1. StoppedGen \in Nat /\ StoppedExited \subseteq Nat
  BY <1>0, Stopped
<1>2. CASE StopAndStart
  <2> DEFINE p == [gen |-> StoppedGen + 1, ver |-> bin, cfg |-> disk]
  <2>1. p \in Process /\ p.ver = bin
    BY <1>0, <1>1, <1>2 DEF BinTypeOK, StopAndStart, Process
  <2>2. /\ alive' = {p} /\ kstate' = "RUNNING" /\ cmd' = StoppedGen + 1
        /\ generation' = StoppedGen + 1 /\ exited' = StoppedExited
    BY <1>2 DEF StopAndStart
  <2> HIDE DEF p
  <2> QED
    BY <1>1, <2>1, <2>2 DEF KernelTypeOK
<1>3. CASE StopAndFail
  BY <1>1, <1>3 DEF StopAndFail, KernelTypeOK
<1> QED
  BY <1>2, <1>3

\* Every step keeps the types of the processes.
LEMMA KernelTypeStep == ASSUME BinaryInv, [Next]_vars PROVE KernelTypeOK'
<1>0. KernelTypeOK /\ ProcInv /\ BinTypeOK
  BY DEF BinaryInv, TypeOK
<1>1. ASSUME UNCHANGED procVars PROVE KernelTypeOK'
  BY <1>0, <1>1 DEF KernelTypeOK, procVars
<1>2. ASSUME Reader PROVE KernelTypeOK'
  <2>1. ASSUME ApplyRestart \/ Restart PROVE StopAndStart \/ StopAndFail
    BY <2>1 DEF ApplyRestart, Restart
  <2>2. ASSUME NEW c \in Configs, ApplyTest(c) PROVE UNCHANGED procVars
    BY <2>2 DEF ApplyTest
  <2>3. ASSUME ApplyRename \/ ApplySettle \/ TakeRestart PROVE UNCHANGED procVars
    BY <2>3 DEF ApplyRename, ApplySettle, TakeRestart
  <2> QED
    BY <1>1, <1>2, <2>1, <2>2, <2>3, StartTyped DEF Reader
<1>3. ASSUME Install PROVE KernelTypeOK'
  <2>1. ASSUME SwapRestart \/ RevertRestart PROVE StopAndStart \/ StopAndFail
    BY <2>1 DEF SwapRestart, RevertRestart
  <2>2. ASSUME NEW k \in Kernels, InstallBegin(k) PROVE UNCHANGED procVars
    BY <2>2 DEF InstallBegin
  <2>3. ASSUME \/ Fetch \/ Baseline \/ Swap \/ SwapSettle \/ SwapProbe \/ Revert
               \/ FinishInstall
        PROVE  UNCHANGED procVars
    BY <2>3 DEF Fetch, Baseline, Swap, SwapSettle, SwapProbe, Revert, FinishInstall
  <2> QED
    BY <1>1, <1>3, <2>1, <2>2, <2>3, StartTyped DEF Install
<1>4. CASE KernelExits
  <2>1. PICK p \in alive : alive' = alive \ {p} /\ exited' = exited \cup {p.gen}
    BY <1>4 DEF KernelExits
  <2>2. p.gen \in Nat
    BY <1>0, <2>1 DEF KernelTypeOK, Process
  <2> QED
    BY <1>0, <1>4, <2>1, <2>2 DEF KernelExits, KernelTypeOK
<1>5. ASSUME NEW g \in exited, WaiterReports(g) PROVE KernelTypeOK'
  BY <1>0, <1>5 DEF WaiterReports, KernelTypeOK
<1>6. CASE AgentRestarts
  <2> DEFINE p == [gen |-> 1, ver |-> ActiveBinary, cfg |-> disk]
  <2>1. disk # NoConfig => p \in Process
    BY <1>0 DEF BinTypeOK, ActiveBinary, Process
  <2> HIDE DEF p
  <2>2. CASE /\ disk # NoConfig /\ kstate' = "RUNNING" /\ cmd' = 1 /\ generation' = 1
             /\ alive' = {p} /\ exited' = {}
    BY <2>1, <2>2 DEF KernelTypeOK
  <2>3. CASE /\ kstate' \in {"STOPPED", "ERROR"} /\ cmd' = 0 /\ generation' = 0
             /\ alive' = {} /\ exited' = {}
    BY <2>3 DEF KernelTypeOK
  <2> QED
    BY <1>6, <2>2, <2>3 DEF AgentRestarts, p
<1>7. ASSUME StreamBreaks \/ UNCHANGED vars PROVE UNCHANGED procVars
  BY <1>7 DEF StreamBreaks, vars
<1> QED
  BY <1>1, <1>2, <1>3, <1>4, <1>5, <1>6, <1>7 DEF Next

\* Every step keeps the types of the reader.
LEMMA ReaderTypeStep == ASSUME BinaryInv, [Next]_vars PROVE ReaderTypeOK'
<1>0. ReaderTypeOK /\ ProcInv
  BY DEF BinaryInv, TypeOK
<1>1. ASSUME Reader PROVE ReaderTypeOK'
  <2>1. StoppedGen + 1 \in Nat
    BY <1>0, Stopped
  <2>2. ASSUME NEW c \in Configs, ApplyTest(c) PROVE ReaderTypeOK'
    BY <1>0, <2>2 DEF ApplyTest, ReaderTypeOK
  <2>3. ASSUME ApplyRestart PROVE ReaderTypeOK'
    BY <1>0, <2>1, <2>3 DEF ApplyRestart, ReaderTypeOK
  <2>4. ASSUME ApplyRename \/ ApplySettle \/ TakeRestart \/ Restart PROVE ReaderTypeOK'
    BY <1>0, <2>4 DEF ApplyRename, ApplySettle, TakeRestart, Restart, ReaderTypeOK
  <2> QED
    BY <1>1, <2>2, <2>3, <2>4 DEF Reader
<1>2. ASSUME Install PROVE UNCHANGED readerVars
  BY <1>2 DEF Install, InstallBegin, Fetch, Baseline, Swap, SwapRestart, SwapSettle, SwapProbe,
     Revert, RevertRestart, FinishInstall
<1>3. ASSUME \/ KernelExits \/ StreamBreaks \/ UNCHANGED vars
             \/ \E g \in exited : WaiterReports(g)
      PROVE  UNCHANGED readerVars
  BY <1>3 DEF KernelExits, StreamBreaks, vars, WaiterReports
<1>4. ASSUME AgentRestarts PROVE ReaderTypeOK'
  BY <1>4 DEF AgentRestarts, ReaderTypeOK
<1>5. ASSUME UNCHANGED readerVars PROVE ReaderTypeOK'
  BY <1>0, <1>5 DEF readerVars, ReaderTypeOK
<1> QED
  BY <1>1, <1>2, <1>3, <1>4, <1>5 DEF Next

\* Every step keeps the types of the install.
LEMMA InstallTypeStep == ASSUME BinaryInv, [Next]_vars PROVE InstallTypeOK'
<1>0. InstallTypeOK /\ ProcInv /\ BinTypeOK
  BY DEF BinaryInv, TypeOK
<1>1. ASSUME Install PROVE InstallTypeOK'
  <2>1. StoppedGen + 1 \in Nat
    BY <1>0, Stopped
  <2>2. ASSUME NEW k \in Kernels, InstallBegin(k) PROVE InstallTypeOK'
    BY <1>0, <2>2 DEF InstallBegin, InstallTypeOK
  <2>3. ASSUME Fetch \/ Swap \/ SwapSettle \/ SwapProbe \/ Revert \/ RevertRestart
        PROVE  InstallTypeOK'
    BY <1>0, <2>3
       DEF Fetch, Swap, SwapSettle, SwapProbe, Revert, RevertRestart, Conclude, InstallTypeOK
  <2>4. ASSUME Baseline PROVE InstallTypeOK'
    BY <1>0, <2>4 DEF Baseline, Conclude, BinTypeOK, InstallTypeOK
  <2>5. ASSUME SwapRestart PROVE InstallTypeOK'
    BY <1>0, <2>1, <2>5 DEF SwapRestart, InstallTypeOK
  <2>6. ASSUME FinishInstall PROVE InstallTypeOK'
    BY <1>0, <2>6 DEF FinishInstall, InstallTypeOK
  <2> QED
    BY <1>1, <2>2, <2>3, <2>4, <2>5, <2>6 DEF Install
<1>2. ASSUME Reader PROVE UNCHANGED installVars
  BY <1>2 DEF Reader, ApplyTest, ApplyRename, ApplyRestart, ApplySettle, TakeRestart, Restart
<1>3. ASSUME KernelExits \/ UNCHANGED vars \/ \E g \in exited : WaiterReports(g)
      PROVE  UNCHANGED installVars
  BY <1>3 DEF KernelExits, vars, WaiterReports
<1>4. ASSUME StreamBreaks \/ AgentRestarts PROVE InstallTypeOK'
  <2>1. CASE StreamBreaks
    BY <1>0, <2>1 DEF StreamBreaks, InstallTypeOK
  <2>2. CASE AgentRestarts
    <3>1. /\ ipc' = "idle" /\ kernel' = None /\ prev' = None /\ igen' = 0
          /\ baselineOK' = FALSE /\ verdict' = None /\ ctxUp' = FALSE
      BY <2>2 DEF AgentRestarts
    <3> QED
      BY <3>1, Zenon DEF InstallTypeOK
  <2> QED
    BY <1>4, <2>1, <2>2
<1>5. ASSUME UNCHANGED installVars PROVE InstallTypeOK'
  BY <1>0, <1>5 DEF installVars, InstallTypeOK
<1> QED
  BY <1>1, <1>2, <1>3, <1>4, <1>5 DEF Next

Kept == BinTypeOK /\ KernelReady /\ RollbackTargetKept

\* Every step keeps what the next start and a rollback need.
LEMMA KeptStep == ASSUME BinaryInv, [Next]_vars PROVE Kept'
<1>0. /\ BinTypeOK /\ ReaderTypeOK /\ InstallTypeOK
      /\ KernelReady /\ RollbackTargetKept
  BY DEF BinaryInv, TypeOK
<1>1. ASSUME NEW k \in Kernels, InstallBegin(k) PROVE Kept'
  BY <1>0, <1>1 DEF InstallBegin, diskVars, Kept, BinTypeOK, KernelReady, RollbackTargetKept
<1>2. CASE Fetch
  <2>1. /\ ipc = "fetch" /\ ipc' \in {"activate", "report"}
        /\ installed' \in {installed, installed \cup {kernel}}
        /\ ipc' = "activate" => kernel \in installed'
        /\ UNCHANGED <<bin, active, disk, probe, kernel>>
    BY <1>2 DEF Fetch, Conclude
  <2>2. kernel \in Kernels
    BY <1>0, <2>1 DEF KernelReady
  <2> QED
    BY <1>0, <2>1, <2>2 DEF Kept, BinTypeOK, KernelReady, RollbackTargetKept
<1>3. CASE Baseline
  <2>1. /\ ipc = "activate" /\ ipc' \in {"swap", "report"} /\ prev' = bin
        /\ UNCHANGED <<bin, installed, active, disk, probe, kernel>>
    BY <1>3 DEF Baseline, Conclude, diskVars
  <2> QED
    BY <1>0, <2>1 DEF Kept, BinTypeOK, KernelReady, RollbackTargetKept
<1>4. CASE Swap
  BY <1>0, <1>4 DEF Swap, diskVars, Kept, BinTypeOK, KernelReady, RollbackTargetKept
<1>5. CASE Revert
  <2>1. prev \in installed \cup {Image}
    BY <1>0, <1>5 DEF Revert, RollbackTargetKept
  <2> QED
    BY <1>0, <1>5, <2>1 DEF Revert, diskVars, Kept, BinTypeOK, KernelReady, RollbackTargetKept
<1>6. CASE SwapRestart \/ SwapSettle \/ SwapProbe \/ RevertRestart
  <2>1. /\ ipc \in {"restart", "settling", "probe", "rerestart"}
        /\ ipc' \in {"settling", "revert", "probe", "report"}
        /\ UNCHANGED <<bin, installed, active, disk, probe, kernel, prev>>
    BY <1>6 DEF SwapRestart, SwapSettle, SwapProbe, RevertRestart, Conclude, diskVars
  <2> QED
    BY <1>0, <2>1 DEF Kept, BinTypeOK, KernelReady, RollbackTargetKept
<1>7. CASE FinishInstall
  <2>1. /\ ipc' = "idle" /\ UNCHANGED <<bin, probe, disk>>
        /\ active' \in {active, kernel}
        /\ installed' = installed \cap (RunningVersion \cup {bin, kernel})
    BY <1>7 DEF FinishInstall, SetActive, Pruned
  <2> QED
    BY <1>0, <2>1 DEF Kept, BinTypeOK, InstallTypeOK, KernelReady, RollbackTargetKept
<1>8. ASSUME NEW c \in Configs, ApplyTest(c) PROVE Kept'
  BY <1>0, <1>8
     DEF ApplyTest, diskVars, installVars, Kept, BinTypeOK, KernelReady, RollbackTargetKept
<1>9. CASE ApplyRename
  BY <1>0, <1>9
     DEF ApplyRename, installVars, ReaderTypeOK, Kept, BinTypeOK, KernelReady, RollbackTargetKept
<1>10. CASE AgentRestarts
  BY <1>0, <1>10
     DEF AgentRestarts, ActiveBinary, diskVars, Kept, BinTypeOK, KernelReady, RollbackTargetKept
<1>11. ASSUME UNCHANGED <<bin, probe, diskVars, ipc, kernel, prev>> PROVE Kept'
  BY <1>0, <1>11 DEF diskVars, Kept, BinTypeOK, KernelReady, RollbackTargetKept
<1>12. ASSUME \/ ApplyRestart \/ ApplySettle \/ TakeRestart \/ Restart \/ KernelExits
              \/ StreamBreaks \/ UNCHANGED vars \/ \E g \in exited : WaiterReports(g)
       PROVE  UNCHANGED <<bin, probe, diskVars, ipc, kernel, prev>>
  BY <1>12 DEF ApplyRestart, ApplySettle, TakeRestart, Restart, KernelExits, StreamBreaks, vars,
     WaiterReports, installVars
<1> QED
  BY <1>1, <1>2, <1>3, <1>4, <1>5, <1>6, <1>7, <1>8, <1>9, <1>10, <1>11, <1>12
     DEF Next, Reader, Install

\* Every step keeps the running version and the installed one together, except
\* between a change of binary and its restart.
LEMMA RunningStep == ASSUME BinaryInv, [Next]_vars PROVE RunningIsInstalled'
<1>0. RunningIsInstalled
  BY DEF BinaryInv
<1>1. ASSUME StopAndStart \/ StopAndFail, UNCHANGED bin PROVE RunningIsInstalled'
  BY <1>1, StartTyped DEF RunningIsInstalled
<1>2. ASSUME ApplyRestart \/ Restart \/ SwapRestart \/ RevertRestart
      PROVE  (StopAndStart \/ StopAndFail) /\ UNCHANGED bin
  BY <1>2 DEF ApplyRestart, Restart, SwapRestart, RevertRestart
<1>3. ASSUME Swap \/ Revert PROVE RunningIsInstalled'
  BY <1>3 DEF Swap, Revert, RunningIsInstalled
<1>4. CASE AgentRestarts
  BY <1>4 DEF AgentRestarts, RunningIsInstalled
<1>5. ASSUME alive' \subseteq alive, UNCHANGED bin,
             ipc \in {"restart", "rerestart"} => ipc' = ipc
      PROVE  RunningIsInstalled'
  BY <1>0, <1>5 DEF RunningIsInstalled
<1>6. ASSUME \/ (\E c \in Configs : ApplyTest(c)) \/ ApplyRename \/ ApplySettle
             \/ TakeRestart \/ StreamBreaks \/ UNCHANGED vars
             \/ \E g \in exited : WaiterReports(g)
      PROVE  UNCHANGED <<alive, bin, ipc>>
  BY <1>6 DEF ApplyTest, ApplyRename, ApplySettle, TakeRestart, StreamBreaks, vars, WaiterReports,
     procVars, installVars
<1>7. ASSUME \/ (\E k \in Kernels : InstallBegin(k)) \/ Fetch \/ Baseline \/ SwapSettle
             \/ SwapProbe \/ FinishInstall
      PROVE  UNCHANGED <<alive, bin>> /\ ipc \notin {"restart", "rerestart"}
  BY <1>7 DEF InstallBegin, Fetch, Baseline, SwapSettle, SwapProbe, FinishInstall, procVars
<1>8. ASSUME KernelExits PROVE alive' \subseteq alive /\ UNCHANGED <<bin, ipc>>
  BY <1>8 DEF KernelExits, installVars
<1> QED
  BY <1>1, <1>2, <1>3, <1>4, <1>5, <1>6, <1>7, <1>8 DEF Next, Reader, Install

\* BinaryInv is inductive.
LEMMA BinaryStep == ASSUME BinaryInv, [Next]_vars PROVE BinaryInv'
<1>1. TypeOK'
  BY KernelTypeStep, ReaderTypeStep, InstallTypeStep, KeptStep, BudgetStep
     DEF TypeOK, Kept, BinaryInv
<1>2. ProcInv'
  BY ProcStep DEF BinaryInv
<1> QED
  BY <1>1, <1>2, KeptStep, RunningStep DEF BinaryInv, Kept

\* For any kernels, configs and faults, every variable keeps its type.
THEOREM TypeCorrect == Spec => []TypeOK
<1>1. BinaryInv => TypeOK
  BY DEF BinaryInv
<1> QED
  BY <1>1, BinaryInit, BinaryStep, PTL DEF Spec

\* The kernel that runs is the installed one, except between a change of binary and
\* the restart that follows it, whoever else restarts the kernel (Activate, rollback).
THEOREM RunningKernelIsInstalled == Spec => []RunningIsInstalled
<1>1. BinaryInv => RunningIsInstalled
  BY DEF BinaryInv
<1> QED
  BY <1>1, BinaryInit, BinaryStep, PTL DEF Spec

\* The binary of the next start, and the one an activation may have to go back to,
\* are never pruned (Prune, startInstall).
THEOREM RollbackTargetIsKept == Spec => []RollbackTargetKept
<1>1. BinaryInv => RollbackTargetKept
  BY DEF BinaryInv
<1> QED
  BY <1>1, BinaryInit, BinaryStep, PTL DEF Spec
==============================================================================
