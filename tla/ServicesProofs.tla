--------------------------- MODULE ServicesProofs ---------------------------
(* Proofs about what the panel reports and relays: alerts, addresses online, the agent's   *)
(* stream and the kernels it keeps, for every set of nodes, addresses and builds, and for  *)
(* every debounce and life.                                                                *)
EXTENDS Services, TLAPS

-----------------------------------------------------------------------------
(* Alerts *)

AlertRow == [announced : BOOLEAN, observed : BOOLEAN, since : 0..Debounce, exists : BOOLEAN]

\* node_alert_state, the counter of the history, and the order between them: the clock of a
\* row never runs ahead of what the sweeps have seen.
RowsKept ==
    /\ row \in [Watched -> AlertRow]
    /\ steady \in [Watched -> 0..Debounce]
    /\ up \in [Watched -> BOOLEAN]
    /\ \A n \in Watched : row[n].since <= steady[n]

\* The sweep under way: while it announces, what it has still to announce has settled, and
\* the row still says what the sweep read.
SweepKept ==
    /\ sweep = [pc |-> sweep.pc, todo |-> sweep.todo, states |-> sweep.states, to |-> sweep.to,
                left |-> sweep.left]
    /\ sweep.pc \in {"asleep", "observe", "announce", "notify"}
    /\ sweep.pc \in {"announce", "notify"} => \A n \in Watched : n \in sweep.todo =>
          steady[n] >= Debounce /\ row[n].observed = sweep.states[n].observed

\* The inductive invariant of Alerts.
AlertsInv == RowsKept /\ SweepKept

\* Nothing has been observed at first.
LEMMA AlertsInitial == AlertsInit => AlertsInv
<1> USE AlertsAssumption
<1> QED  BY SMT DEF AlertsInit, AlertsInv, RowsKept, SweepKept, NoRow, Asleep, AlertRow

\* An interval passes: every clock is an interval older, up to Debounce, and so is the history.
LEMMA SweepSafe == ASSUME AlertsInv, Sweep PROVE AlertsInv'
<1> USE AlertsAssumption DEF AlertsInv
<1>1. \A n \in Watched : /\ row'[n].announced = row[n].announced
                         /\ row'[n].observed = row[n].observed
                         /\ row'[n].exists = row[n].exists
                         /\ row'[n].since = Older(row[n].since)
                         /\ row'[n] \in AlertRow
  BY DEF Sweep, RowsKept, Older, AlertRow
<1>2. row' \in [Watched -> AlertRow]
  BY <1>1 DEF Sweep
<1>4. /\ steady' \in [Watched -> 0..Debounce] /\ up' \in [Watched -> BOOLEAN]
      /\ \A n \in Watched : steady'[n] = Older(steady[n])
  BY DEF RowsKept, Sweep, Older
<1>5. \A n \in Watched : /\ row[n].since \in 0..Debounce /\ steady[n] \in 0..Debounce
                         /\ row[n].since <= steady[n]
  BY DEF RowsKept, AlertRow
<1>6. \A n \in Watched : row'[n].since <= steady'[n]
  BY <1>1, <1>4, <1>5 DEF Older
<1>7. RowsKept'
  BY <1>2, <1>4, <1>6 DEF RowsKept
<1>3. SweepKept'
  BY DEF SweepKept, Sweep, Asleep
<1> QED  BY <1>7, <1>3

\* ObserveNode: a first sighting or a changed one starts both clocks again.
LEMMA ObserveSafe ==
    ASSUME AlertsInv, NEW n \in Watched, Observe(n)
    PROVE  AlertsInv'
<1> USE AlertsAssumption DEF AlertsInv
<1>a. PICK r \in AlertRow : r = row[n]
  BY DEF RowsKept
<1>b. PICK b \in BOOLEAN : b = up[n]
  BY Zenon DEF RowsKept
<1>c. steady[n] \in 0..Debounce /\ r.since <= steady[n]
  BY <1>a DEF RowsKept
<1>d. PICK o : o = ObserveNode(r, b)
  OBVIOUS
<1>e. /\ o = [announced |-> o.announced, observed |-> o.observed, since |-> o.since,
              exists |-> o.exists]
      /\ o.since \in 0..Debounce
      /\ o.since <= IF r.observed = b THEN steady[n] ELSE 0
  <2>0. /\ r = [announced |-> r.announced, observed |-> r.observed, since |-> r.since,
                exists |-> r.exists]
        /\ r.since \in 0..Debounce
    BY DEF AlertRow
  <2>1. CASE ~ r.exists
    <3>1. o = [announced |-> b, observed |-> b, since |-> 0, exists |-> TRUE]
      BY <1>d, <2>1 DEF ObserveNode
    <3> QED  BY <3>1, <1>c
  <2>2. CASE r.exists
    <3>1. o = [r EXCEPT !.observed = b, !.since = IF r.observed = b THEN @ ELSE 0]
      BY <1>d, <2>2 DEF ObserveNode
    <3>2. PICK k : k = IF r.observed = b THEN r.since ELSE 0
      OBVIOUS
    <3>3. o = [announced |-> r.announced, observed |-> b, since |-> k, exists |-> r.exists]
      BY <3>1, <3>2, <2>0
    <3> QED  BY <3>2, <3>3, <2>0, <1>c
  <2> QED  BY <2>1, <2>2
<1>f. o.announced \in BOOLEAN /\ o.observed \in BOOLEAN /\ o.exists \in BOOLEAN
  <2>0. r.announced \in BOOLEAN /\ r.exists \in BOOLEAN
    BY DEF AlertRow
  <2>1. o.observed = b
    BY <1>d DEF ObserveNode, AlertRow
  <2>2. o.announced \in {b, r.announced} /\ o.exists \in {TRUE, r.exists}
    BY <1>d DEF ObserveNode, AlertRow
  <2> QED  BY <2>0, <2>1, <2>2, Zenon
<1>1. o \in AlertRow
  BY <1>e, <1>f DEF AlertRow
<1>2. /\ row' = [row EXCEPT ![n] = o]
      /\ steady' = [steady EXCEPT ![n] = IF r.observed = b THEN @ ELSE 0]
      /\ up' = up
  BY <1>a, <1>b, <1>d DEF Observe
<1>3. RowsKept'
  BY <1>1, <1>2, <1>c, <1>e DEF RowsKept
<1>4. SweepKept'
  BY DEF SweepKept, Observe
<1> QED  BY <1>3, <1>4

\* NodeAlertStates: what is put on the list has held for Debounce.
LEMMA ReadStatesSafe == ASSUME AlertsInv, ReadStates PROVE AlertsInv'
<1> USE AlertsAssumption DEF AlertsInv
<1>1. RowsKept'
  BY DEF RowsKept, ReadStates
<1>2. \A n \in Watched : n \in sweep'.todo => /\ row[n].since >= Debounce
                                              /\ sweep'.states[n] = row[n]
  BY DEF ReadStates, SweepKept, RowsKept, AlertRow, skip
<1>3. \A n \in Watched : row[n].since <= steady[n] /\ row[n].since \in Int /\ steady[n] \in Int
  BY DEF RowsKept, AlertRow
<1>4. \A n \in Watched : n \in sweep'.todo => steady[n] >= Debounce
  BY <1>2, <1>3
<1>5. /\ sweep'.pc = "announce" /\ UNCHANGED <<row, steady>>
      /\ sweep' = [pc |-> sweep'.pc, todo |-> sweep'.todo, states |-> sweep'.states,
                   to |-> sweep'.to, left |-> sweep'.left]
  BY DEF SweepKept, ReadStates
<1>6. SweepKept'
  BY <1>2, <1>4, <1>5 DEF SweepKept
<1> QED  BY <1>1, <1>6

\* MarkAnnounced writes another column.
LEMMA MarkAnnouncedSafe ==
    ASSUME AlertsInv, NEW n \in Watched, MarkAnnounced(n)
    PROVE  AlertsInv'
<1> USE AlertsAssumption DEF AlertsInv
<1>0. sweep.states[n].observed = row[n].observed
  BY DEF MarkAnnounced, SweepKept
<1>1. /\ row' = [row EXCEPT ![n].announced = row[n].observed]
      /\ \A m \in Watched : /\ row'[m].observed = row[m].observed
                            /\ row'[m].since = row[m].since
                            /\ row'[m] \in AlertRow
  BY <1>0 DEF MarkAnnounced, RowsKept, AlertRow, AlertRow
<1>2. RowsKept'
  BY <1>1 DEF RowsKept, MarkAnnounced
<1>3. SweepKept'
  BY <1>1 DEF SweepKept, MarkAnnounced
<1> QED  BY <1>2, <1>3

\* Deliveries, the end of a sweep, sessions, targets and restarts leave the rows alone.
LEMMA RestOfAlertsSafe ==
    ASSUME AlertsInv,
           \/ SweepEnds \/ CoreRestarts \/ UNCHANGED avarsAlerts
           \/ \E t \in Targets, ok \in BOOLEAN : Deliver(t, ok)
           \/ \E n \in Watched : Flip(n)
           \/ \E t \in Targets : \/ createAlertTarget(t) \/ deleteAlertTarget(t)
                                 \/ \E b \in BOOLEAN : updateAlertTarget(t, b) \/ testAlertTarget(t, b)
    PROVE  AlertsInv'
<1> USE AlertsAssumption DEF AlertsInv
<1>1. UNCHANGED <<row, steady>> /\ up' \in [Watched -> BOOLEAN]
  BY DEF SweepEnds, CoreRestarts, avarsAlerts, Deliver, Flip, createAlertTarget, deleteAlertTarget,
         updateAlertTarget, testAlertTarget, RowsKept
<1>2. \/ sweep' = sweep \/ sweep' = Asleep
      \/ \E t \in Targets : /\ sweep.pc = "notify"
                            /\ sweep' = [sweep EXCEPT !.left = sweep.left \ {t},
                                  !.pc = IF sweep.left \ {t} = {} THEN "announce" ELSE "notify"]
  BY DEF SweepEnds, CoreRestarts, avarsAlerts, Deliver, Flip, createAlertTarget, deleteAlertTarget,
         updateAlertTarget, testAlertTarget
<1>3. RowsKept'
  BY <1>1 DEF RowsKept
<1>4. CASE sweep' = sweep
  BY <1>1, <1>4 DEF SweepKept, RowsKept
<1>5. CASE sweep' = Asleep
  BY <1>3, <1>5 DEF SweepKept, Asleep
<1>6. CASE \E t \in Targets : /\ sweep.pc = "notify"
                            /\ sweep' = [sweep EXCEPT !.left = sweep.left \ {t},
                                  !.pc = IF sweep.left \ {t} = {} THEN "announce" ELSE "notify"]
  <2>1. /\ sweep' = [pc |-> sweep'.pc, todo |-> sweep'.todo, states |-> sweep'.states,
                     to |-> sweep'.to, left |-> sweep'.left]
        /\ sweep'.todo = sweep.todo /\ sweep'.states = sweep.states
        /\ sweep'.pc \in {"announce", "notify"} /\ sweep.pc = "notify"
    BY <1>6 DEF SweepKept
  <2>2. SweepKept'
    BY <1>1, <2>1 DEF SweepKept
  <2> QED  BY <1>3, <2>2
<1> QED  BY <1>2, <1>3, <1>4, <1>5, <1>6

\* "A flapping link would otherwise generate a message per heartbeat": OnlySettledAnnounced,
\* for every number of nodes and every debounce, restarts of Core included.
THEOREM SettledBeforeAnnounced == AlertsSpec => []OnlySettledAnnounced
<1>1. AlertsInit => AlertsInv
  BY AlertsInitial
<1>2. AlertsInv /\ [AlertsNext]_avarsAlerts => AlertsInv'
  BY SweepSafe, ObserveSafe, ReadStatesSafe, MarkAnnouncedSafe, RestOfAlertsSafe
     DEF AlertsNext, SweepStep
<1>3. AlertsInv => OnlySettledAnnounced
  BY DEF AlertsInv, SweepKept, OnlySettledAnnounced
<1> QED  BY <1>1, <1>2, <1>3, PTL DEF AlertsSpec

-----------------------------------------------------------------------------
(* Addresses online *)

OnlineTyped ==
    /\ seen \in [Reporters -> SUBSET Addresses]
    /\ current \in [Reporters -> Nat] /\ accepted \in [Reporters -> Nat]
    /\ ending \subseteq Reporters \X Nat
    /\ sighting \subseteq [of : Addresses, node : Reporters, age : 0..Ttl]
    /\ device \in [Addresses -> 0..Never]

\* The row of an address was refreshed no longer than DeviceRefreshInterval before the sighting.
DevicesKeepUp == \A s \in sighting : device[s.of] <= RecordEvery + s.age

\* The inductive invariant of Online.
OnlineInv == OnlineTyped /\ GoneIsForgotten /\ DevicesKeepUp

\* No sighting at first.
LEMMA OnlineInitial == OnlineInit => OnlineInv
BY OnlineAssumption DEF OnlineInit, OnlineInv, OnlineTyped, GoneIsForgotten, DevicesKeepUp, Never

\* A node with a stream of its own, or with one that is ending, stays so unless it is cleaned up.
LEMMA StreamsSafe ==
    ASSUME OnlineInv, UNCHANGED <<sighting, device>>, seen' \in [Reporters -> SUBSET Addresses],
           \/ \E n \in Reporters : Attach(n) \/ StreamLost(n)
           \/ UNCHANGED <<current, accepted, ending>>
    PROVE  OnlineInv'
<1> USE OnlineAssumption DEF OnlineInv
<1>1. OnlineTyped'
  BY DEF OnlineTyped, Attach, StreamLost, Never
<1>2. \A n \in Reporters : (current[n] # 0 \/ \E h \in ending : h[1] = n) =>
          (current'[n] # 0 \/ \E h \in ending' : h[1] = n)
  <2>1. ASSUME NEW m \in Reporters, Attach(m)
        PROVE  ending \subseteq ending' /\ \A n \in Reporters : current[n] # 0 => current'[n] # 0
    BY <2>1 DEF OnlineTyped, Attach
  <2>2. ASSUME NEW m \in Reporters, StreamLost(m)
        PROVE  /\ ending \subseteq ending' /\ <<m, current[m]>> \in ending'
               /\ \A n \in Reporters \ {m} : current'[n] = current[n]
    BY <2>2 DEF OnlineTyped, StreamLost
  <2>3. \A m : <<m, current[m]>>[1] = m
    OBVIOUS
  <2> QED  BY <2>1, <2>2, <2>3
<1>3. GoneIsForgotten'
  BY <1>2 DEF GoneIsForgotten, OnlineTyped
<1>4. DevicesKeepUp'
  BY DEF DevicesKeepUp
<1> QED  BY <1>1, <1>3, <1>4

\* Forget: the node's sightings go with the stream.
LEMMA CleanupSafe ==
    ASSUME OnlineInv, NEW h \in ending, Cleanup(h)
    PROVE  OnlineInv'
<1> USE OnlineAssumption DEF OnlineInv
<1>1. OnlineTyped'
  BY DEF OnlineTyped, Cleanup, Forget, Never
<1>2. GoneIsForgotten'
  BY DEF GoneIsForgotten, Cleanup, Forget
<1>3. DevicesKeepUp'
  BY DEF DevicesKeepUp, Cleanup, Forget
<1> QED  BY <1>1, <1>2, <1>3

\* recordOnline: what the node saw is refreshed in the record, or was so lately.
LEMMA ReportSafe ==
    ASSUME OnlineInv, NEW n \in Reporters, NEW obs \in SUBSET Addresses, Report(n, obs)
    PROVE  OnlineInv'
<1> USE OnlineAssumption DEF OnlineInv
<1>1. PICK tie \in SUBSET obs : sighting' = Replace(n, obs, tie)
  BY DEF Report
<1>2. \A s \in sighting' : \/ s \in sighting
                           \/ s.of \in obs /\ s = [of |-> s.of, node |-> n, age |-> 0]
  BY <1>1 DEF Replace, newer
<1>3. \A a \in Addresses : /\ device'[a] = IF a \in obs THEN RecordDevice(device[a]) ELSE device[a]
                           /\ RecordDevice(device[a]) \in 0..Never
                           /\ RecordDevice(device[a]) <= device[a]
                           /\ RecordDevice(device[a]) <= RecordEvery
  BY DEF Report, RecordDevice, OnlineTyped, Never
<1>4. device' \in [Addresses -> 0..Never]
  BY <1>3 DEF Report, OnlineTyped
<1>5. sighting' \subseteq [of : Addresses, node : Reporters, age : 0..Ttl]
  BY <1>2 DEF OnlineTyped
<1>6. OnlineTyped'
  BY <1>4, <1>5 DEF OnlineTyped, Report
<1>7. GoneIsForgotten'
  BY <1>2 DEF GoneIsForgotten, Report
<1>8. ASSUME NEW s \in sighting' PROVE device'[s.of] <= RecordEvery + s.age
  <2>1. s.of \in Addresses /\ s.age \in Nat /\ device[s.of] \in Int /\ device'[s.of] \in Int
    BY <1>4, <1>5 DEF OnlineTyped, Never
  <2>2. CASE s \in sighting
    BY <1>3, <2>1, <2>2 DEF DevicesKeepUp
  <2>3. CASE s.of \in obs /\ s = [of |-> s.of, node |-> n, age |-> 0]
    BY <1>3, <2>1, <2>3
  <2> QED  BY <1>2, <2>2, <2>3
<1> QED  BY <1>6, <1>7, <1>8 DEF DevicesKeepUp

\* An interval passes, for sightings and rows alike.
LEMMA PruneTickSafe == ASSUME OnlineInv, PruneTick PROVE OnlineInv'
<1> USE OnlineAssumption DEF OnlineInv
<1>1. \A s \in sighting' : \E t \in sighting :
          s.of = t.of /\ s.node = t.node /\ s.age = t.age + 1 /\ s.age <= Ttl
          /\ s = [of |-> s.of, node |-> s.node, age |-> s.age]
  <2> SUFFICES ASSUME NEW s \in sighting'
               PROVE  \E t \in sighting :
                          s.of = t.of /\ s.node = t.node /\ s.age = t.age + 1 /\ s.age <= Ttl
                          /\ s = [of |-> s.of, node |-> s.node, age |-> s.age]
    OBVIOUS
  <2>1. PICK t \in sighting : s = [t EXCEPT !.age = @ + 1] /\ s.age <= Ttl
    BY DEF PruneTick
  <2>2. t = [of |-> t.of, node |-> t.node, age |-> t.age]
    BY DEF OnlineTyped
  <2>3. s = [of |-> t.of, node |-> t.node, age |-> t.age + 1]
    BY <2>1, <2>2
  <2> QED  BY <2>1, <2>3
<1>2. \A a \in Addresses : device'[a] = Age(device[a], Never) /\ device[a] \in 0..Never
  BY DEF PruneTick, OnlineTyped
<1>3. device' \in [Addresses -> 0..Never]
  BY <1>2 DEF PruneTick, Age, Never
<1>4. sighting' \subseteq [of : Addresses, node : Reporters, age : 0..Ttl]
  BY <1>1 DEF OnlineTyped
<1>5. OnlineTyped'
  BY <1>3, <1>4 DEF OnlineTyped, PruneTick
<1>6. GoneIsForgotten'
  BY <1>1 DEF GoneIsForgotten, PruneTick
<1>7. ASSUME NEW s \in sighting' PROVE device'[s.of] <= RecordEvery + s.age
  <2>1. PICK t \in sighting : s.of = t.of /\ s.age = t.age + 1
    BY <1>1
  <2>2. t.of \in Addresses /\ t.age \in Nat /\ device[t.of] <= RecordEvery + t.age
    BY DEF OnlineTyped, DevicesKeepUp
  <2> QED  BY <1>2, <2>1, <2>2 DEF Age, Never
<1> QED  BY <1>5, <1>6, <1>7 DEF DevicesKeepUp

\* A sighting belongs to a node some handler still speaks for, and what is counted is in
\* the record an operator reads later: for every number of nodes, streams and addresses and
\* every retention longer than the refresh interval and the life of a sighting together.
THEOREM OnlineIsTrue == OnlineSpec => [](GoneIsForgotten /\ OnlineIsRecorded)
<1>1. OnlineInit => OnlineInv
  BY OnlineInitial
<1>2. OnlineInv /\ [OnlineNext]_ovars => OnlineInv'
  <2> SUFFICES ASSUME OnlineInv, [OnlineNext]_ovars PROVE OnlineInv'
    OBVIOUS
  <2>0. seen \in [Reporters -> SUBSET Addresses]
    BY DEF OnlineInv, OnlineTyped
  <2>1. CASE PruneTick
    BY <2>1, PruneTickSafe
  <2>2. CASE \E n \in Reporters : Attach(n) \/ StreamLost(n)
    BY <2>0, <2>2, StreamsSafe DEF Attach, StreamLost
  <2>3. CASE \E n \in Reporters : ReportRound(n) \/ ReportPartial(n) \/ ReportLate(n)
    <3>1. \E n \in Reporters, obs \in SUBSET Addresses : Report(n, obs)
      BY <2>0, <2>3 DEF ReportRound, ReportPartial, ReportLate
    <3> QED  BY <3>1, ReportSafe
  <2>4. CASE \E n \in Reporters : \E S \in SUBSET Addresses : Connections(n, S)
    BY <2>0, <2>4, StreamsSafe DEF Connections
  <2>5. CASE \E h \in ending : Cleanup(h)
    BY <2>5, CleanupSafe
  <2>6. CASE UNCHANGED ovars
    BY <2>0, <2>6, StreamsSafe DEF ovars
  <2> QED  BY <2>1, <2>2, <2>3, <2>4, <2>5, <2>6 DEF OnlineNext
<1>3. OnlineInv => GoneIsForgotten /\ OnlineIsRecorded
  BY OnlineAssumption DEF OnlineInv, OnlineTyped, DevicesKeepUp, OnlineIsRecorded, Never
<1> QED  BY <1>1, <1>2, <1>3, PTL DEF OnlineSpec

\* What the panel says of a node is so (ReportsAreTrue): both services together.
THEOREM ReportsHold == AlertsSpec /\ OnlineSpec => []ReportsAreTrue
<1>1. OnlySettledAnnounced /\ (GoneIsForgotten /\ OnlineIsRecorded) => ReportsAreTrue
  BY DEF ReportsAreTrue
<1> QED  BY <1>1, SettledBeforeAnnounced, OnlineIsTrue, PTL

-----------------------------------------------------------------------------
(* The agent's stream *)

KindsOfFrame == {"idle", "gone", "recv", "event", "report", "push", "policy", "command", "install",
                 "ack", "status", "ask", "chunk"}
Frames == [kind : KindsOfFrame, version : Versions \cup {NoVersion}, offset : Nat]

\* What travels is a frame, and a relay request names a version and an offset.
FramesTyped ==
    /\ sendCh \in Seq(Frames) /\ inbound \in Seq(Frames)
    /\ writer \in Frames /\ receiver \in Frames
    /\ asked \subseteq (Versions \cup {NoVersion}) \X Nat

\* The install and the buffer of one between it and the receiver, which holds chunks only.
InstallTyped ==
    /\ install \in [version : Versions \cup {NoVersion}, stream : Nat,
                    step : {"none", "ask", "wait", "whole"}, got : Seq(Frames)]
    /\ stream \in Nat
    /\ chunk \in Seq(Frames) /\ \A i \in 1..Len(chunk) : chunk[i].kind = "chunk"

\* The inductive invariant of AgentStream.
StreamInv == FramesTyped /\ InstallTyped /\ ArchiveInOrder

\* The frames the agent and Core make are frames.
LEMMA FramesMade ==
    /\ \A k \in KindsOfFrame : Frame(k) \in Frames
    /\ \A v \in Versions \cup {NoVersion}, o \in Nat : Ask(v, o) \in Frames /\ Piece(v, o) \in Frames
    /\ \A v \in Versions : [Frame("install") EXCEPT !.version = v] \in Frames
    /\ Waiting \in Frames /\ Ended \in Frames /\ Recv \in Frames
BY DEF Frames, Frame, Ask, Piece, Waiting, Ended, Recv, KindsOfFrame

\* Nothing has been written at first.
LEMMA StreamInitial == StreamInit => StreamInv
<1> SUFFICES ASSUME StreamInit PROVE StreamInv
  OBVIOUS
<1>1. FramesTyped
  BY FramesMade DEF StreamInit, FramesTyped
<1>2. InstallTyped /\ ArchiveInOrder
  BY DEF StreamInit, InstallTyped, ArchiveInOrder, NoInstall
<1> QED  BY <1>1, <1>2 DEF StreamInv

\* A step that touches neither the install nor the buffer only has to move frames.
LEMMA OnlyFramesMove ==
    ASSUME StreamInv, FramesTyped', UNCHANGED <<install, chunk>>, stream' \in Nat
    PROVE  StreamInv'
BY DEF StreamInv, InstallTyped, ArchiveInOrder, Piece

\* The stream, the writer, the timers and Core's frames.
LEMMA TrafficSafe ==
    ASSUME StreamInv,
           \/ Open \/ Break \/ Sent \/ RecvFails \/ TakeFrame \/ TakeEvent \/ SendFails \/ RecvFrame
           \/ CoreStep \/ AskChunk \/ UNCHANGED wvars
           \/ \E r \in Reports : ReportDue(r) \/ ReportPut(r)
    PROVE  StreamInv'
<1> USE FramesMade
<1>0. FramesTyped /\ stream \in Nat
  BY DEF StreamInv, InstallTyped
<1>1. CASE Open \/ Break \/ RecvFails
  <2>1. /\ sendCh' \in {sendCh, <<>>} /\ inbound' \in {inbound, <<>>} /\ asked' = asked
        /\ writer' \in {writer, Waiting, Ended} /\ receiver' \in {receiver, Recv}
        /\ UNCHANGED <<install, chunk>> /\ stream' \in Nat
    BY <1>0, <1>1 DEF Open, Break, RecvFails
  <2>2. <<>> \in Seq(Frames)
    OBVIOUS
  <2>3. sendCh' \in Seq(Frames) /\ inbound' \in Seq(Frames)
    BY <1>0, <2>1, <2>2 DEF FramesTyped
  <2>4. FramesTyped'
    BY <1>0, <2>1, <2>3 DEF FramesTyped
  <2> QED  BY <2>1, <2>4, OnlyFramesMove
<1>2. CASE Sent
  <2>1. asked' \subseteq (Versions \cup {NoVersion}) \X Nat
    BY <1>0, <1>2 DEF Sent, FramesTyped, Frames
  <2> QED  BY <1>0, <1>2, <2>1, OnlyFramesMove DEF Sent, FramesTyped
<1>3. CASE TakeFrame
  BY <1>0, <1>3, OnlyFramesMove DEF TakeFrame, FramesTyped
<1>4. CASE TakeEvent
  BY <1>0, <1>4, OnlyFramesMove DEF TakeEvent, FramesTyped, KindsOfFrame
<1>5. CASE SendFails
  BY <1>0, <1>5, OnlyFramesMove DEF SendFails, FramesTyped
<1>6. CASE RecvFrame
  BY <1>0, <1>6, OnlyFramesMove DEF RecvFrame, FramesTyped
<1>7. ASSUME NEW f \in Frames, Arrives(f), asked' \subseteq asked PROVE StreamInv'
  BY <1>0, <1>7, OnlyFramesMove DEF Arrives, FramesTyped
<1>8. CASE CoreStep
  <2>1. CASE Pushed \/ Policy \/ Command
    BY <1>7, <2>1 DEF Pushed, Policy, Command, KindsOfFrame
  <2>2. CASE \E v \in Versions : Order(v)
    BY <1>7, <2>2 DEF Order
  <2>3. CASE \E a \in asked : Answer(a)
    <3>1. PICK a \in asked : Answer(a)
      BY <2>3
    <3>2. Piece(a[1], a[2]) \in Frames
      BY <1>0 DEF FramesTyped
    <3> QED  BY <1>7, <3>1, <3>2 DEF Answer
  <2> QED  BY <1>8, <2>1, <2>2, <2>3 DEF CoreStep
<1>9. CASE AskChunk
  <2>0. install.version \in Versions \cup {NoVersion} /\ install.got \in Seq(Frames)
    BY DEF StreamInv, InstallTyped
  <2>1. Ask(install.version, Offset) \in Frames
    <3>1. Offset \in Nat
      BY <2>0 DEF Offset
    <3> QED  BY <2>0, <3>1
  <2>2. FramesTyped'
    BY <1>0, <1>9, <2>1 DEF AskChunk, trySend, FramesTyped
  <2>3. install' = [install EXCEPT !.step = "wait"] /\ UNCHANGED <<chunk, stream>>
    BY <1>9 DEF AskChunk
  <2>4. InstallTyped'
    BY <2>3 DEF StreamInv, InstallTyped
  <2>5. install'.got = install.got /\ install'.version = install.version
    BY <2>3 DEF StreamInv, InstallTyped
  <2>6. ArchiveInOrder'
    BY <2>5 DEF StreamInv, ArchiveInOrder, Piece
  <2> QED  BY <2>2, <2>4, <2>6 DEF StreamInv
<1>10. CASE UNCHANGED wvars
  BY <1>0, <1>10, OnlyFramesMove DEF wvars, FramesTyped
<1>11. CASE \E r \in Reports : ReportDue(r) \/ ReportPut(r)
  BY <1>0, <1>11, OnlyFramesMove DEF ReportDue, ReportPut, trySend, FramesTyped, KindsOfFrame
<1> QED  BY <1>1, <1>2, <1>3, <1>4, <1>5, <1>6, <1>8, <1>9, <1>10, <1>11

\* The receiver's turn: a chunk goes to the buffer, an install order starts with an empty one.
LEMMA HandleFrameSafe == ASSUME StreamInv, handleFrame PROVE StreamInv'
<1> USE FramesMade
<1>0. FramesTyped /\ InstallTyped /\ ArchiveInOrder
  BY DEF StreamInv
<1>1. FramesTyped'
  <2>1. /\ receiver' = Recv /\ UNCHANGED <<writer, inbound, asked>>
        /\ \/ sendCh' = sendCh
           \/ \E k \in {"ack", "status"} : sendCh' = Append(sendCh, Frame(k))
    BY DEF handleFrame, trySend
  <2>2. \A k \in {"ack", "status"} : Frame(k) \in Frames
    BY DEF KindsOfFrame
  <2>3. sendCh' \in Seq(Frames)
    BY <1>0, <2>1, <2>2 DEF FramesTyped
  <2> QED  BY <1>0, <2>1, <2>3 DEF FramesTyped
<1>2. CASE UNCHANGED <<install, chunk>>
  BY <1>0, <1>1, <1>2, OnlyFramesMove DEF handleFrame, InstallTyped
<1>3. CASE receiver.kind = "chunk" /\ deliver(receiver) /\ UNCHANGED install
  <2>1. InstallTyped'
    BY <1>0, <1>3 DEF InstallTyped, FramesTyped, deliver, handleFrame
  <2>2. ArchiveInOrder'
    BY <1>0, <1>3 DEF ArchiveInOrder, Piece
  <2> QED  BY <1>1, <2>1, <2>2 DEF StreamInv
<1>4. CASE /\ install' = [NoInstall EXCEPT !.version = receiver.version, !.stream = stream, !.step = "ask"]
           /\ chunk' = <<>>
  <2>1. install' = [version |-> receiver.version, stream |-> stream, step |-> "ask", got |-> <<>>]
    BY <1>4 DEF NoInstall
  <2>2. receiver.version \in Versions \cup {NoVersion}
    BY <1>0 DEF FramesTyped, Frames
  <2>3. InstallTyped'
    <3>1. install' \in [version : Versions \cup {NoVersion}, stream : Nat,
                        step : {"none", "ask", "wait", "whole"}, got : Seq(Frames)]
      BY <1>0, <2>1, <2>2 DEF InstallTyped
    <3>2. stream' \in Nat /\ chunk' \in Seq(Frames) /\ Len(chunk') = 0
      BY <1>0, <1>4 DEF InstallTyped, handleFrame
    <3> QED  BY <3>1, <3>2 DEF InstallTyped
  <2>4. ArchiveInOrder'
    BY <2>1 DEF ArchiveInOrder
  <2> QED  BY <1>1, <2>3, <2>4 DEF StreamInv
<1> QED  BY <1>2, <1>3, <1>4 DEF handleFrame

\* streamRelay.Chunk takes a reply only for the version and the offset it asked for.
LEMMA TakeChunkSafe == ASSUME StreamInv, TakeChunk PROVE StreamInv'
<1>0. FramesTyped /\ InstallTyped /\ ArchiveInOrder
  BY DEF StreamInv
<1>1. FramesTyped'
  BY <1>0 DEF TakeChunk, FramesTyped
<1>2. PICK c \in Frames : c = chunk[1] /\ c.kind = "chunk"
  BY <1>0 DEF TakeChunk, InstallTyped
<1>3. CASE ~ accepts(c)
  <2>1. install' = install /\ chunk' = <<>> /\ stream' = stream
    BY <1>2, <1>3 DEF TakeChunk
  <2> QED  BY <1>0, <1>1, <2>1 DEF StreamInv, InstallTyped, ArchiveInOrder, Piece
<1>4. CASE accepts(c)
  <2>1. PICK got : got = Append(install.got, c)
    OBVIOUS
  <2>2. /\ install' = [install EXCEPT !.got = got,
                                      !.step = IF Len(got) = Chunks THEN "whole" ELSE "ask"]
        /\ chunk' = <<>> /\ stream' = stream
    BY <1>2, <1>4, <2>1 DEF TakeChunk
  <2>3. /\ install.got \in Seq(Frames) /\ got \in Seq(Frames)
        /\ Len(got) = Len(install.got) + 1 /\ got[Len(got)] = c
        /\ \A i \in 1..Len(install.got) : got[i] = install.got[i]
    BY <1>0, <2>1 DEF InstallTyped
  <2>4. c = Piece(install.version, Len(install.got))
    BY <1>2, <1>4 DEF accepts, Offset, Piece, Frames
  <2>5. install'.got = got /\ install'.version = install.version
    BY <1>0, <2>2 DEF InstallTyped
  <2>6. InstallTyped'
    <3>1. install' \in [version : Versions \cup {NoVersion}, stream : Nat,
                        step : {"none", "ask", "wait", "whole"}, got : Seq(Frames)]
      BY <1>0, <2>2, <2>3 DEF InstallTyped
    <3>2. stream' \in Nat /\ chunk' \in Seq(Frames) /\ Len(chunk') = 0
      BY <1>0, <2>2 DEF InstallTyped
    <3> QED  BY <3>1, <3>2 DEF InstallTyped
  <2>7. ASSUME NEW i \in 1..Len(got) PROVE got[i] = Piece(install.version, i - 1)
    <3>1. CASE i = Len(got)
      BY <2>3, <2>4, <3>1
    <3>2. CASE i \in 1..Len(install.got)
      BY <1>0, <2>3, <3>2 DEF ArchiveInOrder
    <3> QED  BY <2>3, <3>1, <3>2
  <2>8. ArchiveInOrder'
    BY <2>5, <2>7 DEF ArchiveInOrder, Piece
  <2> QED  BY <1>1, <2>6, <2>8 DEF StreamInv
<1> QED  BY <1>3, <1>4

\* An install that ends leaves nothing behind.
LEMMA InstallEndsSafe == ASSUME StreamInv, InstallEnds PROVE StreamInv'
BY DEF StreamInv, FramesTyped, InstallTyped, ArchiveInOrder, InstallEnds, NoInstall

\* The bytes written into an archive are those of the version being installed, each chunk
\* once and in order (ArchiveInOrder): for every number of chunks, versions, streams and
\* frames in flight, and however late the answers to an abandoned transfer arrive.
THEOREM ArchiveWritten == StreamSpec => []ArchiveInOrder
<1>1. StreamInit => StreamInv
  BY StreamInitial
<1>2. StreamInv /\ [StreamNext]_wvars => StreamInv'
  BY TrafficSafe, HandleFrameSafe, TakeChunkSafe, InstallEndsSafe DEF StreamNext, AgentStreamStep
<1>3. StreamInv => ArchiveInOrder
  BY DEF StreamInv
<1> QED  BY <1>1, <1>2, <1>3, PTL DEF StreamSpec

-----------------------------------------------------------------------------
(* Kernels the panel keeps *)

Downloading == {"download", "copy", "check", "rename"}
Unpacking == {"remove", "swap", "scan", "scanned", "ask", "rescan", "rescanned"}
Rescanning == {"swap", "scan", "scanned", "rescan", "rescanned"}

\* A call: nothing, or a relay request or an install of an archive; only an install unpacks.
CallKept(f) ==
    /\ \/ f = [step |-> f.step, kind |-> f.kind, of |-> f.of]
       \/ f = [step |-> f.step, kind |-> f.kind, of |-> f.of, found |-> f.found]
    /\ f.step \in {"free", "lock", "verify", "join", "wait", "read", "unpack"} \cup Downloading \cup Unpacking
    /\ f.step = "free" => f.kind = "none"
    /\ f.step # "free" => f.kind \in {"install", "relay"} /\ f.of \in Archives
    /\ f.step \in {"lock", "unpack"} \cup Unpacking => f.kind = "install"
    /\ f.kind = "install" => f.of[2] = CorePlatform

CallsKept ==
    /\ fetcher = [w \in Fetchers |-> fetcher[w]]
    /\ \A w \in Fetchers : CallKept(fetcher[w])
    /\ archive = [a \in Archives |-> archive[a]] /\ part = [a \in Archives |-> part[a]]
    /\ flight = [a \in Archives |-> flight[a]]
    /\ unpacked = [b \in Builds |-> unpacked[b]]

\* inflight: a call that downloads an archive is the one registered for it...
OneDownload == \A w \in Fetchers : fetcher[w].step \in Downloading => flight[fetcher[w].of] = w

\* ...so that nobody else touches the file it has verified before it is renamed.
VerifiedStays == \A w \in Fetchers : fetcher[w].step = "rename" => part[fetcher[w].of] = "whole"

\* The inductive invariant of the cached archives.
CacheInv == CallsKept /\ OneDownload /\ VerifiedStays /\ ArchivesWhole

\* Installing one version at a time, under its lock: one call past the lock, and what it
\* found when it scanned is what is there.
InstallsAlone ==
    /\ \A v, w \in Fetchers : fetcher[v].kind = "install" /\ fetcher[w].kind = "install" =>
          /\ fetcher[v].of = fetcher[w].of
          /\ fetcher[v].step # "lock" /\ fetcher[w].step # "lock" => v = w
    /\ \A w \in Fetchers : fetcher[w].step \in {"scanned", "rescanned"} => fetcher[w].found = Readable

\* The registry lags behind the directory only while such a call is rescanning.
ScansKeepUp ==
    (\A w \in Fetchers : fetcher[w].step \notin Rescanning) => scanned = Readable

\* The steps of a call do not change what it is about.
LEMMA StepKeepsCall ==
    ASSUME NEW f, CallKept(f), NEW t
    PROVE  LET g == [f EXCEPT !.step = t] IN
           /\ g.step = t /\ g.kind = f.kind /\ g.of = f.of
           /\ \/ g = [step |-> g.step, kind |-> g.kind, of |-> g.of]
              \/ g = [step |-> g.step, kind |-> g.kind, of |-> g.of, found |-> g.found]
<1>1. CASE f = [step |-> f.step, kind |-> f.kind, of |-> f.of]
  <2>1. [f EXCEPT !.step = t] = [step |-> t, kind |-> f.kind, of |-> f.of]
    BY <1>1
  <2> QED  BY <2>1
<1>2. CASE f = [step |-> f.step, kind |-> f.kind, of |-> f.of, found |-> f.found]
  <2>1. [f EXCEPT !.step = t] = [step |-> t, kind |-> f.kind, of |-> f.of, found |-> f.found]
    BY <1>2
  <2> QED  BY <2>1
<1> QED  BY <1>1, <1>2 DEF CallKept

\* A free call is one.
LEMMA FreeKept == CallKept(Free)
BY DEF CallKept, Free, Downloading, Unpacking

\* Goto: the call of one fetcher moves on, the others are where they were.
LEMMA GotoKeeps ==
    ASSUME CallsKept, NEW w \in Fetchers, NEW t, Goto(w, t)
    PROVE  /\ fetcher' = [v \in Fetchers |-> fetcher'[v]]
           /\ \A v \in Fetchers : v # w => fetcher'[v] = fetcher[v]
           /\ fetcher'[w].step = t /\ fetcher'[w].kind = fetcher[w].kind
           /\ fetcher'[w].of = fetcher[w].of
           /\ (/\ fetcher[w].step # "free"
               /\ t \in {"verify", "join", "wait", "read"} \cup Downloading \/
                  (t \in {"unpack"} \cup Unpacking /\ fetcher[w].kind = "install"))
              => \A v \in Fetchers : CallKept(fetcher'[v])
<1>1. PICK f : f = fetcher[w] /\ CallKept(f)
  BY DEF CallsKept
<1>2. PICK g : g = [f EXCEPT !.step = t]
  OBVIOUS
<1>3. fetcher' = [fetcher EXCEPT ![w] = g]
  BY <1>1, <1>2 DEF Goto
<1>4. /\ fetcher' = [v \in Fetchers |-> fetcher'[v]] /\ fetcher'[w] = g
      /\ \A v \in Fetchers : v # w => fetcher'[v] = fetcher[v]
  BY <1>3 DEF CallsKept
<1>5. /\ g.step = t /\ g.kind = f.kind /\ g.of = f.of
      /\ \/ g = [step |-> g.step, kind |-> g.kind, of |-> g.of]
         \/ g = [step |-> g.step, kind |-> g.kind, of |-> g.of, found |-> g.found]
  BY <1>1, <1>2, StepKeepsCall
<1>6. ASSUME f.step # "free",
             t \in {"verify", "join", "wait", "read"} \cup Downloading \/
                (t \in {"unpack"} \cup Unpacking /\ f.kind = "install")
      PROVE  CallKept(g)
  BY <1>1, <1>5, <1>6 DEF CallKept, Downloading, Unpacking
<1> QED  BY <1>1, <1>4, <1>5, <1>6 DEF CallsKept

\* Finish: the same for a call that ends.
LEMMA FinishKeeps ==
    ASSUME CallsKept, NEW w \in Fetchers, Finish(w)
    PROVE  /\ fetcher' = [v \in Fetchers |-> fetcher'[v]]
           /\ \A v \in Fetchers : v # w => fetcher'[v] = fetcher[v]
           /\ fetcher'[w].step = "free" /\ fetcher'[w].kind = "none"
           /\ \A v \in Fetchers : CallKept(fetcher'[v])
<1>1. fetcher' = [fetcher EXCEPT ![w] = Free]
  BY DEF Finish
<1>2. /\ fetcher' = [v \in Fetchers |-> fetcher'[v]] /\ fetcher'[w] = Free
      /\ \A v \in Fetchers : v # w => fetcher'[v] = fetcher[v]
  BY <1>1 DEF CallsKept
<1> QED  BY <1>2, FreeKept DEF CallsKept, Free

\* The files are untouched, and no call comes to download, relay or unpack one.
LEMMA FilesAlone ==
    ASSUME CacheInv, UNCHANGED <<archive, part, flight>>,
           fetcher' = [w \in Fetchers |-> fetcher'[w]], \A w \in Fetchers : CallKept(fetcher'[w]),
           unpacked' = [b \in Builds |-> unpacked'[b]],
           \A w \in Fetchers : fetcher'[w] = fetcher[w] \/
               fetcher'[w].step \notin Downloading \cup {"read", "unpack"}
    PROVE  CacheInv'
<1>1. CallsKept'
  BY DEF CacheInv, CallsKept
<1>2. OneDownload' /\ VerifiedStays' /\ ArchivesWhole'
  BY DEF CacheInv, OneDownload, VerifiedStays, ArchivesWhole, Downloading, At
<1> QED  BY <1>1, <1>2 DEF CacheInv

\* Callers, waiting, unpacking and scanning: no archive is written.
LEMMA CallersKeepFiles ==
    ASSUME CacheInv, NEW w \in Fetchers,
           \/ \E b \in Builds : Install(w, b)
           \/ \E a \in Archives : HandleRelayRequest(w, a)
           \/ installLock(w) \/ GivesUp(w) \/ ReadChunk(w)
           \/ \E ok \in BOOLEAN : Unpack(w, ok)
           \/ RemoveFinal(w) \/ SwapIn(w) \/ Rescan(w) \/ Scanned(w) \/ For(w)
    PROVE  CacheInv'
<1> USE CacheAssumption
<1>0. CallsKept /\ CallKept(fetcher[w]) /\ unpacked = [b \in Builds |-> unpacked[b]]
  BY DEF CacheInv, CallsKept
<1>1. CASE \E b \in Builds : Install(w, b)
  <2>1. PICK b \in Builds : Install(w, b)
    BY <1>1
  <2>2. PICK f : f = [step |-> "lock", kind |-> "install", of |-> <<b, CorePlatform>>]
    OBVIOUS
  <2>3. fetcher' = [fetcher EXCEPT ![w] = f]
    <3>1. [Call("install", <<b, CorePlatform>>) EXCEPT !.step = "lock"] = f
      BY <2>2 DEF Call
    <3> QED  BY <2>1, <3>1 DEF Install
  <2>4. CallKept(f) /\ f.step = "lock"
    BY <2>2 DEF CallKept, Archives, Downloading, Unpacking
  <2>5. /\ fetcher' = [v \in Fetchers |-> fetcher'[v]] /\ fetcher'[w] = f
        /\ \A v \in Fetchers : v # w => fetcher'[v] = fetcher[v]
    BY <1>0, <2>3 DEF CallsKept
  <2> QED  BY <1>0, <2>1, <2>4, <2>5, FilesAlone DEF Install, CallsKept, Downloading
<1>2. CASE \E a \in Archives : HandleRelayRequest(w, a)
  <2>1. PICK a \in Archives : HandleRelayRequest(w, a)
    BY <1>2
  <2>2. PICK f : f = [step |-> "verify", kind |-> "relay", of |-> a]
    OBVIOUS
  <2>3. fetcher' = [fetcher EXCEPT ![w] = f]
    BY <2>1, <2>2 DEF HandleRelayRequest, Call
  <2>4. CallKept(f) /\ f.step = "verify"
    BY <2>2 DEF CallKept, Archives, Downloading, Unpacking
  <2>5. /\ fetcher' = [v \in Fetchers |-> fetcher'[v]] /\ fetcher'[w] = f
        /\ \A v \in Fetchers : v # w => fetcher'[v] = fetcher[v]
    BY <1>0, <2>3 DEF CallsKept
  <2> QED  BY <1>0, <2>1, <2>4, <2>5, FilesAlone DEF HandleRelayRequest, CallsKept, Downloading
<1>3. ASSUME Finish(w), UNCHANGED <<archive, part, flight, unpacked>> PROVE CacheInv'
  BY <1>0, <1>3, FinishKeeps, FilesAlone DEF Downloading
<1>4. ASSUME NEW t \in {"verify"} \cup Unpacking, Goto(w, t), fetcher[w].step # "free",
             t \in Unpacking => fetcher[w].kind = "install",
             UNCHANGED <<archive, part, flight>>, unpacked' = [b \in Builds |-> unpacked'[b]]
      PROVE CacheInv'
  <2>1. t \notin Downloading \cup {"read", "unpack"}
    BY DEF Downloading, Unpacking
  <2> QED  BY <1>0, <1>4, <2>1, GotoKeeps, FilesAlone
<1>5. CASE installLock(w)
  <2>1. /\ UNCHANGED <<archive, part, flight, unpacked>> /\ fetcher[w].step = "lock"
        /\ Goto(w, "verify") \/ Finish(w)
    BY <1>5 DEF installLock, At
  <2>2. "verify" \notin Unpacking
    BY DEF Unpacking
  <2> QED  BY <1>0, <1>3, <1>4, <2>1, <2>2
<1>6. CASE GivesUp(w) \/ ReadChunk(w)
  BY <1>3, <1>6 DEF GivesUp, ReadChunk
<1>7. CASE \E ok \in BOOLEAN : Unpack(w, ok)
  <2>1. UNCHANGED <<archive, part, flight, unpacked>> /\ fetcher[w].step = "unpack"
    BY <1>7 DEF Unpack, At
  <2>2. Goto(w, "remove") \/ Finish(w)
    BY <1>7 DEF Unpack
  <2>3. "remove" \in Unpacking /\ fetcher[w].kind = "install"
    BY <1>0, <2>1 DEF CallKept, Unpacking
  <2> QED  BY <1>0, <1>3, <1>4, <2>1, <2>2, <2>3
<1>8. CASE RemoveFinal(w) \/ SwapIn(w)
  <2>1. /\ UNCHANGED <<archive, part, flight>> /\ fetcher[w].step \in {"remove", "swap"}
        /\ Goto(w, "swap") \/ Goto(w, "scan")
    BY <1>8 DEF RemoveFinal, SwapIn, At
  <2>2. unpacked' = [b \in Builds |-> unpacked'[b]]
    BY <1>0, <1>8 DEF RemoveFinal, SwapIn
  <2>3. {"swap", "scan"} \subseteq Unpacking /\ fetcher[w].kind = "install"
    BY <1>0, <2>1 DEF CallKept, Unpacking
  <2> QED  BY <1>4, <2>1, <2>2, <2>3
<1>9. CASE Rescan(w)
  <2>1. PICK f : f = [step |-> IF At(w, "scan") THEN "scanned" ELSE "rescanned",
                      kind |-> "install", of |-> fetcher[w].of, found |-> Readable]
    OBVIOUS
  <2>2. fetcher' = [fetcher EXCEPT ![w] = f]
    BY <1>9, <2>1 DEF Rescan
  <2>3. fetcher[w].kind = "install" /\ fetcher[w].step # "free"
    BY <1>0, <1>9 DEF Rescan, CallKept, Unpacking, At
  <2>4. CallKept(f) /\ f.step \in {"scanned", "rescanned"}
    BY <1>0, <2>1, <2>3 DEF CallKept, Unpacking
  <2>5. /\ fetcher' = [v \in Fetchers |-> fetcher'[v]] /\ fetcher'[w] = f
        /\ \A v \in Fetchers : v # w => fetcher'[v] = fetcher[v]
    BY <1>0, <2>2 DEF CallsKept
  <2> QED  BY <1>0, <1>9, <2>4, <2>5, FilesAlone DEF Rescan, CallsKept, Downloading
<1>10. CASE Scanned(w)
  <2>1. /\ UNCHANGED <<archive, part, flight, unpacked>>
        /\ fetcher[w].step \in {"scanned", "rescanned"} /\ (Goto(w, "ask") \/ Finish(w))
    BY <1>10 DEF Scanned, At
  <2>2. "ask" \in Unpacking /\ fetcher[w].kind = "install"
    BY <1>0, <2>1 DEF CallKept, Unpacking
  <2> QED  BY <1>0, <1>3, <1>4, <2>1, <2>2
<1>11. CASE For(w)
  <2>1. /\ UNCHANGED <<archive, part, flight>> /\ fetcher[w].step = "ask"
        /\ (Goto(w, "rescan") \/ (Finish(w) /\ UNCHANGED unpacked))
    BY <1>11 DEF For, At
  <2>2. unpacked' = [b \in Builds |-> unpacked'[b]]
    BY <1>0, <1>11 DEF For
  <2>3. "rescan" \in Unpacking /\ fetcher[w].kind = "install"
    BY <1>0, <2>1 DEF CallKept, Unpacking
  <2> QED  BY <1>3, <1>4, <2>1, <2>2, <2>3
<1> QED  BY <1>1, <1>2, <1>5, <1>6, <1>7, <1>8, <1>9, <1>10, <1>11

\* Ready: where a call goes with a whole archive.
LEMMA ReadyKept ==
    ASSUME NEW w \in Fetchers, CallKept(fetcher[w]), fetcher[w].step # "free"
    PROVE  /\ Ready(w) \in {"read", "unpack"}
           /\ Ready(w) = "unpack" => fetcher[w].kind = "install"
BY DEF Ready, CallKept

\* EnsureArchive goes on only with an archive it found whole.
LEMMA EnsureArchiveSafe ==
    ASSUME CacheInv, NEW w \in Fetchers, EnsureArchive(w)
    PROVE  CacheInv'
<1>0. CallsKept /\ CallKept(fetcher[w]) /\ fetcher[w].step = "verify"
  BY DEF CacheInv, CallsKept, EnsureArchive, At
<1>1. PICK t \in {"read", "unpack", "join"} :
          /\ Goto(w, t) /\ (t = "unpack" => fetcher[w].kind = "install")
          /\ t # "join" => archive[fetcher[w].of] = "whole"
  BY <1>0, ReadyKept DEF EnsureArchive
<1>2. /\ fetcher' = [v \in Fetchers |-> fetcher'[v]]
      /\ \A v \in Fetchers : v # w => fetcher'[v] = fetcher[v]
      /\ fetcher'[w].step = t /\ fetcher'[w].of = fetcher[w].of
      /\ \A v \in Fetchers : CallKept(fetcher'[v])
  BY <1>0, <1>1, GotoKeeps
<1>3. UNCHANGED <<archive, part, flight, unpacked>>
  BY DEF EnsureArchive
<1>4. CallsKept'
  BY <1>0, <1>2, <1>3 DEF CallsKept
<1>5. t \notin Downloading /\ "rename" \in Downloading
  BY DEF Downloading
<1>6. OneDownload' /\ VerifiedStays'
  BY <1>2, <1>3, <1>5 DEF CacheInv, OneDownload, VerifiedStays
<1>7. ArchivesWhole'
  BY <1>1, <1>2, <1>3 DEF CacheInv, ArchivesWhole, At
<1> QED  BY <1>4, <1>6, <1>7 DEF CacheInv

\* The download's own steps, up to the verified file: the call keeps its registration.
LEMMA DownloadSafe ==
    ASSUME CacheInv, NEW w \in Fetchers,
           Join(w) \/ fetch(w) \/ Verify(w) \/ \E got \in {"bad", "whole"} : Copied(w, got)
    PROVE  CacheInv'
<1> USE CacheAssumption
<1>0. CallsKept /\ CallKept(fetcher[w]) /\ UNCHANGED <<archive, unpacked>>
  BY DEF CacheInv, CallsKept, Join, joins, fetch, Verify, Copied
<1>1. PICK a \in Archives : a = fetcher[w].of /\ fetcher[w].step # "free"
  BY <1>0 DEF CallKept, Join, fetch, Verify, Copied, At
<1>2. PICK t \in {"wait"} \cup Downloading :
          /\ Goto(w, t)
          /\ \/ t = "wait" /\ flight' = flight /\ part' = part
             \/ t = "download" /\ flight[a] = "none" /\ flight' = [flight EXCEPT ![a] = w] /\ part' = part
             \/ /\ fetcher[w].step \in Downloading \ {"rename"} /\ flight' = flight
                /\ \/ t \in {"copy", "check"} /\ \E x : part' = [part EXCEPT ![a] = x]
                   \/ t = "rename" /\ part[a] = "whole" /\ part' = part
  BY <1>1 DEF Join, joins, fetch, Verify, Copied, At, Downloading
<1>3. /\ fetcher' = [v \in Fetchers |-> fetcher'[v]]
      /\ \A v \in Fetchers : v # w => fetcher'[v] = fetcher[v]
      /\ fetcher'[w].step = t /\ fetcher'[w].of = a
      /\ \A v \in Fetchers : CallKept(fetcher'[v])
  BY <1>0, <1>1, <1>2, GotoKeeps
<1>4. CallsKept'
  BY <1>0, <1>2, <1>3 DEF CallsKept
<1>5. \A v \in Fetchers : v # w /\ fetcher[v].step \in Downloading /\ fetcher[v].of = a =>
          fetcher[w].step \notin Downloading /\ flight[a] # "none"
  BY <1>1 DEF CacheInv, OneDownload
<1>12. \A v \in Fetchers : fetcher[v].step \in Downloading => fetcher[v].of \in Archives
  BY <1>0 DEF CallsKept, CallKept, Downloading
<1>6. flight = [c \in Archives |-> flight[c]] /\ part = [c \in Archives |-> part[c]]
  BY <1>0 DEF CallsKept
<1>7. fetcher[w].step \in Downloading => flight[a] = w
  BY <1>1 DEF CacheInv, OneDownload
<1>8. "rename" \in Downloading /\ "wait" \notin Downloading
  BY DEF Downloading
<1>9. OneDownload'
  <2> SUFFICES ASSUME NEW v \in Fetchers, fetcher'[v].step \in Downloading
               PROVE  flight'[fetcher'[v].of] = v
    BY DEF OneDownload
  <2>1. CASE v = w
    BY <1>2, <1>3, <1>6, <1>7, <1>8, <2>1
  <2>2. CASE v # w
    <3>1. fetcher'[v] = fetcher[v] /\ flight[fetcher[v].of] = v
      BY <1>3, <2>2 DEF CacheInv, OneDownload
    <3>2. flight'[fetcher[v].of] = flight[fetcher[v].of]
      BY <1>2, <1>5, <1>6, <1>12, <2>2, <3>1
    <3> QED  BY <3>1, <3>2
  <2> QED  BY <2>1, <2>2
<1>10. VerifiedStays'
  <2> SUFFICES ASSUME NEW v \in Fetchers, fetcher'[v].step = "rename"
               PROVE  part'[fetcher'[v].of] = "whole"
    BY DEF VerifiedStays
  <2>1. CASE v = w
    BY <1>2, <1>3, <2>1 DEF Downloading
  <2>2. CASE v # w
    <3>1. fetcher'[v] = fetcher[v] /\ part[fetcher[v].of] = "whole"
      BY <1>3, <2>2 DEF CacheInv, VerifiedStays
    <3>2. part'[fetcher[v].of] = part[fetcher[v].of]
      BY <1>2, <1>5, <1>6, <1>8, <1>12, <2>2, <3>1
    <3> QED  BY <3>1, <3>2
  <2> QED  BY <2>1, <2>2
<1>11. ArchivesWhole'
  BY <1>0, <1>2, <1>3 DEF CacheInv, ArchivesWhole, At, Downloading
<1> QED  BY <1>4, <1>9, <1>10, <1>11 DEF CacheInv

\* The result of a download: whoever it was for goes on with it, or ends.
LEMMA ResultKept ==
    ASSUME CacheInv, NEW w \in Fetchers, fetcher[w].step \in Downloading, NEW ok \in BOOLEAN,
           Result(w, ok)
    PROVE  LET a == fetcher[w].of IN
           /\ a \in Archives /\ flight' = [flight EXCEPT ![a] = "none"]
           /\ fetcher' = [v \in Fetchers |-> fetcher'[v]]
           /\ \A v \in Fetchers : CallKept(fetcher'[v])
           /\ \A v \in Fetchers : fetcher'[v].step \in Downloading =>
                 fetcher'[v] = fetcher[v] /\ fetcher[v].of # a
           /\ \A v \in Fetchers : fetcher'[v].step \in {"read", "unpack"} =>
                 fetcher'[v] = fetcher[v] \/ (ok /\ fetcher'[v].of = a)
<1> DEFINE a == fetcher[w].of
           told == {w} \cup {v \in Fetchers : At(v, "wait") /\ fetcher[v].of = a}
<1>0. CallsKept /\ \A v \in Fetchers : CallKept(fetcher[v])
  BY DEF CacheInv, CallsKept
<1>1. a \in Archives /\ flight' = [flight EXCEPT ![a] = "none"]
  BY <1>0 DEF Result, CallKept, Downloading
<1>2. fetcher' = [v \in Fetchers |->
              IF v \notin told THEN fetcher[v]
              ELSE IF ok THEN [fetcher[v] EXCEPT !.step = Ready(v)] ELSE Free]
  BY DEF Result
<1>3. ASSUME NEW v \in told
      PROVE  /\ v \in Fetchers /\ fetcher[v].step # "free" /\ fetcher[v].of = a
  BY DEF At, Downloading
<1>4. ASSUME NEW v \in told, ok
      PROVE  /\ CallKept(fetcher'[v]) /\ fetcher'[v].step \in {"read", "unpack"}
             /\ fetcher'[v].of = a
  <2>1. PICK f : f = fetcher[v] /\ CallKept(f) /\ f.step # "free" /\ f.of = a
    BY <1>0, <1>3
  <2>2. PICK t \in {"read", "unpack"} : t = Ready(v) /\ (t = "unpack" => f.kind = "install")
    BY <1>3, <2>1, ReadyKept
  <2>3. PICK g : g = [f EXCEPT !.step = t]
    OBVIOUS
  <2>4. fetcher'[v] = g
    BY <1>2, <1>3, <1>4, <2>1, <2>2, <2>3
  <2>5. /\ g.step = t /\ g.kind = f.kind /\ g.of = f.of
        /\ \/ g = [step |-> g.step, kind |-> g.kind, of |-> g.of]
           \/ g = [step |-> g.step, kind |-> g.kind, of |-> g.of, found |-> g.found]
    BY <2>1, <2>3, StepKeepsCall
  <2>6. CallKept(g)
    BY <2>1, <2>2, <2>5 DEF CallKept, Unpacking
  <2> QED  BY <2>1, <2>2, <2>4, <2>5, <2>6
<1>5. ASSUME NEW v \in told, ~ ok PROVE fetcher'[v] = Free
  BY <1>2, <1>3, <1>5
<1>6. \A v \in Fetchers : v \notin told => fetcher'[v] = fetcher[v]
  BY <1>2
<1>7. \A v \in Fetchers : CallKept(fetcher'[v])
  BY <1>0, <1>4, <1>5, <1>6, FreeKept
<1>8. Free.step = "free" /\ "free" \notin Downloading /\ "read" \notin Downloading
      /\ "unpack" \notin Downloading
  BY DEF Free, Downloading
<1>9. ASSUME NEW v \in Fetchers, fetcher'[v].step \in Downloading
      PROVE  fetcher'[v] = fetcher[v] /\ fetcher[v].of # a
  <2>1. v \notin told
    BY <1>4, <1>5, <1>8, <1>9
  <2>2. fetcher'[v] = fetcher[v] /\ v # w
    BY <1>6, <2>1
  <2>3. flight[fetcher[v].of] = v /\ flight[a] = w
    BY <1>9, <2>2 DEF CacheInv, OneDownload
  <2> QED  BY <2>2, <2>3
<1>10. ASSUME NEW v \in Fetchers, fetcher'[v].step \in {"read", "unpack"}
       PROVE  fetcher'[v] = fetcher[v] \/ (ok /\ fetcher'[v].of = a)
  BY <1>4, <1>5, <1>6, <1>8, <1>10
<1>11. fetcher' = [v \in Fetchers |-> fetcher'[v]]
  BY <1>2
<1> QED  BY <1>1, <1>7, <1>9, <1>10, <1>11

\* A download that fails, or is renamed into place.
LEMMA DownloadEndsSafe ==
    ASSUME CacheInv, NEW w \in Fetchers, DownloadFails(w) \/ Rename(w)
    PROVE  CacheInv'
<1>0. CallsKept /\ fetcher[w].step \in Downloading /\ UNCHANGED unpacked
  BY DEF CacheInv, DownloadFails, Rename, At, Downloading
<1>1. PICK a : a = fetcher[w].of
  OBVIOUS
<1>2. PICK ok \in BOOLEAN :
          /\ Result(w, ok) /\ (ok => archive'[a] = "whole")
          /\ \A b \in Archives : b # a => archive'[b] = archive[b] /\ part'[b] = part[b]
          /\ archive'[a] = archive[a] \/ archive'[a] = "whole"
          /\ archive' = [b \in Archives |-> archive'[b]] /\ part' = [b \in Archives |-> part'[b]]
  <2>1. a \in Archives
    BY <1>0, <1>1 DEF CallsKept, CallKept, Downloading
  <2>2. CASE DownloadFails(w)
    <3>1. Result(w, FALSE) /\ archive' = archive /\ (part' = part \/ part' = [part EXCEPT ![a] = "none"])
      BY <1>1, <2>2 DEF DownloadFails
    <3> QED  BY <1>0, <2>1, <3>1 DEF CallsKept
  <2>3. CASE Rename(w)
    <3>1. part[a] = "whole"
      BY <1>1, <2>3 DEF CacheInv, VerifiedStays, Rename, At
    <3>2. /\ archive' = [archive EXCEPT ![a] = "whole"] /\ part' = [part EXCEPT ![a] = "none"]
          /\ Result(w, TRUE)
      BY <1>1, <2>3, <3>1 DEF Rename
    <3> QED  BY <1>0, <2>1, <3>2 DEF CallsKept
  <2> QED  BY <2>2, <2>3
<1>3. /\ a \in Archives /\ flight' = [flight EXCEPT ![a] = "none"]
      /\ fetcher' = [v \in Fetchers |-> fetcher'[v]]
      /\ \A v \in Fetchers : CallKept(fetcher'[v])
      /\ \A v \in Fetchers : fetcher'[v].step \in Downloading =>
            fetcher'[v] = fetcher[v] /\ fetcher[v].of # a
      /\ \A v \in Fetchers : fetcher'[v].step \in {"read", "unpack"} =>
            fetcher'[v] = fetcher[v] \/ (ok /\ fetcher'[v].of = a)
  BY <1>0, <1>1, <1>2, ResultKept
<1>4. flight = [b \in Archives |-> flight[b]] /\ "rename" \in Downloading
      /\ \A v \in Fetchers : fetcher[v].step \in Downloading => fetcher[v].of \in Archives
  BY <1>0 DEF CallsKept, CallKept, Downloading
<1>5. CallsKept'
  BY <1>0, <1>2, <1>3, <1>4 DEF CallsKept
<1>6. OneDownload'
  BY <1>3, <1>4 DEF CacheInv, OneDownload
<1>7. VerifiedStays'
  BY <1>2, <1>3, <1>4 DEF CacheInv, VerifiedStays
<1>8. ArchivesWhole'
  <2> SUFFICES ASSUME NEW v \in Fetchers, fetcher'[v].step \in {"read", "unpack"}
               PROVE  archive'[fetcher'[v].of] = "whole"
    BY DEF ArchivesWhole, At
  <2>1. CASE ok /\ fetcher'[v].of = a
    BY <1>2, <2>1
  <2>2. CASE fetcher'[v] = fetcher[v]
    <3>1. archive[fetcher[v].of] = "whole" /\ fetcher[v].of \in Archives
      BY <1>0, <2>2 DEF CacheInv, ArchivesWhole, At, CallsKept, CallKept
    <3> QED  BY <1>2, <2>2, <3>1
  <2> QED  BY <1>3, <2>1, <2>2
<1> QED  BY <1>5, <1>6, <1>7, <1>8 DEF CacheInv

\* Core starts again without a call in flight.
LEMMA CoreDiesSafe == ASSUME CacheInv, NEW torn, CoreDies(torn) PROVE CacheInv'
<1>1. \A w \in Fetchers : fetcher'[w] = Free
  BY DEF CoreDies
<1>2. CallsKept'
  BY <1>1, FreeKept DEF CacheInv, CallsKept, CoreDies
<1>3. OneDownload' /\ VerifiedStays' /\ ArchivesWhole'
  BY <1>1 DEF OneDownload, VerifiedStays, ArchivesWhole, At, Downloading, Free
<1> QED  BY <1>2, <1>3 DEF CacheInv

\* Every step of the cache.
LEMMA CacheStepSafe == ASSUME CacheInv, [CacheNext]_hvars PROVE CacheInv'
<1>1. ASSUME NEW w \in Fetchers, FetcherStep(w) PROVE CacheInv'
  <2>1. CASE EnsureArchive(w)
    BY <2>1, EnsureArchiveSafe
  <2>2. CASE Join(w) \/ fetch(w) \/ Verify(w) \/ \E got \in {"bad", "whole"} : Copied(w, got)
    BY <2>2, DownloadSafe
  <2>3. CASE DownloadFails(w) \/ Rename(w)
    BY <2>3, DownloadEndsSafe
  <2>4. CASE \/ \E b \in Builds : Install(w, b)
             \/ \E a \in Archives : HandleRelayRequest(w, a)
             \/ installLock(w) \/ GivesUp(w) \/ ReadChunk(w)
             \/ \E ok \in BOOLEAN : Unpack(w, ok)
             \/ RemoveFinal(w) \/ SwapIn(w) \/ Rescan(w) \/ Scanned(w) \/ For(w)
    BY <2>4, CallersKeepFiles
  <2> QED  BY <1>1, <2>1, <2>2, <2>3, <2>4 DEF FetcherStep
<1>2. CASE UNCHANGED hvars
  BY <1>2 DEF hvars, CacheInv, CallsKept, CallKept, OneDownload, VerifiedStays, ArchivesWhole, At
<1> QED  BY <1>1, <1>2, CoreDiesSafe DEF CacheNext

\* Nothing is cached at first.
LEMMA CacheInitial == CacheInit => CacheInv
<1> SUFFICES ASSUME CacheInit PROVE CacheInv
  OBVIOUS
<1>1. \A w \in Fetchers : fetcher[w] = Free
  BY DEF CacheInit
<1>2. CallsKept
  BY <1>1, FreeKept DEF CallsKept, CacheInit
<1>3. OneDownload /\ VerifiedStays /\ ArchivesWhole
  BY <1>1 DEF OneDownload, VerifiedStays, ArchivesWhole, At, Downloading, Free
<1> QED  BY <1>2, <1>3 DEF CacheInv

\* An archive about to be relayed or unpacked is whole (ArchivesWhole), for every number of
\* versions, platforms and calls, whatever downloads overlap, fail or are cut off by a crash.
THEOREM ArchivesStayWhole == CacheSpec => []ArchivesWhole
<1>1. CacheInv => ArchivesWhole
  BY DEF CacheInv
<1> QED  BY <1>1, CacheInitial, CacheStepSafe, PTL DEF CacheSpec

\* Readable changes with the directory only.
LEMMA SameDirectory == ASSUME unpacked' = unpacked PROVE Readable' = Readable
BY DEF Readable

\* What calls do before they unpack, or when they end, leaves the registry alone.
LEMMA ScansAlone ==
    ASSUME InstallsAlone, ScansKeepUp, UNCHANGED <<unpacked, scanned>>,
           \A w \in Fetchers :
               \/ fetcher'[w] = fetcher[w]
               \/ /\ fetcher[w].step \notin Rescanning /\ fetcher'[w].step \notin Rescanning
                  /\ \/ fetcher'[w].kind # "install"
                     \/ /\ fetcher[w].kind = "install" /\ fetcher[w].step # "lock"
                        /\ fetcher'[w].of = fetcher[w].of
    PROVE  InstallsAlone' /\ ScansKeepUp'
<1>1. Readable' = Readable
  BY SameDirectory
<1>2. ASSUME NEW v \in Fetchers, fetcher'[v].kind = "install"
      PROVE  /\ fetcher[v].kind = "install" /\ fetcher'[v].of = fetcher[v].of
             /\ fetcher'[v].step # "lock" => fetcher[v].step # "lock"
  BY <1>2
<1>3. InstallsAlone'
  BY <1>1, <1>2 DEF InstallsAlone, Rescanning
<1>4. ScansKeepUp'
  BY <1>1 DEF ScansKeepUp
<1> QED  BY <1>3, <1>4

\* The steps that do not unpack.
LEMMA FetchingKeepsScans ==
    ASSUME CacheInv, InstallsAlone, ScansKeepUp, NEW w \in Fetchers,
           \/ \E a \in Archives : HandleRelayRequest(w, a)
           \/ EnsureArchive(w) \/ Join(w) \/ fetch(w) \/ Verify(w) \/ GivesUp(w) \/ ReadChunk(w)
           \/ DownloadFails(w) \/ Rename(w) \/ \E got \in {"bad", "whole"} : Copied(w, got)
           \/ \E ok \in BOOLEAN : Unpack(w, ok)
    PROVE  InstallsAlone' /\ ScansKeepUp'
<1>0. CallsKept /\ \A v \in Fetchers : CallKept(fetcher[v])
  BY DEF CacheInv, CallsKept
<1>1. UNCHANGED <<unpacked, scanned>>
  BY DEF HandleRelayRequest, EnsureArchive, Join, fetch, Verify, GivesUp, ReadChunk, DownloadFails,
         Rename, Copied, Unpack
<1>2. CASE \E a \in Archives : HandleRelayRequest(w, a)
  <2>1. PICK a \in Archives : HandleRelayRequest(w, a)
    BY <1>2
  <2>2. PICK f : f = [step |-> "verify", kind |-> "relay", of |-> a]
    OBVIOUS
  <2>3. fetcher' = [fetcher EXCEPT ![w] = f] /\ fetcher[w].step = "free"
    BY <2>1, <2>2 DEF HandleRelayRequest, Call, At
  <2>4. fetcher'[w] = f /\ \A v \in Fetchers : v # w => fetcher'[v] = fetcher[v]
    BY <1>0, <2>3 DEF CallsKept
  <2>5. f.kind = "relay" /\ f.step \notin Rescanning /\ "free" \notin Rescanning
    BY <2>2 DEF Rescanning
  <2> QED  BY <1>1, <2>3, <2>4, <2>5, ScansAlone
<1>3. ASSUME NEW t \in {"read", "unpack", "join", "wait", "remove"} \cup Downloading, Goto(w, t),
             fetcher[w].step \in {"verify", "join", "unpack"} \cup Downloading
      PROVE  InstallsAlone' /\ ScansKeepUp'
  <2>1. /\ \A v \in Fetchers : v # w => fetcher'[v] = fetcher[v]
        /\ fetcher'[w].step = t /\ fetcher'[w].kind = fetcher[w].kind
        /\ fetcher'[w].of = fetcher[w].of
    BY <1>0, <1>3, GotoKeeps
  <2>2. t \notin Rescanning /\ fetcher[w].step \notin Rescanning /\ fetcher[w].step # "lock"
    BY <1>3 DEF Rescanning, Downloading
  <2> QED  BY <1>1, <2>1, <2>2, ScansAlone
<1>4. ASSUME Finish(w), fetcher[w].step \in {"wait", "read", "unpack"} PROVE InstallsAlone' /\ ScansKeepUp'
  <2>1. /\ \A v \in Fetchers : v # w => fetcher'[v] = fetcher[v]
        /\ fetcher'[w].step = "free" /\ fetcher'[w].kind = "none"
    BY <1>0, <1>4, FinishKeeps
  <2>2. "free" \notin Rescanning /\ fetcher[w].step \notin Rescanning
    BY <1>4 DEF Rescanning
  <2> QED  BY <1>1, <2>1, <2>2, ScansAlone
<1>5. CASE EnsureArchive(w)
  <2>1. /\ fetcher[w].step = "verify"
        /\ Goto(w, IF archive[fetcher[w].of] = "whole" THEN Ready(w) ELSE "join")
    BY <1>5 DEF EnsureArchive, At
  <2>2. Ready(w) \in {"read", "unpack"}
    BY DEF Ready
  <2> QED  BY <1>3, <2>1, <2>2
<1>6. CASE Join(w) \/ fetch(w) \/ Verify(w) \/ \E got \in {"bad", "whole"} : Copied(w, got)
  <2>1. /\ fetcher[w].step \in {"join"} \cup Downloading
        /\ \E t \in {"wait"} \cup Downloading : Goto(w, t)
    BY <1>6 DEF Join, joins, fetch, Verify, Copied, At, Downloading
  <2> QED  BY <1>3, <2>1
<1>7. CASE GivesUp(w) \/ ReadChunk(w)
  BY <1>4, <1>7 DEF GivesUp, ReadChunk, At
<1>8. CASE \E ok \in BOOLEAN : Unpack(w, ok)
  BY <1>3, <1>4, <1>8 DEF Unpack, At
<1>9. CASE DownloadFails(w) \/ Rename(w)
  <2>1. PICK ok \in BOOLEAN : Result(w, ok)
    <3>1. CASE DownloadFails(w)
      BY <3>1 DEF DownloadFails
    <3>2. CASE Rename(w)
      <4>1. part[fetcher[w].of] = "whole"
        BY <3>2 DEF Rename, At, CacheInv, VerifiedStays
      <4> QED  BY <3>2, <4>1 DEF Rename
    <3> QED  BY <1>9, <3>1, <3>2
  <2>2. fetcher[w].step \in Downloading
    BY <1>9 DEF DownloadFails, Rename, At, Downloading
  <2> DEFINE told == {w} \cup {v \in Fetchers : At(v, "wait") /\ fetcher[v].of = fetcher[w].of}
  <2>3. fetcher' = [v \in Fetchers |->
              IF v \notin told THEN fetcher[v]
              ELSE IF ok THEN [fetcher[v] EXCEPT !.step = Ready(v)] ELSE Free]
    BY <2>1 DEF Result
  <2>4. ASSUME NEW v \in Fetchers, v \in told
        PROVE  /\ fetcher[v].step \notin Rescanning /\ fetcher[v].step # "lock"
               /\ fetcher'[v].step \notin Rescanning
               /\ \/ fetcher'[v].kind # "install"
                  \/ fetcher'[v].kind = fetcher[v].kind /\ fetcher'[v].of = fetcher[v].of
    <3>1. fetcher[v].step \in {"wait"} \cup Downloading
      BY <2>2, <2>4 DEF At
    <3>2. CASE ok
      <4>1. PICK f : f = fetcher[v] /\ CallKept(f)
        BY <1>0
      <4>2. PICK t \in {"read", "unpack"} : t = Ready(v)
        BY DEF Ready
      <4>3. PICK g : g = [f EXCEPT !.step = t]
        OBVIOUS
      <4>4. fetcher'[v] = g
        BY <2>3, <2>4, <3>2, <4>1, <4>2, <4>3
      <4>5. g.step = t /\ g.kind = f.kind /\ g.of = f.of
        BY <4>1, <4>3, StepKeepsCall
      <4> QED  BY <3>1, <4>1, <4>2, <4>4, <4>5 DEF Rescanning, Downloading
    <3>3. CASE ~ ok
      BY <2>3, <2>4, <3>1, <3>3 DEF Free, Rescanning, Downloading
    <3> QED  BY <3>2, <3>3
  <2>5. \A v \in Fetchers : v \notin told => fetcher'[v] = fetcher[v]
    BY <2>3
  <2> HIDE DEF told
  <2> QED  BY <1>1, <2>4, <2>5, ScansAlone
<1> QED  BY <1>2, <1>5, <1>6, <1>7, <1>8, <1>9

\* An install starts behind those of its version, and one at a time leaves the lock.
LEMMA LockingKeepsScans ==
    ASSUME Solo = TRUE, CacheInv, InstallsAlone, ScansKeepUp, NEW w \in Fetchers,
           installLock(w) \/ \E b \in Builds : Install(w, b)
    PROVE  InstallsAlone' /\ ScansKeepUp'
<1>0. CallsKept /\ \A v \in Fetchers : CallKept(fetcher[v])
  BY DEF CacheInv, CallsKept
<1>r. UNCHANGED <<unpacked, scanned>> /\ Readable' = Readable
  BY SameDirectory DEF installLock, Install
<1>1. CASE \E b \in Builds : Install(w, b)
  <2>1. PICK b \in Builds : Install(w, b)
    BY <1>1
  <2>2. PICK f : f = [step |-> "lock", kind |-> "install", of |-> <<b, CorePlatform>>]
    OBVIOUS
  <2>3. fetcher' = [fetcher EXCEPT ![w] = f]
    <3>1. [Call("install", <<b, CorePlatform>>) EXCEPT !.step = "lock"] = f
      BY <2>2 DEF Call
    <3> QED  BY <2>1, <3>1 DEF Install
  <2>4. /\ fetcher'[w] = f /\ \A v \in Fetchers : v # w => fetcher'[v] = fetcher[v]
        /\ fetcher[w].step = "free"
    BY <1>0, <2>1, <2>3 DEF CallsKept, Install, At
  <2>5. ASSUME NEW v \in Fetchers, fetcher[v].kind = "install" PROVE fetcher[v].of = f.of
    <3>1. fetcher[v].of \in Builds \X Platforms /\ fetcher[v].of[2] = CorePlatform
      BY <1>0, <2>5 DEF CallKept, Archives
    <3>2. fetcher[v].of[1] = b
      BY <2>1, <2>5, <3>1 DEF Install, Installing
    <3> QED  BY <2>2, <3>1, <3>2
  <2>6. f.step = "lock" /\ f.kind = "install"
    BY <2>2
  <2>7. InstallsAlone'
    BY <1>r, <2>4, <2>5, <2>6 DEF InstallsAlone
  <2>8. "lock" \notin Rescanning /\ "free" \notin Rescanning
    BY DEF Rescanning
  <2>9. ScansKeepUp'
    BY <1>r, <2>4, <2>6, <2>8 DEF ScansKeepUp
  <2> QED  BY <2>7, <2>9
<1>2. CASE installLock(w)
  <2>1. fetcher[w].step = "lock" /\ fetcher[w].kind = "install" /\ "lock" \notin Rescanning
        /\ "free" \notin Rescanning /\ "verify" \notin Rescanning
    BY <1>0, <1>2 DEF installLock, At, CallKept, Rescanning
  <2>2. CASE Finish(w)
    BY <1>0, <1>r, <2>1, <2>2, FinishKeeps, ScansAlone
  <2>3. CASE Goto(w, "verify")
    <3>1. /\ \A v \in Fetchers : v # w => fetcher'[v] = fetcher[v]
          /\ fetcher'[w].step = "verify" /\ fetcher'[w].kind = "install"
          /\ fetcher'[w].of = fetcher[w].of
      BY <1>0, <2>1, <2>3, GotoKeeps
    <3>2. \A v \in Fetchers : fetcher[v].kind = "install" => fetcher[v].step = "lock"
      BY <1>2, <2>1 DEF installLock, Installing, At, InstallsAlone
    <3>3. InstallsAlone'
      BY <1>r, <2>1, <3>1, <3>2 DEF InstallsAlone
    <3>4. ScansKeepUp'
      BY <1>r, <2>1, <3>1 DEF ScansKeepUp
    <3> QED  BY <3>3, <3>4
  <2> QED  BY <1>2, <2>2, <2>3 DEF installLock
<1> QED  BY <1>1, <1>2

\* Unpacking, scanning and taking a version out again: only the one call past the lock does it.
LEMMA UnpackingKeepsScans ==
    ASSUME CacheInv, InstallsAlone, ScansKeepUp, NEW w \in Fetchers,
           RemoveFinal(w) \/ SwapIn(w) \/ Rescan(w) \/ Scanned(w) \/ For(w)
    PROVE  InstallsAlone' /\ ScansKeepUp'
<1>0. CallsKept /\ \A v \in Fetchers : CallKept(fetcher[v])
  BY DEF CacheInv, CallsKept
<1>1. fetcher[w].step \in Unpacking /\ fetcher[w].kind = "install"
  BY <1>0 DEF RemoveFinal, SwapIn, Rescan, Scanned, For, At, Unpacking, CallKept
<1>2. \A v \in Fetchers : v # w => /\ fetcher[v].kind = "install" => fetcher[v].step = "lock"
                                   /\ fetcher[v].step \notin Rescanning
  BY <1>0, <1>1 DEF InstallsAlone, CallKept, Unpacking, Rescanning
<1>3. \A v \in Fetchers : v # w => fetcher'[v] = fetcher[v]
  BY <1>0, GotoKeeps, FinishKeeps DEF RemoveFinal, SwapIn, Rescan, Scanned, For, CallsKept
<1>4. ASSUME fetcher'[w].kind = "install" => fetcher'[w].of = fetcher[w].of,
             fetcher'[w].step \in {"scanned", "rescanned"} => fetcher'[w].found = Readable'
      PROVE  InstallsAlone'
  BY <1>1, <1>2, <1>3, <1>4 DEF InstallsAlone, Rescanning
<1>5. ASSUME fetcher'[w].step \in Rescanning PROVE ScansKeepUp'
  BY <1>5 DEF ScansKeepUp
<1>6. CASE RemoveFinal(w) \/ SwapIn(w)
  <2>1. Goto(w, "swap") \/ Goto(w, "scan")
    BY <1>6 DEF RemoveFinal, SwapIn
  <2>2. fetcher'[w].of = fetcher[w].of /\ fetcher'[w].step \in {"swap", "scan"}
    BY <1>0, <2>1, GotoKeeps
  <2> QED  BY <1>4, <1>5, <2>2 DEF Rescanning
<1>7. CASE Rescan(w)
  <2>1. PICK f : f = [step |-> IF At(w, "scan") THEN "scanned" ELSE "rescanned",
                      kind |-> "install", of |-> fetcher[w].of, found |-> Readable]
    OBVIOUS
  <2>2. fetcher'[w] = f /\ Readable' = Readable
    BY <1>0, <1>7, <2>1, SameDirectory DEF Rescan, CallsKept
  <2>3. f.of = fetcher[w].of /\ f.found = Readable /\ f.step \in {"scanned", "rescanned"}
    BY <2>1
  <2> QED  BY <1>4, <1>5, <2>2, <2>3 DEF Rescanning
<1>8. CASE Scanned(w)
  <2>1. /\ scanned' = Readable /\ Readable' = Readable /\ (Goto(w, "ask") \/ Finish(w))
    BY <1>8, SameDirectory DEF Scanned, At, InstallsAlone
  <2>2. fetcher'[w].step \in {"ask", "free"} /\ (fetcher'[w].kind = "install" => fetcher'[w].of = fetcher[w].of)
    BY <1>0, <2>1, GotoKeeps, FinishKeeps
  <2>3. InstallsAlone'
    BY <1>4, <2>2
  <2> QED  BY <2>1, <2>3 DEF ScansKeepUp
<1>9. CASE For(w)
  <2>1. CASE Finish(w) /\ UNCHANGED unpacked
    <3>1. fetcher'[w].step = "free" /\ fetcher'[w].kind = "none"
      BY <1>0, <2>1, FinishKeeps
    <3>2. Readable' = Readable /\ scanned' = scanned /\ scanned = Readable
      BY <1>2, <1>9, <2>1, SameDirectory DEF For, At, ScansKeepUp, Rescanning
    <3> QED  BY <1>4, <3>1, <3>2 DEF ScansKeepUp
  <2>2. CASE Goto(w, "rescan")
    <3>1. fetcher'[w].of = fetcher[w].of /\ fetcher'[w].step = "rescan"
      BY <1>0, <2>2, GotoKeeps
    <3> QED  BY <1>4, <1>5, <3>1 DEF Rescanning
  <2> QED  BY <1>9, <2>1, <2>2 DEF For
<1> QED  BY <1>6, <1>7, <1>8, <1>9

\* The registry's side of every step, while versions are installed one at a time.
LEMMA ScansStepSafe ==
    ASSUME Solo = TRUE, CacheInv, InstallsAlone, ScansKeepUp, [CacheNext]_hvars
    PROVE  InstallsAlone' /\ ScansKeepUp'
<1>1. ASSUME NEW w \in Fetchers, FetcherStep(w) PROVE InstallsAlone' /\ ScansKeepUp'
  <2>1. CASE \/ \E a \in Archives : HandleRelayRequest(w, a)
             \/ EnsureArchive(w) \/ Join(w) \/ fetch(w) \/ Verify(w) \/ GivesUp(w) \/ ReadChunk(w)
             \/ DownloadFails(w) \/ Rename(w) \/ \E got \in {"bad", "whole"} : Copied(w, got)
             \/ \E ok \in BOOLEAN : Unpack(w, ok)
    BY <2>1, FetchingKeepsScans
  <2>2. CASE installLock(w) \/ \E b \in Builds : Install(w, b)
    BY <2>2, LockingKeepsScans
  <2>3. CASE RemoveFinal(w) \/ SwapIn(w) \/ Rescan(w) \/ Scanned(w) \/ For(w)
    BY <2>3, UnpackingKeepsScans
  <2> QED  BY <1>1, <2>1, <2>2, <2>3 DEF FetcherStep
<1>2. ASSUME NEW torn, CoreDies(torn) PROVE InstallsAlone' /\ ScansKeepUp'
  <2>1. (\A w \in Fetchers : fetcher'[w] = Free) /\ scanned' = Readable /\ Readable' = Readable
    BY <1>2, SameDirectory DEF CoreDies
  <2> QED  BY <2>1 DEF InstallsAlone, ScansKeepUp, Free
<1>3. CASE UNCHANGED hvars
  BY <1>3, ScansAlone DEF hvars
<1> QED  BY <1>1, <1>2, <1>3 DEF CacheNext

\* A kernel reaches a node and the panel whole (KernelsWhole).  The part about the registry
\* is for versions installed one at a time, as the model checker's counterexample with two
\* shows it must be: the older of two scans may be the one that stays.
THEOREM KernelsArriveWhole ==
    ASSUME Solo = TRUE
    PROVE  StreamSpec /\ CacheSpec => []KernelsWhole
<1>1. CacheInit => InstallsAlone /\ ScansKeepUp
  BY DEF CacheInit, InstallsAlone, ScansKeepUp, Free, Readable
<1>2. CacheInv /\ InstallsAlone /\ ScansKeepUp /\ [CacheNext]_hvars => InstallsAlone' /\ ScansKeepUp'
  BY ScansStepSafe
<1>3. CacheInv /\ InstallsAlone /\ ScansKeepUp => ArchivesWhole /\ OffersWhatIsThere
  <2> SUFFICES ASSUME CacheInv, ScansKeepUp, \A w \in Fetchers : fetcher[w].kind # "install"
               PROVE  scanned = Readable
    BY DEF CacheInv, OffersWhatIsThere
  <2>1. \A w \in Fetchers : fetcher[w].step \notin Rescanning
    BY DEF CacheInv, CallsKept, CallKept, Unpacking, Rescanning
  <2> QED  BY <2>1 DEF ScansKeepUp
<1>4. CacheSpec => [](ArchivesWhole /\ OffersWhatIsThere)
  BY <1>1, <1>2, <1>3, CacheInitial, CacheStepSafe, PTL DEF CacheSpec
<1>5. ArchiveInOrder /\ (ArchivesWhole /\ OffersWhatIsThere) => KernelsWhole
  BY DEF KernelsWhole
<1> QED  BY <1>4, <1>5, ArchiveWritten, PTL
=============================================================================
