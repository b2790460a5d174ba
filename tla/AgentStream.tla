----------------------------- MODULE AgentStream ----------------------------
(* Inside the agent while it is connected (agent/internal/client): the receiver of Core's *)
(* frames, the one writer fed by sendCh, the goroutines that report on a timer, and the   *)
(* install that relays an archive from Core chunk by chunk over the same stream.  What    *)
(* a config push does to the kernel is modelled in ConfigDelivery and XrayManager.        *)
EXTENDS Integers, Sequences, FiniteSets

CONSTANTS
    Reports,        \* the goroutines that report: heartbeat, stats, online
    Versions,       \* kernel versions
    Chunks,         \* chunks of an archive
    SendCap,        \* capacity of sendCh
    EventCap,       \* capacity of the event queue
    NoVersion,
    MaxDials,       \* bound: streams opened
    MaxInbound      \* bound: frames Core has sent and the receiver has not taken

ASSUME StreamAssumption ==
    /\ SendCap \in Nat \ {0} /\ EventCap \in Nat \ {0} /\ Chunks \in Nat \ {0}
    /\ MaxDials \in Nat /\ MaxInbound \in Nat /\ NoVersion \notin Versions

VARIABLES
    link,       \* "down" (backing off), "up", "broken" (Send and Recv fail)
    stream,     \* number of the stream
    sendCh,     \* frames for the writer
    events,     \* the event queue, kept across streams
    writer,     \* the frame being sent, "idle", or "gone"
    receiver,   \* "recv", or the frame it is handling
    report,     \* report[r]: "wait" for the timer, or "put" (inside trySend)
    policy,     \* whether Core asked this stream for online addresses
    inbound,    \* frames from Core
    asked,      \* relay requests Core has to answer: <<version, offset>>
    install,    \* the install: version, the stream it belongs to, step, chunks written
    chunk       \* installState.chunks, a buffer of one

wvars == <<link, stream, sendCh, events, writer, receiver, report, policy, inbound, asked,
           install, chunk>>

NoInstall == [version |-> NoVersion, stream |-> 0, step |-> "none", got |-> <<>>]
Frame(kind) == [kind |-> kind, version |-> NoVersion, offset |-> 0]
Ask(v, o) == [kind |-> "ask", version |-> v, offset |-> o]
Piece(v, o) == [kind |-> "chunk", version |-> v, offset |-> o]
Waiting == Frame("idle")
Ended == Frame("gone")
Recv == Frame("recv")

StreamInit ==
    /\ link = "down" /\ stream = 0 /\ sendCh = <<>> /\ events = 0
    /\ writer = Ended /\ receiver = Recv /\ report = [r \in Reports |-> "wait"]
    /\ policy = FALSE /\ inbound = <<>> /\ asked = {}
    /\ install = NoInstall /\ chunk = <<>>

-----------------------------------------------------------------------------
(* The stream *)

\* runStream: Hello goes out before any goroutine starts; the polling policy is forgotten.
Open ==
    /\ link = "down" /\ stream < MaxDials
    /\ link' = "up" /\ stream' = stream + 1
    /\ sendCh' = <<>> /\ writer' = Waiting /\ receiver' = Recv
    /\ report' = [r \in Reports |-> "wait"] /\ policy' = FALSE /\ inbound' = <<>>
    /\ UNCHANGED <<events, asked, install, chunk>>

Break ==
    /\ link = "up" /\ link' = "broken"
    /\ UNCHANGED <<stream, sendCh, events, writer, receiver, report, policy, inbound, asked, install, chunk>>

\* Only the receiver's return cancels the stream's context and so ends the goroutines.
RecvFails ==
    /\ link = "broken" /\ receiver = Recv
    /\ link' = "down" /\ writer' = Ended /\ report' = [r \in Reports |-> "wait"]
    /\ sendCh' = <<>> /\ inbound' = <<>>
    /\ UNCHANGED <<stream, events, receiver, policy, asked, install, chunk>>

-----------------------------------------------------------------------------
(* The writer *)

Live == link # "down"

TakeFrame ==
    /\ Live /\ writer = Waiting /\ sendCh # <<>>
    /\ writer' = Head(sendCh) /\ sendCh' = Tail(sendCh)
    /\ UNCHANGED <<link, stream, events, receiver, report, policy, inbound, asked, install, chunk>>

TakeEvent ==
    /\ Live /\ writer = Waiting /\ events > 0
    /\ writer' = Frame("event") /\ events' = events - 1
    /\ UNCHANGED <<link, stream, sendCh, receiver, report, policy, inbound, asked, install, chunk>>

Sending == writer \notin {Waiting, Ended}

Sent ==
    /\ link = "up" /\ Sending
    /\ asked' = IF writer.kind = "ask" THEN asked \cup {<<writer.version, writer.offset>>} ELSE asked
    /\ writer' = Waiting
    /\ UNCHANGED <<link, stream, sendCh, events, receiver, report, policy, inbound, install, chunk>>

\* The writer ends with the error; the frame, or the event, is lost.
SendFails ==
    /\ link = "broken" /\ Sending
    /\ writer' = Ended
    /\ UNCHANGED <<link, stream, sendCh, events, receiver, report, policy, inbound, asked, install, chunk>>

\* trySend: room in sendCh, or the stream's context is done (and then its owner is gone too).
trySend(f) == Len(sendCh) < SendCap /\ sendCh' = Append(sendCh, f)

-----------------------------------------------------------------------------
(* Reports on a timer *)

ReportDue(r) ==
    /\ Live /\ report[r] = "wait" /\ (r = "online" => policy)
    /\ report' = [report EXCEPT ![r] = "put"]
    /\ UNCHANGED <<link, stream, sendCh, events, writer, receiver, policy, inbound, asked, install, chunk>>

ReportPut(r) ==
    /\ Live /\ report[r] = "put" /\ trySend(Frame("report"))
    /\ report' = [report EXCEPT ![r] = "wait"]
    /\ UNCHANGED <<link, stream, events, writer, receiver, policy, inbound, asked, install, chunk>>

-----------------------------------------------------------------------------
(* Frames from Core *)

Arrives(f) ==
    /\ link = "up" /\ Len(inbound) < MaxInbound
    /\ inbound' = Append(inbound, f)
    /\ UNCHANGED <<link, stream, sendCh, events, writer, receiver, report, policy, install, chunk>>

\* A relay request is answered whenever Core has the bytes, on whatever stream is up then.
Answer(a) == a \in asked /\ Arrives(Piece(a[1], a[2])) /\ asked' = asked \ {a}
Pushed == Arrives(Frame("push")) /\ UNCHANGED asked
Policy == Arrives(Frame("policy")) /\ UNCHANGED asked
Command == Arrives(Frame("command")) /\ UNCHANGED asked
Order(v) == Arrives([Frame("install") EXCEPT !.version = v]) /\ UNCHANGED asked

RecvFrame ==
    /\ Live /\ receiver = Recv /\ inbound # <<>>
    /\ receiver' = Head(inbound) /\ inbound' = Tail(inbound)
    /\ UNCHANGED <<link, stream, sendCh, events, writer, report, policy, asked, install, chunk>>

\* QueueEvent never blocks: a full queue drops the event.
QueueEvent == events' = IF events < EventCap THEN events + 1 ELSE events

\* deliver never blocks: a chunk that finds the buffer full is dropped.
deliver(f) == chunk' = IF chunk = <<>> THEN <<f>> ELSE chunk

\* begin claims the one slot and discards a chunk left over; refused, it reports instead.
handleFrame ==
    /\ Live /\ receiver # Recv
    /\ receiver' = Recv
    /\ \/ receiver.kind = "push" /\ trySend(Frame("ack"))
          /\ UNCHANGED <<events, policy, install, chunk>>
       \/ receiver.kind = "policy" /\ policy' = TRUE
          /\ UNCHANGED <<sendCh, events, install, chunk>>
       \/ receiver.kind = "command" /\ QueueEvent
          /\ UNCHANGED <<sendCh, policy, install, chunk>>
       \/ receiver.kind = "chunk" /\ deliver(receiver)
          /\ UNCHANGED <<sendCh, events, policy, install>>
       \/ receiver.kind = "install" /\ install = NoInstall
          /\ install' = [NoInstall EXCEPT !.version = receiver.version, !.stream = stream, !.step = "ask"]
          /\ chunk' = <<>>
          /\ UNCHANGED <<sendCh, events, policy>>
       \/ receiver.kind = "install" /\ install # NoInstall /\ trySend(Frame("status"))
          /\ UNCHANGED <<events, policy, install, chunk>>
    /\ UNCHANGED <<link, stream, writer, report, inbound, asked>>

-----------------------------------------------------------------------------
(* streamRelay.Chunk, once per chunk of the archive *)

Mine == install.stream = stream /\ Live
Offset == Len(install.got)

AskChunk ==
    /\ install.step = "ask" /\ Mine
    /\ trySend(Ask(install.version, Offset))
    /\ install' = [install EXCEPT !.step = "wait"]
    /\ UNCHANGED <<link, stream, events, writer, receiver, report, policy, inbound, asked, chunk>>

accepts(c) == c.version = install.version /\ c.offset = Offset

\* A reply for another version or offset is stale: keep waiting for ours.
TakeChunk ==
    /\ install.step = "wait" /\ chunk # <<>>
    /\ chunk' = <<>>
    /\ install' =
          IF ~ accepts(chunk[1]) THEN install
          ELSE LET got == Append(install.got, chunk[1]) IN
               [install EXCEPT !.got = got, !.step = IF Len(got) = Chunks THEN "whole" ELSE "ask"]
    /\ UNCHANGED <<link, stream, sendCh, events, writer, receiver, report, policy, inbound, asked>>

\* The archive is complete; or no reply in time, or the stream it belongs to is gone.
InstallEnds ==
    /\ install # NoInstall /\ (install.step \in {"whole", "wait"} \/ ~ Mine)
    /\ install' = NoInstall
    /\ UNCHANGED <<link, stream, sendCh, events, writer, receiver, report, policy, inbound, asked, chunk>>

-----------------------------------------------------------------------------
CoreStep ==
    \/ Pushed \/ Policy \/ Command
    \/ \E v \in Versions : Order(v)
    \/ \E a \in asked : Answer(a)

AgentStreamStep ==
    \/ TakeFrame \/ TakeEvent \/ SendFails \/ RecvFrame \/ handleFrame \/ RecvFails
    \/ AskChunk \/ TakeChunk \/ InstallEnds
    \/ \E r \in Reports : ReportDue(r) \/ ReportPut(r)

StreamNext == Open \/ Break \/ Sent \/ CoreStep \/ AgentStreamStep

\* The agent's goroutines run; nothing is assumed of the network or of Core.
StreamFairness ==
    /\ WF_wvars(RecvFails) /\ WF_wvars(SendFails) /\ WF_wvars(handleFrame) /\ WF_wvars(RecvFrame)
    /\ WF_wvars(TakeFrame) /\ WF_wvars(TakeEvent)

StreamSpec == StreamInit /\ [][StreamNext]_wvars /\ StreamFairness

-----------------------------------------------------------------------------
\* The bytes written into an archive are those of the version being installed, each chunk
\* once and in order, however late the answers to an abandoned transfer arrive.
ArchiveInOrder ==
    \A i \in 1..Len(install.got) : install.got[i] = Piece(install.version, i - 1)

\* "keeping the node registered and connected" (Run): a stream that broke is left, so that
\* the agent can reconnect.
StreamRecovers == link = "broken" ~> link = "down"
=============================================================================
