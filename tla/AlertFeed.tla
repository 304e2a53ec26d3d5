------------------------------- MODULE AlertFeed -------------------------------
(***************************************************************************)
(* What becomes of the transactions and alerts the pipeline broadcasts:    *)
(* the recorder that keeps the recent alerts (pipeline.rs), and a          *)
(* WebSocket client (ws.rs).  Of an event only its program matters.        *)
(*                                                                         *)
(* A tokio broadcast channel is external: it keeps the last Ring events;   *)
(* a receiver starts behind the newest one, and one that falls behind the  *)
(* oldest is told so once and goes on from there.  An event is identified  *)
(* by its place in its channel.                                            *)
(*                                                                         *)
(* MaxSent and MaxCommands bound the events and the client's messages.     *)
(***************************************************************************)
EXTENDS SequencesExt

CONSTANTS
    Programs,
    Ring,            \* capacity of a broadcast channel
    Capacity,        \* of the buffer of recent alerts
    MaxSent, MaxCommands

ASSUME SizesArePositive == {Ring, Capacity, MaxSent} \subseteq Nat \ {0}
ASSUME MaxCommandsIsNat == MaxCommands \in Nat

VARIABLES
    sent,            \* channel -> everything ever sent on it
    recorder,        \* [pc, next, event]: its receiver and the event in hand
    recent,          \* recent_alerts, oldest first
    client,          \* [pc, next, all, programs, event]
    \* History, read by no step.
    lagged,          \* the receivers that have lost events
    start,           \* where each receiver began
    delivered,       \* channel -> what the client was sent
    unwanted,        \* programs the client did not want at some time
    commands         \* number of the client's messages

history == <<lagged, start, delivered, unwanted>>
vars == <<sent, recorder, recent, client, history, commands>>

Channels == {"tx", "alert"}
Receivers == {"recorder"} \cup Channels
NoEvent == <<"none", 0>>

Unstarted == [pc |-> "unstarted", next |-> 1, event |-> 0]
Away == [pc |-> "away", next |-> [ch \in Channels |-> 1], all |-> TRUE,
         programs |-> {}, event |-> NoEvent]

Init ==
    /\ sent = [ch \in Channels |-> << >>]
    /\ recorder = Unstarted
    /\ recent = << >>
    /\ client = Away
    /\ lagged = {} /\ start = [r \in Receivers |-> 1]
    /\ delivered = [ch \in Channels |-> << >>] /\ unwanted = {} /\ commands = 0

-----------------------------------------------------------------------------
(* The channels *)

Tail1(ch) == Len(sent[ch]) + 1
Oldest(ch) == IF Len(sent[ch]) > Ring THEN Len(sent[ch]) - Ring + 1 ELSE 1

Send(ch, p) ==
    /\ Len(sent["tx"]) + Len(sent["alert"]) < MaxSent
    /\ sent' = [sent EXCEPT ![ch] = Append(@, p)]
    /\ UNCHANGED <<recorder, recent, client, history, commands>>

-----------------------------------------------------------------------------
(* run_alert_recorder *)

\* The task is spawned after the worker and the alert engine.
StartRecorder ==
    /\ recorder.pc = "unstarted"
    /\ recorder' = [recorder EXCEPT !.pc = "recv", !.next = Tail1("alert")]
    /\ start' = [start EXCEPT !["recorder"] = Tail1("alert")]
    /\ UNCHANGED <<sent, recent, client, lagged, delivered, unwanted, commands>>

RecvAlert ==
    /\ recorder.pc = "recv"
    /\ recorder.next \in Oldest("alert") .. Len(sent["alert"])
    /\ recorder' = [pc |-> "store", next |-> recorder.next + 1, event |-> recorder.next]
    /\ UNCHANGED <<sent, recent, client, history, commands>>

LagEndsTheRecorder ==
    /\ recorder.pc = "recv" /\ recorder.next < Oldest("alert")
    /\ recorder' = [recorder EXCEPT !.pc = "ended"]
    /\ lagged' = lagged \cup {"recorder"}
    /\ UNCHANGED <<sent, recent, client, start, delivered, unwanted, commands>>

RecorderLags ==
    /\ recorder.pc = "recv" /\ recorder.next < Oldest("alert")
    /\ recorder' = [recorder EXCEPT !.next = Oldest("alert")]
    /\ lagged' = lagged \cup {"recorder"}
    /\ UNCHANGED <<sent, recent, client, start, delivered, unwanted, commands>>

StorePopsNewest ==
    /\ recorder.pc = "store"
    /\ recent' = IF Len(recent) < Capacity THEN Append(recent, recorder.event) ELSE recent
    /\ recorder' = [recorder EXCEPT !.pc = "recv", !.event = 0]
    /\ UNCHANGED <<sent, client, history, commands>>

\* Once it has the lock of the buffer, which others hold only for reading.
StoreAlert ==
    /\ recorder.pc = "store"
    /\ recent' = LET longer == Append(recent, recorder.event)
                 IN  SubSeq(longer, Max({1, Len(longer) - Capacity + 1}), Len(longer))
    /\ recorder' = [recorder EXCEPT !.pc = "recv", !.event = 0]
    /\ UNCHANGED <<sent, client, history, commands>>

Recorder == RecvAlert \/ RecorderLags \/ StoreAlert

-----------------------------------------------------------------------------
(* handle_ws *)

Wants(p) == client.all \/ p \in client.programs
Program(ch, i) == sent[ch][i]

Connect ==
    /\ client.pc = "away" /\ commands = 0
    /\ client' = [client EXCEPT !.pc = "select", !.next = [ch \in Channels |-> Tail1(ch)]]
    /\ start' = [r \in Receivers |-> IF r \in Channels THEN Tail1(r) ELSE start[r]]
    /\ UNCHANGED <<sent, recorder, recent, lagged, delivered, unwanted, commands>>

Command(all, programs) ==
    /\ client.pc = "select" /\ commands < MaxCommands
    /\ client' = [client EXCEPT !.all = all, !.programs = programs]
    /\ unwanted' = unwanted \cup {p \in Programs : ~all /\ p \notin programs}
    /\ commands' = commands + 1
    /\ UNCHANGED <<sent, recorder, recent, lagged, start, delivered>>

Subscribe(ps) == Command(FALSE, client.programs \cup ps)

\* Nobody left to follow: all programs again.  One that follows all anyway
\* has nothing to take out.
Unsubscribe(ps) ==
    LET left == client.programs \ ps
    IN  Command(client.all \/ left = {}, left)

FilterOnNoneOnly(ch) ==
    /\ client.pc = "select"
    /\ client.next[ch] \in Oldest(ch) .. Len(sent[ch])
    /\ client' = IF client.all \/ client.programs = {Program(ch, client.next[ch])}
                 THEN [client EXCEPT !.pc = "send", !.next[ch] = @ + 1,
                                     !.event = <<ch, client.next[ch]>>]
                 ELSE [client EXCEPT !.next[ch] = @ + 1]
    /\ UNCHANGED <<sent, recorder, recent, history, commands>>

\* An event the client does not want is dropped; another is sent at leisure.
Forward(ch) ==
    /\ client.pc = "select"
    /\ client.next[ch] \in Oldest(ch) .. Len(sent[ch])
    /\ client' = IF Wants(Program(ch, client.next[ch]))
                 THEN [client EXCEPT !.pc = "send", !.next[ch] = @ + 1,
                                     !.event = <<ch, client.next[ch]>>]
                 ELSE [client EXCEPT !.next[ch] = @ + 1]
    /\ UNCHANGED <<sent, recorder, recent, history, commands>>

ClientLags(ch) ==
    /\ client.pc = "select" /\ client.next[ch] < Oldest(ch)
    /\ client' = [client EXCEPT !.next[ch] = Oldest(ch)]
    /\ lagged' = lagged \cup {ch}
    /\ UNCHANGED <<sent, recorder, recent, start, delivered, unwanted, commands>>

SendToClient ==
    /\ client.pc = "send"
    /\ delivered' = [delivered EXCEPT ![client.event[1]] = Append(@, client.event[2])]
    /\ client' = [client EXCEPT !.pc = "select", !.event = NoEvent]
    /\ UNCHANGED <<sent, recorder, recent, lagged, start, unwanted, commands>>

\* The client closes the socket, or sending fails.
Disconnect ==
    /\ client.pc \in {"select", "send"}
    /\ client' = [Away EXCEPT !.pc = "gone"]
    /\ UNCHANGED <<sent, recorder, recent, history, commands>>

Next ==
    \/ \E ch \in Channels :
        \/ \E p \in Programs : Send(ch, p)
        \/ Forward(ch) \/ ClientLags(ch)
    \/ StartRecorder \/ Recorder
    \/ Connect \/ SendToClient \/ Disconnect
    \/ \E ps \in SUBSET Programs : Subscribe(ps) \/ Unsubscribe(ps)

Spec == Init /\ [][Next]_vars

\* The recorder runs whenever it can: the buffer is only ever read otherwise,
\* and its lock is fair.  A client may stall forever.
FairSpec == Spec /\ WF_vars(Recorder)

-----------------------------------------------------------------------------
(* Properties *)

LastOf(n, from, to) == [i \in 1 .. Min({n, to - from + 1}) |-> to - Min({n, to - from + 1}) + i]

\* A recorder that has never lagged holds exactly the last Capacity alerts sent
\* since it subscribed, the one in hand aside.
RecentIsTheTail ==
    LET stored == recorder.next - (IF recorder.pc = "store" THEN 2 ELSE 1)
    IN  recorder.pc # "unstarted" /\ "recorder" \notin lagged =>
            recent = LastOf(Capacity, start["recorder"], stored)

InHand(ch) == IF client.event[1] = ch THEN {client.event[2]} ELSE {}

\* A client gets the events of a channel in order and none twice, over any lags and
\* changes of its subscriptions; where it has not lagged, it gets every event of a
\* program that it has wanted all along, however it changed its mind about others.
WantedAreDelivered ==
    /\ \A ch \in Channels : \A i, j \in DOMAIN delivered[ch] :
        i < j => delivered[ch][i] < delivered[ch][j]
    /\ client.pc \in {"select", "send"} =>
        \A ch \in Channels \ lagged : \A i \in start[ch] .. client.next[ch] - 1 :
            Program(ch, i) \notin unwanted => i \in ToSet(delivered[ch]) \cup InHand(ch)

\* Every alert sent once the recorder runs is taken by it or lost to a lag: it
\* never falls behind for good.
RecorderCatchesUp ==
    \A n \in 1 .. MaxSent :
        recorder.pc # "unstarted" /\ Len(sent["alert"]) >= n ~> recorder.next > n
=============================================================================
