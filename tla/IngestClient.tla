----------------------------- MODULE IngestClient -----------------------------
(***************************************************************************)
(* SolanaIngestClient (gulfwatch-ingest/client.rs, rpc.rs) between a node  *)
(* and the processing worker.  The client keeps one subscription per       *)
(* program it was started with, reads its socket one message at a time,    *)
(* and reads no other while it fetches a transaction and waits for room in *)
(* the channel.  When a connection ends it sleeps, with a backoff, and     *)
(* connects again.                                                         *)
(*                                                                         *)
(* The node (external) notifies each subscription whose program a          *)
(* transaction mentions, may close or break the socket, and may answer a   *)
(* fetch with the transaction, with null, with an error, or never: neither *)
(* connecting nor fetching has a timeout, so neither is fair.  The worker  *)
(* (Pipeline has its steps) takes transactions and stores those of         *)
(* programs monitored by then; a panic ends it.  REST clients add and      *)
(* remove programs.  MaxTxs bounds the transactions, MaxTroubles the       *)
(* connections that end, MaxEdits the edits of the programs.               *)
(***************************************************************************)
EXTENDS SequencesExt

CONSTANTS
    ProgramIds,   \* config.program_ids: the programs monitored at start
    Programs, NoProgram,
    Shapes,       \* transactions: [top |-> programs called, nested |-> programs they call]
    Capacity, MaxBackoff,
    MaxTxs, MaxTroubles, MaxEdits

ASSUME ConfiguredArePrograms == ProgramIds \in Seq(Programs) /\ NoProgram \notin Programs
ASSUME ShapesAreTxs == Shapes \subseteq [top : Seq(Programs), nested : SUBSET Programs]
ASSUME BoundsArePositive == Capacity \in Nat \ {0} /\ MaxBackoff \in Nat \ {0}

VARIABLES
    conn,         \* "connect", "subscribe", "read", "sleep"
    subs,         \* subscriptions sent on this connection
    live,         \* the socket works
    inbox,        \* messages sent by the node and not read yet
    hand,         \* handle_message: [pc, n, attempts]
    backoff,
    channel, open,
    monitored,
    landed,       \* the transactions so far
    notices,      \* every notification sent: [tx, via], via the number of a subscription
    fate,         \* what became of each
    handed,       \* those sent into the channel, in order
    troubles, edits

client == <<conn, subs, hand, backoff>>
outside == <<monitored, landed, notices, edits>>
vars == <<conn, subs, live, inbox, hand, backoff, channel, open, monitored,
          landed, notices, fate, handed, troubles, edits>>

Configured == ToSet(ProgramIds)
Mentioned(t) == ToSet(t.top) \cup t.nested
Idle == [pc |-> "idle", n |-> 0, attempts |-> 0]
Numbers(q) == {q[k].n : k \in {j \in DOMAIN q : q[j].kind = "log"}}

Init ==
    /\ conn = "connect" /\ subs = 0 /\ live = FALSE /\ inbox = << >>
    /\ hand = Idle /\ backoff = 1
    /\ channel = << >> /\ open = TRUE
    /\ monitored = Configured
    /\ landed = << >> /\ notices = << >> /\ fate = << >> /\ handed = << >>
    /\ troubles = 0 /\ edits = 0

-----------------------------------------------------------------------------
(* The node *)

\* One notification per subscription whose program the transaction mentions, in
\* any order of the subscriptions.
Notify(t) == SetToSeqs({k \in 1 .. subs : ProgramIds[k] \in Mentioned(t)})

Land(t) ==
    /\ Len(landed) < MaxTxs
    /\ landed' = Append(landed, t)
    /\ \E told \in IF live THEN Notify(t) ELSE {<< >>} :
          /\ notices' = notices \o
                 [k \in DOMAIN told |-> [tx |-> Len(landed) + 1, via |-> told[k]]]
          /\ fate' = fate \o [k \in DOMAIN told |-> "pending"]
          /\ inbox' = inbox \o [k \in DOMAIN told |-> [kind |-> "log", n |-> Len(notices) + k]]
    /\ UNCHANGED <<client, live, channel, open, monitored, handed, troubles, edits>>

\* Pings, answers to subscriptions, anything that is no notification.
Chatter ==
    /\ live /\ conn = "read" /\ inbox = << >>
    /\ inbox' = <<[kind |-> "other", n |-> 0]>>
    /\ UNCHANGED <<client, live, channel, open, outside, fate, handed, troubles>>

Lose(lost) == fate' = [n \in DOMAIN fate |-> IF n \in lost THEN "lost" ELSE fate[n]]

\* A close frame is read after what was sent before it; a broken socket may
\* take any end of that with it.
Hang(kind) ==
    /\ live /\ troubles < MaxTroubles
    /\ live' = FALSE /\ troubles' = troubles + 1
    /\ \E kept \in 0 .. Len(inbox) :
          /\ kind = "close" => kept = Len(inbox)
          /\ inbox' = Append(SubSeq(inbox, 1, kept), [kind |-> kind, n |-> 0])
          /\ Lose(Numbers(SubSeq(inbox, kept + 1, Len(inbox))))
    /\ UNCHANGED <<client, channel, open, outside, handed>>

-----------------------------------------------------------------------------
(* connect_and_stream and run *)

End(clean) ==
    /\ conn' = "sleep" /\ subs' = 0 /\ live' = FALSE /\ inbox' = << >>
    /\ backoff' = IF clean THEN 1 ELSE backoff

Connect ==
    /\ conn = "connect"
    /\ conn' = "subscribe" /\ live' = TRUE
    /\ UNCHANGED <<subs, inbox, hand, backoff, channel, open, outside, fate, handed, troubles>>

ConnectFails ==
    /\ conn = "connect" /\ troubles < MaxTroubles
    /\ troubles' = troubles + 1
    /\ End(FALSE)
    /\ UNCHANGED <<hand, channel, open, outside, fate, handed>>

Subscribe ==
    /\ conn = "subscribe"
    /\ IF subs < Len(ProgramIds)
       THEN subs' = subs + 1 /\ UNCHANGED conn
       ELSE conn' = "read" /\ UNCHANGED subs
    /\ UNCHANGED <<live, inbox, hand, backoff, channel, open, outside, fate, handed, troubles>>

SubscribeFails ==
    /\ conn = "subscribe" /\ ~live /\ subs < Len(ProgramIds)
    /\ Lose(Numbers(inbox)) /\ End(FALSE)
    /\ UNCHANGED <<hand, channel, open, outside, handed, troubles>>

Reading(kind) == conn = "read" /\ hand = Idle /\ inbox # << >> /\ Head(inbox).kind = kind

ReadAhead ==
    /\ conn = "read" /\ inbox # << >> /\ Head(inbox).kind = "log"
    /\ hand' = [pc |-> "fetch", n |-> Head(inbox).n, attempts |-> 0]
    /\ inbox' = Tail(inbox)
    /\ UNCHANGED <<conn, subs, live, backoff, channel, open, outside, fate, handed, troubles>>

ReadNotice ==
    /\ Reading("log")
    /\ hand' = [pc |-> "fetch", n |-> Head(inbox).n, attempts |-> 0]
    /\ inbox' = Tail(inbox)
    /\ UNCHANGED <<conn, subs, live, backoff, channel, open, outside, fate, handed, troubles>>

ReadOther ==
    /\ Reading("other")
    /\ inbox' = Tail(inbox)
    /\ UNCHANGED <<client, live, channel, open, outside, fate, handed, troubles>>

\* The pong to a ping could not be written.
PongFails ==
    /\ Reading("other") /\ ~live
    /\ Lose(Numbers(inbox)) /\ End(FALSE)
    /\ UNCHANGED <<hand, channel, open, outside, handed, troubles>>

ReadEnd ==
    /\ Reading("close") \/ Reading("error")
    /\ Lose(Numbers(inbox)) /\ End(Head(inbox).kind = "close")
    /\ UNCHANGED <<hand, channel, open, outside, handed, troubles>>

Wake ==
    /\ conn = "sleep"
    /\ conn' = "connect" /\ backoff' = IF backoff * 2 < MaxBackoff THEN backoff * 2 ELSE MaxBackoff
    /\ UNCHANGED <<subs, live, inbox, hand, channel, open, outside, fate, handed, troubles>>

-----------------------------------------------------------------------------
(* handle_message *)

Settle(outcome) == fate' = [fate EXCEPT ![hand.n] = outcome] /\ hand' = Idle

\* The answer to getTransaction; after the third null the client gives up, after
\* an error, or an answer that cannot be parsed, at once.
FetchNull ==
    /\ hand.pc = "fetch"
    /\ IF hand.attempts + 1 < 3
       THEN hand' = [hand EXCEPT !.attempts = @ + 1] /\ UNCHANGED fate
       ELSE Settle("lost")
    /\ UNCHANGED <<conn, subs, live, inbox, backoff, channel, open, outside, handed, troubles>>

FetchFails ==
    /\ hand.pc = "fetch"
    /\ Settle("lost")
    /\ UNCHANGED <<conn, subs, live, inbox, backoff, channel, open, outside, handed, troubles>>

Fetched ==
    /\ hand.pc = "fetch"
    /\ hand' = [hand EXCEPT !.pc = "send"]
    /\ UNCHANGED <<conn, subs, live, inbox, backoff, channel, open, outside, fate, handed, troubles>>

AttributedToAny(t) == IF t.top = << >> THEN NoProgram ELSE Head(t.top)

\* The first top level call of a program of the start, else the first one.
Attributed(t) ==
    LET mine == SelectInSeq(t.top, LAMBDA p : p \in Configured)
    IN  IF mine # 0 THEN t.top[mine]
        ELSE IF t.top # << >> THEN Head(t.top)
        ELSE NoProgram

SendAndRetry ==
    /\ hand.pc = "send" /\ Len(channel) < Capacity /\ hand.attempts < 3
    /\ channel' = Append(channel, hand.n) /\ handed' = Append(handed, hand.n)
    /\ hand' = [hand EXCEPT !.pc = "fetch", !.attempts = @ + 1] /\ fate' = [fate EXCEPT ![hand.n] = "sent"]
    /\ UNCHANGED <<conn, subs, live, inbox, backoff, open, outside, troubles>>

Send ==
    /\ hand.pc = "send" /\ open /\ Len(channel) < Capacity
    /\ channel' = Append(channel, hand.n) /\ handed' = Append(handed, hand.n)
    /\ Settle("sent")
    /\ UNCHANGED <<conn, subs, live, inbox, backoff, open, outside, troubles>>

SendInsists ==
    /\ hand.pc = "send" /\ ~open
    /\ UNCHANGED vars

\* The receiver is gone: the client logs that it stops, and goes on.
SendFails ==
    /\ hand.pc = "send" /\ ~open
    /\ Settle("lost")
    /\ UNCHANGED <<conn, subs, live, inbox, backoff, channel, open, outside, handed, troubles>>

-----------------------------------------------------------------------------
(* The worker and the REST handlers *)

ProgramOf(n) == Attributed(landed[notices[n].tx])

Take ==
    /\ open /\ channel # << >>
    /\ fate' = [fate EXCEPT ![Head(channel)] =
                   IF ProgramOf(Head(channel)) \in monitored THEN "stored" ELSE "dead"]
    /\ channel' = Tail(channel)
    /\ UNCHANGED <<client, live, inbox, open, outside, handed, troubles>>

WorkerPanics ==
    /\ open /\ edits < MaxEdits
    /\ open' = FALSE /\ channel' = << >> /\ edits' = edits + 1
    /\ Lose(ToSet(channel))
    /\ UNCHANGED <<client, live, inbox, monitored, landed, notices, handed, troubles>>

EditPrograms(p) ==
    /\ edits < MaxEdits
    /\ edits' = edits + 1
    /\ monitored' = IF p \in monitored THEN monitored \ {p} ELSE monitored \cup {p}
    /\ UNCHANGED <<client, live, inbox, channel, open, landed, notices, fate, handed, troubles>>

-----------------------------------------------------------------------------
\* Steps the client and the worker take without waiting for the node.
Progress ==
    \/ Subscribe \/ SubscribeFails \/ ReadNotice \/ ReadOther \/ PongFails
    \/ ReadEnd \/ Wake \/ Send \/ SendFails

Next ==
    \/ \E t \in Shapes : Land(t)
    \/ Chatter
    \/ \E kind \in {"close", "error"} : Hang(kind)
    \/ Connect \/ ConnectFails
    \/ FetchNull \/ FetchFails \/ Fetched
    \/ Progress \/ Take \/ WorkerPanics
    \/ \E p \in Programs : EditPrograms(p)

Spec == Init /\ [][Next]_vars /\ WF_vars(Progress) /\ WF_vars(Take)

-----------------------------------------------------------------------------
(* Properties *)

\* The client implements Delivery: through retries, broken sockets and a full
\* channel, each notification is handed on at most once and in order.
Promise == INSTANCE Delivery WITH offered <- Len(notices), handed <- handed
DeliversInOrder == Promise!Spec

\* No notification is forgotten or counted twice: it is pending exactly while it
\* waits in the socket or is being handled, and sent exactly while it waits in
\* the channel; everything else has its fate (client.rs:73-148).
Accounted ==
    \A n \in DOMAIN notices :
        /\ (fate[n] = "pending") <=> (n \in Numbers(inbox) \/ (hand # Idle /\ hand.n = n))
        /\ (fate[n] = "sent") <=> (n \in ToSet(channel))
        /\ (hand # Idle /\ hand.n = n) => n \notin Numbers(inbox)

\* A transaction comes only through the subscriptions of the start (main.rs:54), at most
\* once through each.  It is handed on under the first of their programs it calls at
\* top level, whichever of them it came through (client.rs:56, parser.rs:69-76), and
\* under another, which may have been added since, only when it calls none of them at
\* top level and mentions the one it came through in a nested call.
ComesThroughSubscriptions ==
    /\ \A k, l \in DOMAIN handed : notices[handed[k]] = notices[handed[l]] => k = l
    /\ \A n \in ToSet(handed) :
        LET t == landed[notices[n].tx]
            mine == {j \in DOMAIN t.top : t.top[j] \in Configured}
        IN  \/ \E i \in mine : ProgramOf(n) = t.top[i] /\ \A j \in mine : i <= j
            \/ mine = {} /\ ProgramIds[notices[n].via] \in t.nested

\* Whatever happens, the client comes back to where it waits for the node: for a
\* connection, for an answer, or for a message.  Neither a full channel nor a
\* worker that ended holds it for ever (client.rs:133, 45).
WaitsOnlyForTheNode ==
    []<>(\/ conn = "connect" \/ hand.pc = "fetch"
         \/ conn = "read" /\ hand = Idle /\ inbox = << >>)
=============================================================================
