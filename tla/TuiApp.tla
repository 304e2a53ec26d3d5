------------------------------- MODULE TuiApp -------------------------------
(***************************************************************************)
(* The terminal dashboard (gulfwatch-tui: app.rs, the loop of main.rs, and *)
(* of ui.rs what keyboard and mouse depend on: which row is highlighted,   *)
(* and where the bytes of an instruction are drawn).                       *)
(*                                                                         *)
(* One turn of the loop drains both broadcast receivers, refreshes the     *)
(* programs, draws (Frame), and handles at most one event.  Items are      *)
(* numbered in the order they are sent.  A transaction has the length of   *)
(* the instruction data its Explain tab shows.  The panel is laid out anew *)
(* in each frame, in one of the Rects (the terminal is resized), and lines *)
(* that are too long for it are wrapped: of a transaction, Wrapped[r][n]   *)
(* more rows above the dump, and Folded[r] more for each row of the dump.  *)
(* Quitting ends the behavior and is left out, as are the scroll offset of *)
(* the metrics panel and the key that captures the mouse: a click is an    *)
(* event like the others.  Rows of the dump have BytesPerRow bytes (16),   *)
(* lists MaxFeed (500) and MaxAlerts (50) entries, scroll offsets saturate *)
(* at MaxScroll (u16).  AlertsOf, MaxTxs, MaxSent and MaxEdits bound what  *)
(* the rest of the process does.                                           *)
(***************************************************************************)
EXTENDS SequencesExt

CONSTANTS
    Programs, Boot,
    MaxFeed, MaxAlerts, Ring, Visible,
    DataLen,                 \* of the n-th transaction
    Rects, Wrapped, Folded,
    BytesPerRow, HexStart, Tabs, MaxScroll,
    AlertsOf, MaxTxs, MaxSent, MaxEdits

ASSUME BootArePrograms == Boot \in Seq(Programs)
ASSUME RowsAreEven == BytesPerRow \in Nat /\ BytesPerRow % 2 = 0 /\ BytesPerRow > 0
ASSUME ExplainIsATab == "Explain" \in ToSet(Tabs)
ASSUME LimitsArePositive == {MaxFeed, MaxAlerts, Ring, Visible} \subseteq Nat \ {0}
ASSUME DataIsGiven == MaxTxs \in Nat /\ DataLen \in [1 .. MaxTxs -> Nat]
ASSUME PlacesAreOnScreen == HexStart \in Nat /\ Rects \subseteq [x : Nat, y : Nat, w : Nat, h : Nat]

\* A gutter of 8 columns, 3 a byte, one between the halves of a row; the blank at
\* the end may be cut.
RowWidth == 8 + 3 * BytesPerRow

ASSUME LinesAreWrapped ==
    /\ Wrapped \in [Rects -> [1 .. MaxTxs -> Nat]]
    /\ Folded \in [Rects -> Nat]
    /\ \A r \in Rects : Folded[r] = 0 <=> r.w >= RowWidth

VARIABLES
    monitored,          \* monitored_programs
    txq, alertq,        \* this receiver's part of the broadcast channels: [items, lagged],
                        \* where lagged is history: an item was ever overwritten
    sent,               \* [txs, alerts, edits]: how many so far
    txs, alerts, programs,
    panel, selected,
    focus,              \* selected_program: 0 for all, else an index
    view,               \* [kind |-> "dashboard" | "tx" | "alert", item]
    scroll, tab, cursor,
    cells,              \* [rect, start, len]: what the Explain tab wrote last
    fresh,              \* a frame was drawn since the last event
    shown               \* history: the item highlighted in a fresh frame

feeds == <<txq, alertq, sent, monitored>>
lists == <<txs, alerts, programs>>
vars == <<feeds, lists, panel, selected, focus, view, scroll, tab, cursor, cells, fresh, shown>>

Nothing == [n |-> 0]
Dashboard == [kind |-> "dashboard", item |-> Nothing]
NoRect == [x |-> 0, y |-> 0, w |-> 0, h |-> 0]
Sidebar == 0
Transactions == 1
Metrics == 2
Alerts == 3
PanelCount == 4

Init ==
    /\ monitored = Boot
    /\ txq = [items |-> << >>, lagged |-> FALSE]
    /\ alertq = [items |-> << >>, lagged |-> FALSE]
    /\ sent = [txs |-> 0, alerts |-> 0, edits |-> 0]
    /\ txs = << >> /\ alerts = << >> /\ programs = << >>
    /\ panel = Transactions /\ selected = 0 /\ focus = 0
    /\ view = Dashboard /\ scroll = 0 /\ tab = 1 /\ cursor = 0
    /\ cells = [rect |-> NoRect, start |-> 0, len |-> 0]
    /\ fresh = FALSE /\ shown = Nothing

-----------------------------------------------------------------------------
(* What the rest of the process does *)

Offer(q, item) ==
    IF Len(q.items) < Ring THEN [q EXCEPT !.items = Append(@, item)]
    ELSE [items |-> Append(Tail(q.items), item), lagged |-> TRUE]

Unattended == UNCHANGED <<lists, panel, selected, focus, view, scroll, tab,
                          cursor, cells, fresh, shown>>

\* The worker publishes transactions of monitored programs.
SendTx(p) ==
    /\ p \in ToSet(monitored) /\ sent.txs < MaxTxs
    /\ sent' = [sent EXCEPT !.txs = @ + 1]
    /\ txq' = Offer(txq, [n |-> sent'.txs, program |-> p])
    /\ Unattended /\ UNCHANGED <<alertq, monitored>>

SendAlert(p) ==
    /\ p \in AlertsOf /\ sent.alerts < MaxSent
    /\ sent' = [sent EXCEPT !.alerts = @ + 1]
    /\ alertq' = Offer(alertq, [n |-> sent'.alerts, program |-> p])
    /\ Unattended /\ UNCHANGED <<txq, monitored>>

EditPrograms(p) ==
    /\ sent.edits < MaxEdits
    /\ sent' = [sent EXCEPT !.edits = @ + 1]
    /\ monitored' = IF p \in ToSet(monitored) THEN Remove(monitored, p) ELSE Append(monitored, p)
    /\ Unattended /\ UNCHANGED <<txq, alertq>>

-----------------------------------------------------------------------------
(* poll_updates, refresh_programs and the lists *)

PopEarly(list, item, cap) ==
    LET longer == <<item>> \o list
    IN  IF Len(longer) >= cap THEN Front(longer) ELSE longer

Insert(list, item, cap) ==
    LET longer == <<item>> \o list
    IN  IF Len(longer) > cap THEN Front(longer) ELSE longer

\* A lag is skipped: what is left in the ring follows it.
Drain(list, q, cap) ==
    LET after[k \in 0 .. Len(q.items)] ==
            IF k = 0 THEN list ELSE Insert(after[k - 1], q.items[k], cap)
    IN  after[Len(q.items)]

Refocus(f, ps) == IF f > Len(ps) THEN Len(ps) ELSE f

FocusedId(f, ps) == IF f \in DOMAIN ps THEN {ps[f]} ELSE {}

Filtered(list, f, ps) ==
    LET among[k \in 0 .. Len(list)] ==      \* the first k
            IF k = 0 THEN << >>
            ELSE IF FocusedId(f, ps) \subseteq {list[k].program}
                 THEN Append(among[k - 1], list[k])
                 ELSE among[k - 1]
    IN  among[Len(list)]

Listed(pan, ts, as, f, ps) ==
    CASE pan = Transactions -> Filtered(ts, f, ps)
      [] pan = Alerts -> Filtered(as, f, ps)
      [] OTHER -> << >>

ListLen(pan, ts, as, f, ps) ==
    IF pan = Sidebar THEN Len(ps) + 1 ELSE Len(Listed(pan, ts, as, f, ps))

-----------------------------------------------------------------------------
(* draw *)

\* The rows from the scroll offset on that fit, one of them highlighted.
Highlighted(list) ==
    LET offset == IF selected >= Visible THEN selected - Visible + 1 ELSE 0
        rows   == {i \in offset .. offset + Visible - 1 : i < Len(list) /\ i = selected}
    IN  IF rows = {} THEN Nothing ELSE list[(CHOOSE i \in rows : TRUE) + 1]

ShownLen(item) == DataLen[item.n]

Exploring == view.kind = "tx" /\ Tabs[tab] = "Explain"

\* A transaction without data leaves the cells of the one before, except for the
\* place of the paragraph.  That place is forgotten outside the Explain tab: in the
\* other views the code leaves it, but no click reads it before the next frame.
DrawCells(rect) ==
    IF ~Exploring THEN [cells EXCEPT !.rect = NoRect]
    ELSE IF ShownLen(view.item) = 0 THEN [cells EXCEPT !.rect = rect]
    ELSE [rect |-> rect, start |-> HexStart, len |-> ShownLen(view.item)]

Frame ==
    /\ txs' = Drain(txs, txq, MaxFeed) /\ txq' = [txq EXCEPT !.items = << >>]
    /\ alerts' = Drain(alerts, alertq, MaxAlerts) /\ alertq' = [alertq EXCEPT !.items = << >>]
    /\ programs' \in {monitored, programs}     \* try_read may fail
    /\ focus' = Refocus(focus, programs')
    /\ \E rect \in Rects : cells' = DrawCells(rect)
    /\ shown' = IF view.kind = "dashboard" THEN Highlighted(Listed(panel, txs', alerts', focus', programs'))
                ELSE view.item
    /\ fresh' = TRUE
    /\ UNCHANGED <<sent, monitored, panel, selected, view, scroll, tab, cursor>>

-----------------------------------------------------------------------------
(* Events *)

Event == fresh /\ fresh' = FALSE /\ shown' = Nothing /\ UNCHANGED <<feeds, lists, cells>>
OnDashboard == Event /\ view = Dashboard
InDetail == Event /\ view # Dashboard
Detail == <<view, scroll, tab, cursor>>
Place == <<panel, selected, focus>>

Up(x) == IF x = 0 THEN 0 ELSE x - 1
Down(x) == IF x = MaxScroll THEN x ELSE x + 1

SwitchPanel ==
    /\ OnDashboard
    /\ panel' \in {(panel + 1) % PanelCount, IF panel = 0 THEN PanelCount - 1 ELSE panel - 1}
    /\ selected' = 0
    /\ UNCHANGED <<focus, Detail>>

Length == ListLen(panel, txs, alerts, focus, programs)

MoveUp ==
    /\ OnDashboard
    /\ panel # Metrics
    /\ selected' = Up(selected)
    /\ UNCHANGED <<panel, focus, Detail>>

MoveDown ==
    /\ OnDashboard
    /\ panel # Metrics
    /\ selected' = IF selected < Up(Length) THEN selected + 1 ELSE selected
    /\ UNCHANGED <<panel, focus, Detail>>

\* A digit out of range does nothing; the selection stays where it is.
SelectProgram(i) ==
    /\ OnDashboard
    /\ focus' = IF i <= Len(programs) THEN i ELSE focus
    /\ UNCHANGED <<panel, selected, Detail>>

PickSidebar ==
    /\ OnDashboard /\ panel = Sidebar
    /\ focus' = IF selected <= Len(programs) THEN selected ELSE focus
    /\ UNCHANGED <<panel, selected, Detail>>

OpenUnfiltered ==
    /\ OnDashboard /\ panel = Transactions /\ selected < Len(txs)
    /\ view' = [kind |-> "tx", item |-> txs[selected + 1]]
    /\ scroll' = 0 /\ tab' = 1 /\ cursor' = 0
    /\ UNCHANGED Place

OpenTransaction ==
    /\ OnDashboard /\ panel = Transactions /\ selected < Length
    /\ view' = [kind |-> "tx", item |-> Filtered(txs, focus, programs)[selected + 1]]
    /\ scroll' = 0 /\ tab' = 1 /\ cursor' = 0
    /\ UNCHANGED Place

OpenAlert ==
    /\ OnDashboard /\ panel = Alerts /\ selected < Length
    /\ view' = [kind |-> "alert", item |-> Filtered(alerts, focus, programs)[selected + 1]]
    /\ scroll' = 0
    /\ UNCHANGED <<tab, cursor, Place>>

CloseDetail ==
    /\ InDetail
    /\ view' = Dashboard /\ scroll' = 0 /\ tab' = 1 /\ cursor' = 0
    /\ UNCHANGED Place

ScrollDetail ==
    /\ InDetail
    /\ scroll' \in {Up(scroll), Down(scroll)}
    /\ UNCHANGED <<view, tab, cursor, Place>>

SwitchTab ==
    /\ InDetail /\ view.kind = "tx"
    /\ tab' \in {(tab % Len(Tabs)) + 1, ((tab + Len(Tabs) - 2) % Len(Tabs)) + 1}
    /\ scroll' = 0
    /\ UNCHANGED <<view, cursor, Place>>

\* Shift-HJKL, and the wheel of a captured mouse.
MoveCursor(delta) ==
    /\ InDetail /\ Exploring /\ ShownLen(view.item) > 0
    /\ LET next == cursor + delta
           last == ShownLen(view.item) - 1
       IN  cursor' = IF next < 0 THEN 0 ELSE IF next > last THEN last ELSE next
    /\ UNCHANGED <<view, scroll, tab, Place>>

Half == BytesPerRow \div 2
None == -1

LineUnscrolled(row) == row - cells.rect.y

Line(row) == scroll + row - cells.rect.y

\* The byte a click selects: rows of the dump from the start line on, a gutter of
\* 8 columns, 3 columns a byte, one more column between the halves of a row.
Target(col, row) ==
    LET inBytes == col - cells.rect.x - 8
        at      == (IF inBytes < 3 * Half THEN inBytes ELSE inBytes - 1) \div 3
        byte    == (Line(row) - cells.start) * BytesPerRow + at
    IN  IF /\ row \in cells.rect.y .. cells.rect.y + cells.rect.h - 1
           /\ col \in cells.rect.x .. cells.rect.x + cells.rect.w - 1
           /\ Line(row) >= cells.start
           /\ inBytes >= 0 /\ inBytes # 3 * Half /\ at < BytesPerRow
           /\ byte < cells.len
        THEN byte ELSE None

Columns == 0 .. cells.rect.x + cells.rect.w
Rows == 0 .. cells.rect.y + cells.rect.h

Click(col, row) ==
    /\ Event /\ Exploring
    /\ Target(col, row) # None
    /\ cursor' = Target(col, row)
    /\ UNCHANGED <<view, scroll, tab, Place>>

-----------------------------------------------------------------------------
Next ==
    \/ \E p \in Programs : SendTx(p) \/ SendAlert(p) \/ EditPrograms(p)
    \/ Frame
    \/ SwitchPanel \/ MoveUp \/ MoveDown
    \/ \E i \in 0 .. 9 : SelectProgram(i)
    \/ PickSidebar \/ OpenTransaction \/ OpenAlert
    \/ CloseDetail \/ ScrollDetail \/ SwitchTab
    \/ \E delta \in {-1, 1, -BytesPerRow, BytesPerRow} : MoveCursor(delta)
    \/ \E col \in Columns, row \in Rows : Click(col, row)

Spec == Init /\ [][Next]_vars

-----------------------------------------------------------------------------
(* Properties *)

\* The m newest of count items lead the list, the newest first, as far as it has room.
Leads(list, m, count, cap) ==
    \A i \in 1 .. m : i <= count /\ i <= cap => i <= Len(list) /\ list[i].n = count - i + 1

\* What was overwritten in the ring before a frame took it in is missing.
NewestFirst(list, q, count, cap) ==
    /\ \A i, j \in DOMAIN list : i < j => list[i].n > list[j].n
    /\ Len(list) <= cap
    /\ q.items = << >> => Leads(list, IF q.lagged THEN Ring ELSE count, count, cap)

\* Each feed holds the newest items, newest first, up to its limit: nothing but the
\* limit and a lag of the receiver takes an item away, and a lag none of the last
\* Ring items (app.rs:171-196).
FeedsAreCurrent ==
    /\ NewestFirst(txs, txq, sent.txs, MaxFeed)
    /\ NewestFirst(alerts, alertq, sent.alerts, MaxAlerts)

\* Enter opens what the last frame highlighted, though items are inserted in front
\* while the selection is an index, and lists are filtered in two places
\* (app.rs:248-275, ui.rs:281-343, main.rs:141-158).
OpensWhatIsShown ==
    [][view.kind = "dashboard" /\ view'.kind # "dashboard" => view'.item = shown]_vars

\* Where the dump shows a byte that fits on the first line of its row (ui.rs:1622-1643),
\* through the scroll offset and the wrapping of the paragraph (ui.rs:672-675), which
\* moves a row of the dump down by what the lines and the rows above it overflow.
DrawnAt(b) ==
    LET inRow == b % BytesPerRow
        above == Wrapped[cells.rect][view.item.n] + Folded[cells.rect] * (b \div BytesPerRow)
    IN  [row |-> cells.rect.y + HexStart + above + (b \div BytesPerRow) - scroll,
         col |-> cells.rect.x + 8 + 3 * inRow + (IF inRow >= Half THEN 1 ELSE 0)]

OnScreen(place) ==
    /\ place.row \in cells.rect.y .. cells.rect.y + cells.rect.h - 1
    /\ place.col + 1 < cells.rect.x + cells.rect.w

\* A click on either digit of a byte selects that byte, in a panel in which neither
\* the rows of the dump nor the lines above are wrapped.  Otherwise it selects the
\* byte as many rows of the dump below as wrapping has moved this one down, on the
\* first line of a wrapped row (app.rs:329-365, ui.rs:1616).  The cursor stays on
\* the data.
ClickSelectsTheDrawnByte ==
    fresh /\ Exploring /\ ShownLen(view.item) > 0 =>
        /\ cursor < ShownLen(view.item)
        /\ \A b \in 0 .. ShownLen(view.item) - 1, digit \in 0 .. 1 :
              LET at     == DrawnAt(b)
                  moved  == Wrapped[cells.rect][view.item.n] + Folded[cells.rect] * (b \div BytesPerRow)
                  picked == b + BytesPerRow * moved
              IN  OnScreen(at) =>
                    Target(at.col + digit, at.row)
                       = (IF picked < ShownLen(view.item) THEN picked ELSE None)
=============================================================================
