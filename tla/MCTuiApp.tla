------------------------------- MODULE MCTuiApp -------------------------------
(***************************************************************************)
(* The instance of TuiApp for TLC: three transactions, whose data fills    *)
(* two rows and a half, is absent, or fills a row and a half below a line  *)
(* that wraps.  The panel is as wide as a row of the dump, or so narrow    *)
(* that each row takes two lines.                                          *)
(***************************************************************************)
EXTENDS TuiApp

CONSTANTS p, q

MCPrograms == {p, q}
MCAlertsOf == {p}
MCBoot == <<p>>
MCDataLen == <<5, 0, 3>>
Wide == [x |-> 1, y |-> 1, w |-> 14, h |-> 3]
Narrow == [x |-> 1, y |-> 1, w |-> 11, h |-> 3]
MCRects == {Wide, Narrow}
MCWrapped == [r \in MCRects |-> <<0, 0, 1>>]
MCFolded == [r \in MCRects |-> IF r = Narrow THEN 1 ELSE 0]
MCTabs == <<"Overview", "Explain", "Logs">>
=============================================================================
