---------------------------- MODULE MCIngestClient ----------------------------
(***************************************************************************)
(* The instance of IngestClient for TLC: two programs of the start, one    *)
(* that may be added later, and transactions that call them at top level,  *)
(* one after the other, or inside another.                                 *)
(***************************************************************************)
EXTENDS IngestClient

CONSTANTS p, q, r

MCProgramIds == <<p, q>>
MCPrograms == {p, q, r}
MCShapes == {
    [top |-> <<r>>, nested |-> {p}],
    [top |-> <<q, p>>, nested |-> {}],
    [top |-> <<r, q>>, nested |-> {p}]}
=============================================================================
