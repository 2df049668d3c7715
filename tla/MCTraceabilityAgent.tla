------------------------- MODULE MCTraceabilityAgent -------------------------
(* A small instance of TraceabilityAgent; the constants are in the .cfg      *)
(* files.                                                                    *)
EXTENDS TraceabilityAgent
=============================================================================
