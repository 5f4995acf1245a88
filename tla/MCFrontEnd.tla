----------------------------- MODULE MCFrontEnd -----------------------------
(* The front end of a configuration for TLC.  A behaviour lexes and parses  *)
(* one of MCFlow's texts or token streams, or compiles, builds and serves   *)
(* one of MCRouting's documents, or imports one of its foreign              *)
(* configurations first.                                                    *)
EXTENDS MCFlow, MCRouting

VARIABLE half  \* the part of the front end this behaviour runs

allVars == <<vars, ivars, half>>

FlowAtRest == LexerNew(<<>>, "feeding")

FrontEndInit ==
    \/ half = "text" /\ Init /\ RoutingStart(<<>>) /\ imported = NotImported
    \/ half = "document" /\ FlowAtRest /\ RoutingInit /\ imported = NotImported
    \/ half = "foreign" /\ FlowAtRest /\ ImportInit

FrontEndNext ==
    \/ half = "text" /\ Next /\ UNCHANGED <<ivars, half>>
    \/ half \in {"document", "foreign"} /\ ImportNext /\ UNCHANGED <<vars, half>>

FrontEndSpec == FrontEndInit /\ [][FrontEndNext]_allVars
=============================================================================
