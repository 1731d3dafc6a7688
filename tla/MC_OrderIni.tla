---------------------------- MODULE MC_OrderIni ----------------------------
(* OrderIni for model checking.  Outside service mode ROI all requests     *)
(* pass, so one kind of them is enough.                                    *)
EXTENDS OrderIni

MCPosts == {r \in Request : ~r.roi => r.exec = "SO"}
=============================================================================
