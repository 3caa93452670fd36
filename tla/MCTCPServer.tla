---------------------------- MODULE MCTCPServer -----------------------------
(* Small instances of TCPServer for TLC.                                    *)
EXTENDS TCPServer, TLC

CONSTANTS c1, c2, c3

MCConns == {c1, c2, c3}

(* The tasks of two clients finish by themselves, the third hangs up.      *)
MCTalking == {c1}
MCFinishing == {c1, c2}
MCHangingUp == {c3}
=============================================================================
