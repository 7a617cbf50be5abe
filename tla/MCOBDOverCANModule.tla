------------------------ MODULE MCOBDOverCANModule -------------------------
(* Two ECUs, 0x7E8 and 0x7E9 as 1 and 2: ECU 1 supports PID p1 only, ECU  *)
(* 2 supports both, so p2 goes to ECU 2 and p1 to ECU 1.  Two dictionaries *)
(* request both PIDs or only p2.                                          *)
EXTENDS OBDOverCANModule, TLC

CONSTANTS p1, p2, NoDict

MCPIDs == {p1, p2}

MCSupported == (1 :> {p1}) @@ (2 :> {p1, p2})

MCDictionaries ==
    {[keys |-> {p1, p2}, requested |-> {p1, p2}],
     [keys |-> {p1, p2}, requested |-> {p2}]}

=============================================================================
