------------------------- MODULE MCOBDECUDetection -------------------------
(* Frames at and around the ECU ranges: 11-bit 0x7E7, 0x7E8, 0x7EF, 0x7F0 *)
(* and a remote frame 0x7E8; 29-bit 0x18DAF0FF, 0x18DAF100, 0x18DAF159,   *)
(* 0x18DAF1FF and 0x18DAF200.                                             *)
EXTENDS OBDECUDetection

Std(id) == [id |-> id, flags |-> {}]

Ext(id) == [id |-> id, flags |-> {"EFF"}]

MCFrames ==
    {Std(2023), Std(2024), Std(2031), Std(2032),
     [id |-> 2024, flags |-> {"RTR"}],
     Ext(417001727), Ext(417001728), Ext(417001817), Ext(417001983),
     Ext(417001984)}

=============================================================================
