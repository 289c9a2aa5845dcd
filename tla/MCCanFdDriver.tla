---------------------------- MODULE MCCanFdDriver ----------------------------
(* Two casters: one whose packets hold no header but the first byte, and    *)
(* one whose payloads do.                                                   *)
EXTENDS CanFdDriver

MCTraffics == {{<<3, 0, 1>>, <<3, 1, 0, 2>>}, {<<3, 1, 3, 0>>, <<3, 0, 2>>}}
=============================================================================
