----------------------------- MODULE MCNVMePath -----------------------------
(***************************************************************************)
(* The instance of NVMePath that TLC checks.  Its four requests turn the   *)
(* completion ring of three entries once and begin a second turn.          *)
(***************************************************************************)
EXTENDS NVMePath

MCLBASizes == <<1, 2>>
MCWorkload == <<"write", "flush", "trim", "read">>
=============================================================================
