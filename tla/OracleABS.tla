------------------------------ MODULE OracleABS ------------------------------
(***************************************************************************)
(* plant/oracle_abs.py: the reference controller in Python that validates  *)
(* the plant.  Its state is previous_command; a step returns the command   *)
(* and stores it.                                                          *)
(***************************************************************************)
EXTENDS AbsController

OracleReset == 0

OracleStep(previous_command, slip, v, driver_request) ==
    IF FLt(v, ABS_LOW_SPEED_BYPASS) THEN driver_request
    ELSE IF SlipAbove(slip, ABS_SLIP_UPPER) THEN 0
    ELSE IF SlipBelow(slip, ABS_SLIP_LOWER) THEN driver_request
    ELSE previous_command
=============================================================================
