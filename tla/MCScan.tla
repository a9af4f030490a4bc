------------------------------- MODULE MCScan -------------------------------
(* Small grids for Scan.                                                   *)
EXTENDS Scan

CONSTANTS Steps, Widths, Heights

MCSettings == [ step : Steps, dx : Widths, dy : Heights ]
MCOffGrid  == { <<-1, -1>> }
=============================================================================
