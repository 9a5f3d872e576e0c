--------------------------- MODULE MCFirmwareUpdate -------------------------
(***************************************************************************)
(* FirmwareUpdate with files for TLC: sizes below, at and above the size   *)
(* of the image area, and files that are longer or shorter than a command  *)
(* says.                                                                   *)
(***************************************************************************)
EXTENDS FirmwareUpdate

File(l, s) == [length |-> l, size |-> s]

Various == {File(3, 3), File(4, 4), File(3, 1), File(5, 2), File(2, 3),
            File(6, 6), File(1, 0)}
Two     == {File(2, 2), File(3, 3)}
=============================================================================
