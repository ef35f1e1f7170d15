------------------------ MODULE MCFirmwareInstallation ------------------------
(* FirmwareInstallation with releases that are older, newer, someone else's,  *)
(* and longer than the slot.                                                  *)
EXTENDS FirmwareInstallation

CONSTANTS h1, h2

Image(version, ours, parts) == [version |-> version, ours |-> ours, parts |-> parts]

MCImages == {Image(1, TRUE, 2), Image(2, TRUE, 2), Image(3, TRUE, 2), Image(4, TRUE, 4),
             Image(2, FALSE, 2)}

=============================================================================
