-------------------------------- MODULE MCPs2 --------------------------------
\* Ps2 for TLC.  Scan codes with and without the bits that matter in a
\* configuration byte: 15h (q), 1ch (a), 5ah (enter).  The firmware leaves
\* everything off, everything on with translation, or a disabled port.
EXTENDS Ps2

MCScanCodes == {{0, 2, 4}, {1, 3, 4, 6}, {0, 3, 5}}
MCFound == {{}, {KINT, AUXINT, XLATE, 2}, {KINT, KOFF, XLATE}}
MCTests == {{0, 2, 4, 6}, {2, 3, 4, 5, 6, 7}}
=============================================================================
