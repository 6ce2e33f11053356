---------------------------- MODULE MCDebugWindows ----------------------------
EXTENDS DebugWindows
\* 2 bytes at 1, of which the second decodes on its own, 3 at 4, then single ones
MCInsnLen == <<2, 1, 1, 3, 2, 1, 1>>
\* where it stops, in the model, is where decoding from the first stop gets to
ASSUME StopsInStep == StopsDecode
=============================================================================
