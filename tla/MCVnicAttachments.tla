------------------------- MODULE MCVnicAttachments -------------------------
EXTENDS VnicAttachments

CONSTANTS a, b, c

MCVnicName == {a, b, c}
MCDistinct == <<a, b, c>>
=============================================================================
