---------------------------- MODULE MCNetmapPort ----------------------------
EXTENDS NetmapPort
SizesSmall == {2, 3}
=============================================================================
