---------------------------- MODULE MCStewardCrank ----------------------------
\* Small instances of StewardCrank for TLC.
EXTENDS StewardCrank, TLC

CONSTANTS v1, v2, v3

Three == {v1, v2, v3}
Two == {v2, v3}
OnlyV1 == {v1}
V1AndV2 == {v1, v2}
OnlyV2 == {v2}
OnlyV3 == {v3}
None == {}
PoolOfTwo == <<v1, v3>>
PoolOfOne == <<v3>>
=============================================================================
