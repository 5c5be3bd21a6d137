--------------------------- MODULE MCBlockMetadata ---------------------------
\* Three epochs of two slots, led in turn; the keeper starts in the second.
EXTENDS BlockMetadata

CONSTANTS a, b

Both == {a, b}
InTurn == [s \in AllSlots |-> IF s % 2 = 0 THEN a ELSE b]
OneSkipped == {AllSlots \ {3}}
OnlyOneKnown == {{a}}
OneMissing == {(Both \X AllEpochs) \ {<<a, 1>>}}
=============================================================================
