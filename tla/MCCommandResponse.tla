-------------------------- MODULE MCCommandResponse --------------------------
\* Two devices of the same kind and one of another kind, and a localid without a
\* worker between them.
EXTENDS CommandResponse

CONSTANTS power, getfile

MCHandles == [w \in Workers |-> IF w = 4 THEN {power, getfile} ELSE {power}]
=============================================================================
