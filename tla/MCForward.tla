------------------------------ MODULE MCForward ------------------------------
EXTENDS Forward

\* A pad with sparse codes, and a mouse with the last code there is.
PadAndMouse ==
    { [abs |-> {0, 2}, rel |-> {}, key |-> {1, 2}],
      [abs |-> {}, rel |-> {1}, key |-> {2, 3}] }
==============================================================================
