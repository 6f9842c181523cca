------------------------------ MODULE MCVmiModule ------------------------------
EXTENDS VmiModule

OnePin == 1 .. 1
TwoPins == 1 .. 2
SecondPin == {2}

=============================================================================
