------------------------------ MODULE MCTable ------------------------------
EXTENDS Table

MCUserKeys   == 0 .. 3
MCEntrySizes == {1, 3}

=============================================================================
