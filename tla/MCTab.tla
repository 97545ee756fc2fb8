------------------------------- MODULE MCTab -------------------------------
EXTENDS Tab

\* Two ULIDs of two digits and one byte: the least and the greatest.
TwoULIDs == {<<0, 1>>, <<7, 31>>}
=============================================================================
