-------------------------------- MODULE Null --------------------------------
\* JavaScript's null: one constant for every module that is combined with others.
CONSTANT None
=============================================================================
