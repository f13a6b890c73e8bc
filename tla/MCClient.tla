------------------------------ MODULE MCClient ------------------------------
(***************************************************************************)
(* Instances of Client for TLC.                                            *)
(***************************************************************************)
EXTENDS Client

\* Lines that are empty, fit everywhere, fill the buffer only together with what is
\* left of the answer to an earlier one, or are longer than the connection takes at once.
SomeInputs == SeqOf({0, 1, 2, 4}, 4)

=============================================================================
