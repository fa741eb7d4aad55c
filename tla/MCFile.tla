-------------------------------- MODULE MCFile --------------------------------
(* Instance of File for TLC: writes of nothing to three bytes.             *)
EXTENDS File

MCData == {<<>>, <<1>>, <<1, 2>>, <<2, 1, 2>>}
===============================================================================
