------------------------------- MODULE MCBlynk -------------------------------
(***************************************************************************)
(* The connections to Blynk for TLC: the second message is a Stop.         *)
(***************************************************************************)
EXTENDS BlynkConnection

SecondIsStop == {2}

=============================================================================
