------------------------------- MODULE MCHellos -------------------------------
(* One connection whose ClientHello the kernel may hand over in pieces. *)
EXTENDS Hellos

MCRemote == <<"p">>
=============================================================================
