--------------------------------- MODULE MCIo ---------------------------------
(* The message of a test program, in one character and in two. *)
EXTENDS Io

MCOneCharacter == <<"P">>
MCMessage      == <<"P", "d">>
=============================================================================
