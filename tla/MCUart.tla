------------------------------- MODULE MCUart -------------------------------
(***************************************************************************)
(* The three lines of the demo kernel, cut down, with a text that has a    *)
(* newline inside and an empty one.                                        *)
(***************************************************************************)
EXTENDS Uart

SmallTexts == <<<<"=", "=", "=">>, <<"h", "\n", "i">>, <<>>, <<"=", "=", "=">>>>
SmallBytes == {"=", "h", "i", Newline, Return}
=============================================================================
