------------------------------ MODULE MCBridge ------------------------------
(***************************************************************************)
(* Instances of the serial bridge for TLC.                                 *)
(***************************************************************************)
EXTENDS SerialBridge, TLC

\* As the robot's text has them: an object and an array within an object.
MCText == <<"lbrace", "lbrace", "rbrace", "lbracket", "rbracket", "rbrace">>

\* The shortest text of which a part can pass for a whole: of what is within
\* it, only the end of an array is kept.
ShortText == <<"lbrace", "rbracket", "rbrace">>

\* Memory behind a read: zero, or the rest of another use of the stack.
MCJunk == {<<>>, <<"hi", "rbrace">>}

NoJunk == {<<>>}
=============================================================================
