-------------------------------- MODULE MCTty --------------------------------
(* Small instances of Tty for TLC.                                         *)
EXTENDS Tty

\* A string that fills the queue between the carriage return and the line feed.
Strings == {<<"x", "x", "LF">>}

\* Single characters, one with the left Alt key, two at once, and as many as a
\* function key sends: more than there is room for.
Keys == {<<"^A", "a">>, <<"M-1">>, <<"CR">>, <<"DEL">>, <<"^U">>, <<"^A", "a", "a", "a">>}
=============================================================================
