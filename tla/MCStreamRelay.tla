---------------------------- MODULE MCStreamRelay ---------------------------
(***************************************************************************)
(* A small instance for TLC.  The provider sends one of six streams: an    *)
(* event of a name and one data line, cut anywhere; one with two data      *)
(* lines; an event after the one that ends the answer; two events with     *)
(* CR LF line ends and no blank line at the end; one followed by [DONE];   *)
(* and JSON without server-sent events.  The longer ones may be cut within *)
(* a line, before and after its end, inside the blank line, and within the *)
(* name of the next event's field.                                         *)
(***************************************************************************)
EXTENDS StreamRelay

LF == <<"N">>

CRLF == <<"R", "N">>

Short == [events |-> <<<<"ev", "J">>>>, eol |-> LF, open |-> FALSE, cuts |-> 1..7]

Lines == [events |-> <<<<"ev", "J", "x">>>>, eol |-> LF, open |-> FALSE,
          cuts |-> {1, 3, 5, 6, 9, 10}]

Late == [events |-> <<<<"T">>, <<"J">>>>, eol |-> LF, open |-> FALSE, cuts |-> {3, 4, 5, 6}]

Carriage == [events |-> <<<<"J">>, <<"x">>>>, eol |-> CRLF, open |-> TRUE,
             cuts |-> {2, 4, 5, 7, 8}]

Done == [events |-> <<<<"J">>, <<"DONE">>>>, eol |-> LF, open |-> TRUE, cuts |-> {2, 3, 4, 5, 6}]

Objects == [events |-> <<<<"J">>, <<"T">>, <<"J">>>>, eol |-> <<>>, open |-> FALSE, cuts |-> {}]

SomeStreams == {Short, Lines, Late, Carriage, Done, Objects}

=============================================================================
