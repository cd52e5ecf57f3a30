---------------------------- MODULE MCCliSession ----------------------------
(* Instances of CliSession for TLC. *)
EXTENDS CliSession

\* "1", "1-2", "," and the refused "2-1".
MCExpressions == {<< <<1, 1>> >>, << <<1, 2>> >>, <<>>, << <<2, 1>> >>}

=============================================================================
