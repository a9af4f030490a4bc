-------------------------- MODULE MCSerialTransport --------------------------
(* A small alphabet for SerialTransport: 4 bytes, two of them delimiters.  *)
EXTENDS SerialTransport

(* An empty message, and one whose id is a delimiter and whose payload    *)
(* looks like the end of a frame and the start of another.                 *)
MCMessages == { [id |-> 1, data |-> <<>>],
                [id |-> DelimStart, data |-> <<DelimEnd, DelimStart>>] }
=============================================================================
