----------------------------- MODULE MCTerminal -----------------------------
(* Small instances of Terminal for TLC.                                    *)
EXTENDS Terminal

MCFinals == {"[", "C", "D"}

MCCSIParams == {"3"}

(* A person at a telnet client in character mode: one key at a time, Enter *)
(* as a carriage return and a NUL, and keys that send whole sequences.     *)
ArrowKeys == {<<"ESC", "[", "C">>, <<"ESC", "[", "D">>, <<"SOH">>, <<"ENQ">>}

OtherKeys == {<<"ESC">>, <<"ESC", "[", "3", "3", "D">>, <<"IAC", "IAC">>}

AllKeys == KeptKeys \cup ArrowKeys \cup OtherKeys

KeysAndArrows == KeptKeys \cup ArrowKeys
=============================================================================
