----------------------------- MODULE LineEditor -----------------------------
(***************************************************************************)
(* What Telnet.h promises: a line editor, which supports backspace, right  *)
(* and left arrow, ctl-a and ctl-e, passes a doubled 0xff through as a     *)
(* character, and sends its line to the client when a newline is received. *)
(* The user presses a key, and then the editor does what the key is for.   *)
(***************************************************************************)
EXTENDS Naturals, Sequences, SequencesExt

CONSTANTS Printable

VARIABLES
    text,       \* the line
    cursor,     \* how much of it is left of the cursor
    key,        \* the key that was pressed, or none
    told        \* what the client was told last

vars == <<text, cursor, key, told>>

NoKey == <<>>

Keys ==
    {<<"typed", c>> : c \in Printable \cup {"IAC"}}
    \cup {<<"backspace">>, <<"left">>, <<"right">>, <<"home">>, <<"end">>,
          <<"newline">>, <<"interrupt">>, <<"other">>}

Nothing == [text |-> <<>>, action |-> "None"]

Init ==
    /\ text = <<>>
    /\ cursor = 0
    /\ key = NoKey
    /\ told = Nothing

Press(k) ==
    /\ key = NoKey
    /\ key' = k
    /\ told' = Nothing
    /\ UNCHANGED <<text, cursor>>

Type(c) ==
    /\ key = <<"typed", c>>
    /\ text' = InsertAt(text, cursor + 1, c)
    /\ cursor' = cursor + 1
    /\ told' = Nothing

Backspace ==
    /\ key = <<"backspace">>
    /\ IF cursor > 0
       THEN text' = RemoveAt(text, cursor) /\ cursor' = cursor - 1
       ELSE UNCHANGED <<text, cursor>>
    /\ told' = Nothing

Move ==
    /\ \/ key = <<"left">>  /\ cursor' = IF cursor > 0 THEN cursor - 1 ELSE 0
       \/ key = <<"right">> /\ cursor' = IF cursor < Len(text) THEN cursor + 1 ELSE cursor
       \/ key = <<"home">>  /\ cursor' = 0
       \/ key = <<"end">>   /\ cursor' = Len(text)
       \/ key = <<"other">> /\ cursor' = cursor
    /\ told' = Nothing
    /\ UNCHANGED text

Newline ==
    /\ key = <<"newline">>
    /\ told' = [text |-> text, action |-> "NewLine"]
    /\ text' = <<>>
    /\ cursor' = 0

Interrupt ==
    /\ key = <<"interrupt">>
    /\ told' = [text |-> <<>>, action |-> "Interrupt"]
    /\ UNCHANGED <<text, cursor>>

Act ==
    /\ \E c \in Printable \cup {"IAC"} : Type(c)
       \/ Backspace
       \/ Move
       \/ Newline
       \/ Interrupt
    /\ key' = NoKey

(* Another user connects.                                                  *)
Reset ==
    /\ key = NoKey
    /\ text' = <<>>
    /\ cursor' = 0
    /\ told' = Nothing
    /\ key' = NoKey

Next ==
    \/ \E k \in Keys : Press(k)
    \/ Act
    \/ Reset

Spec == Init /\ [][Next]_vars
=============================================================================
