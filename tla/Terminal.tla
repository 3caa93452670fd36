------------------------------ MODULE Terminal ------------------------------
(***************************************************************************)
(* A Terminal connection: the Telnet object of one slot (Telnet.cpp, its   *)
(* state table and StateMachine.h), the loop of Terminal.cpp that feeds it *)
(* a packet one character at a time, and the client's display.             *)
(*                                                                         *)
(* Characters are the classes the state table and the promise tell apart:  *)
(* "DEL" is 0x7f, "SOH" control-a, "ETX" control-c, "ENQ" control-e,       *)
(* "VERB" 0xf0..0xfe, "IAC" 0xff, "CTRL" any other control character.      *)
(* Everything runs on the main loop: a packet is handled without           *)
(* interruption, so one character is one step.                             *)
(***************************************************************************)
EXTENDS Naturals, Sequences, SequencesExt

CONSTANTS
    Finals,     \* printable characters of 0x40..0x7e, "[", "C" and "D" among them
    CSIParams,  \* printable characters of 0x30..0x3f
    Packets,    \* the sequences of characters a client sends at a time
    MaxLine     \* how many characters the client puts in a line at most

Printable == Finals \cup CSIParams

Controls == {"SOH", "ETX", "ENQ", "LF", "CR", "ESC", "CTRL"}

LineChars == Printable \cup {"IAC"}

Chars == Printable \cup Controls \cup {"NUL", "DEL", "VERB", "IAC"}

ASSUME CharsAssumption ==
    /\ {"[", "C", "D"} \subseteq Finals
    /\ Finals \cap CSIParams = {}
    /\ Printable \cap (Controls \cup {"NUL", "DEL", "VERB", "IAC"}) = {}

ASSUME PacketsAssumption ==
    /\ Packets \subseteq Seq(Chars) \ {<<>>}
    /\ MaxLine \in Nat

VARIABLES
    task,       \* whether the slot has a task: _connections[id].task
    machine,    \* StateMachine::_currentState
    line,       \* Telnet::_line
    position,   \* Telnet::_position
    toChannel,  \* Telnet::_toChannel
    toClient,   \* Telnet::_toClient
    held,       \* the two strings of Terminal's handler while it loops
    received,   \* the packet the handler was called with
    packet,     \* what is left of it
    heard,      \* what the task was told for the last character
    screen      \* what the client's display shows of the line

telnet == <<machine, line, position, toChannel, toClient>>

termVars == <<task, telnet, held, received, packet, heard, screen>>

(* The states with an entry list of their own; the machine leaves every    *)
(* other state for Ready as soon as its action has run.                    *)
Resting == {"Ready", "CSI", "CSIBracket", "CSIParam", "IAC", "IACVerb"}

(* What an echo makes the display do: nothing, show a character, take the  *)
(* last one away, go to a new line, or show a whole line again.            *)
Echo(what, text, cursor) == [what |-> what, text |-> text, cursor |-> cursor]

NoEcho == Echo("nothing", <<>>, 0)

Echoes ==
    {e \in [what : {"nothing", "show", "rubout", "newline", "redraw"},
            text : Seq(Chars), cursor : Nat] :
        e.cursor <= Len(e.text) /\ (e.what = "show" => e.text # <<>>)}

Actions == {"None", "NewLine", "Interrupt"}

Nothing == [text |-> <<>>, action |-> "None"]

TermTypeOK ==
    /\ task \in BOOLEAN
    /\ machine \in Resting
    /\ line \in Seq(LineChars)
    /\ position \in 0..Len(line)
    /\ toChannel \in Echoes
    /\ toClient \in Seq(LineChars)
    /\ held \in [channel : Echoes, client : Seq(LineChars)]
    /\ received \in Seq(Chars)
    /\ packet \in Seq(Chars)
    /\ heard \in [text : Seq(LineChars), action : Actions]
    /\ screen \in [text : Seq(Chars), cursor : Nat]
    /\ screen.cursor <= Len(screen.text)

EmptyHanded == [channel |-> NoEcho, client |-> <<>>]

BlankScreen == [text |-> <<>>, cursor |-> 0]

TermInit ==
    /\ task = FALSE
    /\ machine = "Ready"
    /\ line = <<>>
    /\ position = 0
    /\ toChannel = NoEcho
    /\ toClient = <<>>
    /\ held = EmptyHanded
    /\ received = <<>>
    /\ packet = <<>>
    /\ heard = Nothing
    /\ screen = BlankScreen

-----------------------------------------------------------------------------
(* The line is not cleared. *)
ConnectedKeepsLine ==
    /\ ~task
    /\ task' = TRUE
    /\ toChannel' = NoEcho
    /\ toClient' = <<>>
    /\ heard' = Nothing
    /\ screen' = BlankScreen
    /\ UNCHANGED <<machine, line, position, held, received, packet>>

(* A Connected event: Telnet::reset(), which leaves the state machine as   *)
(* the last connection of the slot left it, and the string that puts the   *)
(* client into character mode.                                             *)
Connected ==
    /\ ~task
    /\ task' = TRUE
    /\ line' = <<>>
    /\ position' = 0
    /\ toChannel' = NoEcho
    /\ toClient' = <<>>
    /\ heard' = Nothing
    /\ screen' = BlankScreen
    /\ UNCHANGED <<machine, held, received, packet>>

(* The connection or its task ends: TCPServer clears the slot's task.      *)
Disconnected ==
    /\ task
    /\ packet = <<>>
    /\ task' = FALSE
    /\ UNCHANGED <<telnet, held, received, packet, heard, screen>>

(* The handler's loop ends at a NUL.                                       *)
StopsAtNul(p) == IF p # <<>> /\ Head(p) = "NUL" THEN <<>> ELSE p

(* A ReceivedData event; without a task it is dropped.                     *)
ReceivedData(p) ==
    /\ task
    /\ packet = <<>>
    /\ Len(line) + Len(p) <= MaxLine + 1
    /\ packet' = StopsAtNul(p)
    /\ received' = IF packet' = <<>> THEN <<>> ELSE p
    /\ heard' = Nothing
    /\ UNCHANGED <<task, telnet, held, screen>>

-----------------------------------------------------------------------------
(* The transitions of the state table.                                     *)
StateTable ==
    {<<"Ready", "DEL", "Backspace">>, <<"Ready", "ETX", "Interrupt">>,
     <<"Ready", "LF", "Ready">>, <<"Ready", "CR", "SendLine">>,
     <<"Ready", "ESC", "CSI">>, <<"Ready", "IAC", "IAC">>,
     <<"CSI", "[", "CSIBracket">>,
     <<"IAC", "VERB", "IACVerb">>, <<"IAC", "IAC", "AddFF">>}
    \cup {"Ready"} \X Printable \X {"AddChar"}
    \cup {"CSIBracket"} \X CSIParams \X {"CSIParam"}
    \cup {"CSIBracket", "CSIParam"} \X Finals \X {"CSICommand"}
    \cup {"IACVerb"} \X (Printable \cup Controls) \X {"IACCommand"}

(* sendInput(): the character moves the machine into state s, where the    *)
(* action of s runs and a state without entries of its own jumps to Ready. *)
Enters(s) ==
    /\ packet # <<>>
    /\ <<machine, Head(packet), s>> \in StateTable
    /\ machine' = IF s \in Resting THEN s ELSE "Ready"

(* A character the state has no entry for leaves the machine where it is.  *)
Ignored ==
    /\ packet # <<>>
    /\ \A entry \in StateTable : <<entry[1], entry[2]>> # <<machine, Head(packet)>>
    /\ machine' = machine

(* The client's display.  A backspace, a space and a backspace take away   *)
(* the last character of the line.                                         *)
Shown(echo) ==
    IF echo.what = "show"
    THEN [text   |-> SubSeq(screen.text, 1, screen.cursor) \o echo.text
                     \o SubSeq(screen.text, screen.cursor + 2, Len(screen.text)),
          cursor |-> screen.cursor + 1]
    ELSE IF echo.what = "rubout" /\ screen.cursor > 0
    THEN [text   |-> RemoveAt(screen.text, screen.cursor),
          cursor |-> screen.cursor - 1]
    ELSE IF echo.what = "newline" THEN BlankScreen
    ELSE IF echo.what = "redraw"
    THEN [text |-> echo.text, cursor |-> echo.cursor]
    ELSE screen

(* The strings are handed over as copies. *)
HandOverCopies(channel, client, action) ==
    /\ toChannel' = channel
    /\ toClient' = client
    /\ packet' = StopsAtNul(Tail(packet))
    /\ received' = IF packet' = <<>> THEN <<>> ELSE received
    /\ held' = IF packet' = <<>> THEN EmptyHanded
               ELSE [channel |-> channel, client |-> client]
    /\ heard' = [text |-> client, action |-> action]
    /\ screen' = Shown(channel)

(* The end of receive(), where Telnet swaps its two strings with those of  *)
(* Terminal's handler, and what the handler does with them: it tells the   *)
(* task, then sends the echo.  Its strings live as long as the packet.     *)
HandOver(channel, client, action) ==
    /\ toChannel' = held.channel
    /\ toClient' = held.client
    /\ packet' = StopsAtNul(Tail(packet))
    /\ received' = IF packet' = <<>> THEN <<>> ELSE received
    /\ held' = IF packet' = <<>> THEN EmptyHanded
               ELSE [channel |-> channel, client |-> client]
    /\ heard' = [text |-> client, action |-> action]
    /\ screen' = Shown(channel)

Redraw == Echo("redraw", line', position')

(* handleBackspace *)
Backspace ==
    /\ Enters("Backspace")
    /\ IF line # <<>> /\ position > 0
       THEN /\ position' = position - 1
            /\ line' = RemoveAt(line, position)
            /\ HandOver(IF position' = Len(line') THEN Echo("rubout", <<>>, 0)
                        ELSE Redraw, toClient, "None")
       ELSE /\ UNCHANGED <<line, position>>
            /\ HandOver(toChannel, toClient, "None")
    /\ UNCHANGED task

(* handleAddChar without its increment of the position. *)
AddCharKeepsPosition ==
    /\ Enters("AddChar")
    /\ position' = position
    /\ line' = InsertAt(line, position + 1, Head(packet))
    /\ HandOver(IF position = Len(line) THEN Echo("show", <<Head(packet)>>, 0)
                ELSE Redraw, toClient, "None")
    /\ UNCHANGED task

(* handleAddChar; the character is inserted where the cursor is.           *)
AddChar ==
    /\ Enters("AddChar")
    /\ position' = position + 1
    /\ line' = InsertAt(line, position + 1, Head(packet))
    /\ HandOver(IF position = Len(line) THEN Echo("show", <<Head(packet)>>, 0)
                ELSE Redraw, toClient, "None")
    /\ UNCHANGED task

(* handleAddFF: neither the position nor the display follows.              *)
AddFF ==
    /\ Enters("AddFF")
    /\ line' = Append(line, "IAC")
    /\ HandOver(toChannel, toClient, "None")
    /\ UNCHANGED <<task, position>>

(* handleInterrupt *)
Interrupt ==
    /\ Enters("Interrupt")
    /\ HandOver(toChannel, toClient, "Interrupt")
    /\ UNCHANGED <<task, line, position>>

(* handleSendLine *)
SendLine ==
    /\ Enters("SendLine")
    /\ line' = <<>>
    /\ position' = 0
    /\ HandOver(Echo("newline", <<>>, 0), line, "NewLine")
    /\ UNCHANGED task

(* Everything that changes no more than the state of the machine: the      *)
(* states of an escape sequence or a command, whose handlers are empty or  *)
(* only note a parameter nothing reads, and ignored characters.            *)
Moves ==
    /\ \/ \E s \in (Resting \cup {"CSICommand", "IACCommand"}) : Enters(s)
       \/ Ignored
    /\ HandOver(toChannel, toClient, "None")
    /\ UNCHANGED <<task, line, position>>

ReceiveChar ==
    \/ Backspace
    \/ AddChar
    \/ AddFF
    \/ Interrupt
    \/ SendLine
    \/ Moves

TermNext ==
    \/ Connected
    \/ Disconnected
    \/ \E p \in Packets : ReceivedData(p)
    \/ ReceiveChar

TermSpec == TermInit /\ [][TermNext]_termVars
-----------------------------------------------------------------------------
(* What the client sees is what its line is, as long as the line has no    *)
(* literal 0xff: "edits are sent back to the Channel to keep the line up   *)
(* to date at that end" (Telnet.h).                                        *)
EchoShowsLine ==
    "IAC" \notin ToSet(line) => screen = [text |-> line, cursor |-> position]

(* "When a newline is received from the Channel, the line buffer is sent   *)
(* to the Client" (Telnet.h): a line is sent then and at no other time.    *)
(* Only a client that sends a character at a time gets that from           *)
(* Telnet::receive.                                                        *)
LineIsSentOnce == heard.text # <<>> => heard.action = "NewLine"

(* The keys of a client in character mode, as the editor knows them.  A    *)
(* line feed follows the return of some clients and is no key of its own.  *)
KeyOf(p) ==
    CASE p = <<>>                     -> <<>>
      [] p \in {<<c>> : c \in Printable} -> <<"typed", Head(p)>>
      [] p = <<"DEL">>                -> <<"backspace">>
      [] p = <<"ETX">>                -> <<"interrupt">>
      [] p = <<"SOH">>                -> <<"home">>
      [] p = <<"ENQ">>                -> <<"end">>
      [] p = <<"CR">>                 -> <<"newline">>
      [] p = <<"CR", "NUL">>          -> <<"newline">>
      [] p = <<"ESC", "[", "C">>      -> <<"right">>
      [] p = <<"ESC", "[", "D">>      -> <<"left">>
      [] p = <<"IAC", "IAC">>         -> <<"typed", "IAC">>
      [] OTHER                        -> <<"other">>

(* The keys the state table has an entry for, and those that need none:    *)
(* it has none for control-a and control-e, the entry for the end of an    *)
(* arrow's sequence notes a parameter instead of calling handleCSICommand, *)
(* and an escape by itself is waited out.                                  *)
KeptKeys ==
    {<<c>> : c \in Printable} \cup {<<"DEL">>, <<"ETX">>, <<"CR">>, <<"LF">>, <<"CTRL">>}
    \cup {<<"CR", "NUL">>, <<"IAC", "VERB", "CTRL">>}

(* "This class is a line editor ... It supports delete, backspace, right   *)
(* and left arrow, ctl-a, ctl-e, etc." (Telnet.h): Terminal implements     *)
(* LineEditor.  It does for a client that has only the kept keys.          *)
Editor == INSTANCE LineEditor WITH
    text <- line,
    cursor <- position,
    key <- KeyOf(received),
    told <- heard

EditsLikeLineEditor == Editor!Spec
=============================================================================
