--------------------------- MODULE TerminalProofs ---------------------------
(***************************************************************************)
(* Proofs about Terminal.  The argument rests on how the line is split: up *)
(* to the position it is text, after it only literal 0xff, because the     *)
(* position moves with every insertion and removal and handleAddFF appends *)
(* without moving it.  SplitLine is what makes the typing inductive and    *)
(* what the display is read off.  KeyInv is what makes a character a key   *)
(* of LineEditor: no sequence is unfinished when it arrives.               *)
(***************************************************************************)
EXTENDS Terminal, SequencesExt, SequenceTheorems, TLAPS

(* What removing the i-th element of a sequence leaves.                    *)
LEMMA RemoveAtElements ==
    ASSUME NEW S, NEW s \in Seq(S), NEW i \in DOMAIN s
    PROVE  /\ RemoveAt(s, i) \in Seq(S)
           /\ Len(RemoveAt(s, i)) = Len(s) - 1
           /\ \A j \in 1..(Len(s) - 1) :
                  RemoveAt(s, i)[j] = IF j < i THEN s[j] ELSE s[j + 1]
<1>1. Len(s) \in Nat /\ DOMAIN s = 1..Len(s) /\ i \in 1..Len(s)
  BY LenProperties
<1> DEFINE front == SubSeq(s, 1, i - 1)
           back == SubSeq(s, i + 1, Len(s))
<1>2. /\ front \in Seq(S)
      /\ Len(front) = i - 1
      /\ \A j \in 1..(i - 1) : front[j] = s[j]
  BY <1>1
<1>3. /\ back \in Seq(S)
      /\ Len(back) = Len(s) - i
      /\ \A j \in 1..(Len(s) - i) : back[j] = s[i + j]
  BY <1>1
<1>4. RemoveAt(s, i) = front \o back
  BY DEF RemoveAt
<1> HIDE DEF front, back
<1>5. /\ front \o back \in Seq(S)
      /\ Len(front \o back) = (i - 1) + (Len(s) - i)
      /\ \A j \in 1..((i - 1) + (Len(s) - i)) :
            (front \o back)[j] = IF j <= i - 1 THEN front[j] ELSE back[j - (i - 1)]
  <2>1. /\ front \o back \in Seq(S)
        /\ Len(front \o back) = Len(front) + Len(back)
        /\ \A j \in 1..(Len(front) + Len(back)) :
              (front \o back)[j] = IF j <= Len(front) THEN front[j] ELSE back[j - Len(front)]
    BY <1>2, <1>3, ConcatProperties, Zenon
  <2> QED BY <1>2, <1>3, <2>1
<1>6. ASSUME NEW j \in 1..(Len(s) - 1)
      PROVE  (front \o back)[j] = IF j < i THEN s[j] ELSE s[j + 1]
  <2>1. CASE j < i
    BY <1>1, <1>2, <1>5, <2>1
  <2>2. CASE ~(j < i)
    <3>0. j - (i - 1) \in 1..(Len(s) - i) /\ i + (j - (i - 1)) = j + 1
      BY <1>1, <2>2
    <3>1. PICK x \in 1..(Len(s) - i) : x = j - (i - 1) /\ i + x = j + 1
      BY <3>0
    <3>2. (front \o back)[j] = back[x]
      BY <1>1, <1>5, <2>2, <3>1
    <3> QED BY <1>3, <2>2, <3>1, <3>2
  <2> QED BY <2>1, <2>2
<1> QED BY <1>1, <1>4, <1>5, <1>6

(* What inserting an element before the i-th element leaves.               *)
LEMMA InsertAtElements ==
    ASSUME NEW S, NEW s \in Seq(S), NEW i \in 1..(Len(s) + 1), NEW e \in S
    PROVE  /\ InsertAt(s, i, e) \in Seq(S)
           /\ Len(InsertAt(s, i, e)) = Len(s) + 1
           /\ \A j \in 1..(Len(s) + 1) :
                  InsertAt(s, i, e)[j] = IF j < i THEN s[j]
                                         ELSE IF j = i THEN e ELSE s[j - 1]
<1> DEFINE front == SubSeq(s, 1, i - 1)
           back == SubSeq(s, i, Len(s))
           start == front \o <<e>>
<1>1. Len(s) \in Nat
  BY LenProperties
<1>2. /\ front \in Seq(S)
      /\ Len(front) = i - 1
      /\ \A j \in 1..(i - 1) : front[j] = s[j]
  BY <1>1
<1>3. /\ back \in Seq(S)
      /\ Len(back) = Len(s) - i + 1
      /\ \A j \in 1..(Len(s) - i + 1) : back[j] = s[i + j - 1]
  BY <1>1
<1>4. InsertAt(s, i, e) = start \o back
  BY DEF InsertAt
<1> HIDE DEF front, back
<1>5. /\ start \in Seq(S)
      /\ Len(start) = i
      /\ \A j \in 1..i : start[j] = IF j < i THEN s[j] ELSE e
  BY <1>2
<1> HIDE DEF start
<1>6. /\ start \o back \in Seq(S)
      /\ Len(start \o back) = Len(start) + Len(back)
      /\ \A j \in 1..(Len(start) + Len(back)) :
            (start \o back)[j] = IF j <= Len(start) THEN start[j] ELSE back[j - Len(start)]
  BY <1>3, <1>5, ConcatProperties, Zenon
<1>7. ASSUME NEW j \in 1..(Len(s) + 1)
      PROVE  (start \o back)[j] = IF j < i THEN s[j] ELSE IF j = i THEN e ELSE s[j - 1]
  <2>1. CASE j <= i
    BY <1>1, <1>3, <1>5, <1>6, <2>1
  <2>2. CASE ~(j <= i)
    <3>0. j - i \in 1..(Len(s) - i + 1) /\ i + (j - i) - 1 = j - 1
      BY <1>1, <2>2
    <3>1. PICK x \in 1..(Len(s) - i + 1) : x = j - i /\ i + x - 1 = j - 1
      BY <3>0
    <3>2. (start \o back)[j] = back[x]
      BY <1>1, <1>3, <1>5, <1>6, <2>2, <3>1
    <3> QED BY <1>3, <2>2, <3>1, <3>2
  <2> QED BY <2>1, <2>2
<1> QED BY <1>1, <1>3, <1>4, <1>5, <1>6, <1>7

-----------------------------------------------------------------------------
SplitLine ==
    \A i \in 1..Len(line) :
        IF i <= position THEN line[i] \in Printable ELSE line[i] = "IAC"

LineInv == TermTypeOK /\ SplitLine

LEMMA CharFacts ==
    /\ Printable \subseteq LineChars
    /\ LineChars \subseteq Chars
    /\ "IAC" \in LineChars
    /\ "IAC" \notin Printable
    /\ "NUL" \notin LineChars
BY CharsAssumption DEF LineChars, Chars

(* A sequence over the characters of a line is one over all characters.    *)
LEMMA LineCharsAreChars ==
    ASSUME NEW s \in Seq(LineChars)
    PROVE  s \in Seq(Chars)
BY CharFacts

(* What a display shows after an echo is text with a cursor in it.         *)
LEMMA ShownType ==
    ASSUME TermTypeOK, NEW e \in Echoes
    PROVE  /\ Shown(e) \in [text : Seq(Chars), cursor : Nat]
           /\ Shown(e).cursor <= Len(Shown(e).text)
<1>1. /\ e.text \in Seq(Chars) /\ e.cursor \in Nat /\ e.cursor <= Len(e.text)
      /\ screen.text \in Seq(Chars) /\ screen.cursor \in Nat
      /\ screen.cursor <= Len(screen.text)
      /\ screen \in [text : Seq(Chars), cursor : Nat]
  BY DEF TermTypeOK, Echoes
<1>2. CASE e.what = "nothing"
  BY <1>1, <1>2 DEF Shown
<1>3. CASE e.what = "show"
  <2> DEFINE left == SubSeq(screen.text, 1, screen.cursor)
             right == SubSeq(screen.text, screen.cursor + 2, Len(screen.text))
  <2>1. left \in Seq(Chars) /\ Len(left) = screen.cursor
    BY <1>1
  <2>2. right \in Seq(Chars) /\ Len(right) \in Nat
    BY <1>1, SubSeqProperties
  <2>3. Shown(e) = [text |-> left \o e.text \o right, cursor |-> screen.cursor + 1]
    BY <1>3 DEF Shown
  <2>4. e.text # <<>>
    BY <1>3 DEF Echoes
  <2> HIDE DEF left, right
  <2>5. /\ left \o e.text \o right \in Seq(Chars)
        /\ Len(left \o e.text \o right) = Len(left) + Len(e.text) + Len(right)
    <3> DEFINE start == left \o e.text
    <3>1. start \in Seq(Chars) /\ Len(start) = Len(left) + Len(e.text)
      BY <1>1, <2>1, ConcatProperties, Zenon
    <3> HIDE DEF start
    <3>2. start \o right \in Seq(Chars) /\ Len(start \o right) = Len(start) + Len(right)
      BY <2>2, <3>1, ConcatProperties, Zenon
    <3> QED BY <3>1, <3>2 DEF start
  <2> QED BY <1>1, <2>1, <2>2, <2>3, <2>4, <2>5
<1>4. CASE e.what = "rubout"
  <2>1. CASE screen.cursor = 0
    BY <1>1, <1>4, <2>1 DEF Shown
  <2>2. CASE screen.cursor # 0
    <3>1. screen.cursor \in DOMAIN screen.text
      BY <1>1, <2>2
    <3>2. /\ RemoveAt(screen.text, screen.cursor) \in Seq(Chars)
          /\ Len(RemoveAt(screen.text, screen.cursor)) = Len(screen.text) - 1
      BY <1>1, <3>1, RemoveAtElements
    <3>3. Shown(e) = [text   |-> RemoveAt(screen.text, screen.cursor),
                      cursor |-> screen.cursor - 1]
      BY <1>1, <1>4, <2>2 DEF Shown
    <3> QED BY <1>1, <2>2, <3>2, <3>3
  <2> QED BY <2>1, <2>2
<1>5. CASE e.what = "newline"
  BY <1>5 DEF Shown, BlankScreen
<1>6. CASE e.what = "redraw"
  BY <1>1, <1>6 DEF Shown
<1> QED BY <1>2, <1>3, <1>4, <1>5, <1>6 DEF Echoes

(* The part of the typing that is not about the machine and the line.      *)
Exchanged ==
    /\ toChannel \in Echoes
    /\ toClient \in Seq(LineChars)
    /\ held \in [channel : Echoes, client : Seq(LineChars)]
    /\ received \in Seq(Chars)
    /\ packet \in Seq(Chars)
    /\ heard \in [text : Seq(LineChars), action : Actions]
    /\ screen \in [text : Seq(Chars), cursor : Nat]
    /\ screen.cursor <= Len(screen.text)

LEMMA NoEchoType == NoEcho \in Echoes /\ EmptyHanded \in [channel : Echoes, client : Seq(LineChars)]
BY DEF NoEcho, Echo, Echoes, EmptyHanded

(* The loop of Terminal's handler stops at a NUL.                          *)
LEMMA StopsAtNulType ==
    ASSUME NEW p \in Seq(Chars)
    PROVE  StopsAtNul(p) \in Seq(Chars)
BY DEF StopsAtNul

(* Whatever is handed over, the strings and the display keep their types.  *)
LEMMA HandOverType ==
    ASSUME TermTypeOK, packet # <<>>,
           NEW ch \in Echoes, NEW cl \in Seq(LineChars), NEW act \in Actions,
           HandOver(ch, cl, act)
    PROVE  Exchanged'
<1>1. /\ toChannel' \in Echoes
      /\ toClient' \in Seq(LineChars)
  BY DEF TermTypeOK, HandOver
<1>2. packet' \in Seq(Chars)
  <2>1. Tail(packet) \in Seq(Chars)
    BY DEF TermTypeOK
  <2> QED BY <2>1, StopsAtNulType DEF HandOver
<1>2a. received' \in Seq(Chars)
  BY DEF TermTypeOK, HandOver
<1>3. held' \in [channel : Echoes, client : Seq(LineChars)]
  BY NoEchoType DEF HandOver
<1>4. heard' \in [text : Seq(LineChars), action : Actions]
  BY DEF HandOver
<1>5. /\ screen' \in [text : Seq(Chars), cursor : Nat]
      /\ screen'.cursor <= Len(screen'.text)
  BY ShownType DEF HandOver
<1> QED BY <1>1, <1>2, <1>2a, <1>3, <1>4, <1>5 DEF Exchanged

(* The next state of the machine is one it rests in.                       *)
LEMMA EntersType ==
    ASSUME NEW s, Enters(s)
    PROVE  packet # <<>> /\ machine' \in Resting
BY DEF Enters, Resting

LEMMA RedrawType ==
    ASSUME line' \in Seq(LineChars), position' \in 0..Len(line')
    PROVE  Redraw \in Echoes
<1>1. line' \in Seq(Chars) /\ Len(line') \in Nat
  BY LineCharsAreChars
<1> QED BY <1>1 DEF Redraw, Echo, Echoes

(* The character that moves the machine to AddChar is printable.           *)
LEMMA AddedIsPrintable ==
    ASSUME Enters("AddChar")
    PROVE  Head(packet) \in Printable
BY DEF Enters, StateTable

(* What is left when the character before the position is removed.         *)
LEMMA RemovedLine ==
    ASSUME LineInv, position > 0, position' = position - 1,
           line' = RemoveAt(line, position)
    PROVE  /\ line' \in Seq(LineChars)
           /\ Len(line') = Len(line) - 1
           /\ position' \in 0..Len(line')
           /\ SplitLine'
<1>1. line \in Seq(LineChars) /\ Len(line) \in Nat /\ position \in DOMAIN line /\ position \in 1..Len(line)
  BY DEF LineInv, TermTypeOK
<1>2. /\ line' \in Seq(LineChars)
      /\ Len(line') = Len(line) - 1
      /\ \A j \in 1..(Len(line) - 1) :
            line'[j] = IF j < position THEN line[j] ELSE line[j + 1]
  BY <1>1, RemoveAtElements
<1>3. SplitLine'
  <2> SUFFICES ASSUME NEW i \in 1..Len(line')
               PROVE  IF i <= position' THEN line'[i] \in Printable ELSE line'[i] = "IAC"
    BY DEF SplitLine
  <2>1. CASE i < position
    BY <1>1, <1>2, <2>1 DEF LineInv, SplitLine
  <2>2. CASE ~(i < position)
    BY <1>1, <1>2, <2>2 DEF LineInv, SplitLine
  <2> QED BY <2>1, <2>2
<1> QED BY <1>1, <1>2, <1>3

(* What the line is when a printable character is put at the position.     *)
LEMMA InsertedLine ==
    ASSUME LineInv, NEW c \in Printable, position' = position + 1,
           line' = InsertAt(line, position + 1, c)
    PROVE  /\ line' \in Seq(LineChars)
           /\ Len(line') = Len(line) + 1
           /\ position' \in 0..Len(line')
           /\ SplitLine'
<1>1. /\ line \in Seq(LineChars) /\ Len(line) \in Nat
      /\ position \in Nat /\ position + 1 \in 1..(Len(line) + 1)
      /\ c \in LineChars
  BY CharFacts DEF LineInv, TermTypeOK
<1>2. /\ line' \in Seq(LineChars)
      /\ Len(line') = Len(line) + 1
      /\ \A j \in 1..(Len(line) + 1) :
            line'[j] = IF j < position + 1 THEN line[j]
                       ELSE IF j = position + 1 THEN c ELSE line[j - 1]
  <2>1. ASSUME NEW k \in 1..(Len(line) + 1)
        PROVE  /\ InsertAt(line, k, c) \in Seq(LineChars)
               /\ Len(InsertAt(line, k, c)) = Len(line) + 1
               /\ \A j \in 1..(Len(line) + 1) :
                     InsertAt(line, k, c)[j] = IF j < k THEN line[j]
                                              ELSE IF j = k THEN c ELSE line[j - 1]
    <3>1. line \in Seq(LineChars) /\ c \in LineChars
      BY <1>1
    <3> QED BY <3>1, InsertAtElements
  <2> QED BY <1>1, <2>1
<1>3. SplitLine'
  <2> SUFFICES ASSUME NEW i \in 1..Len(line')
               PROVE  IF i <= position' THEN line'[i] \in Printable ELSE line'[i] = "IAC"
    BY DEF SplitLine
  <2>1. CASE i < position + 1
    BY <1>1, <1>2, <2>1 DEF LineInv, SplitLine
  <2>2. CASE i = position + 1
    BY <1>1, <1>2, <2>2
  <2>3. CASE i > position + 1
    <3>1. i - 1 \in 1..Len(line) /\ ~(i - 1 <= position)
      BY <1>1, <1>2, <2>3
    <3> QED BY <1>1, <1>2, <2>3, <3>1 DEF LineInv, SplitLine
  <2> QED BY <1>1, <1>2, <2>1, <2>2, <2>3
<1> QED BY <1>1, <1>2, <1>3

-----------------------------------------------------------------------------
LEMMA InitLine == TermInit => LineInv
<1> SUFFICES ASSUME TermInit PROVE LineInv
  OBVIOUS
<1>1. task \in BOOLEAN /\ machine \in Resting
  BY DEF TermInit, Resting
<1>2. line \in Seq(LineChars) /\ position \in 0..Len(line) /\ SplitLine
  BY DEF TermInit, SplitLine
<1>3. Exchanged
  BY NoEchoType DEF TermInit, Exchanged, Nothing, Actions, BlankScreen
<1> QED BY <1>1, <1>2, <1>3 DEF LineInv, TermTypeOK, Exchanged

LEMMA BackspaceLine == ASSUME LineInv, Backspace PROVE LineInv'
<1>1. TermTypeOK /\ packet # <<>> /\ machine' \in Resting /\ task' = task
  BY EntersType DEF LineInv, Backspace
<1>2. CASE line # <<>> /\ position > 0
  <2>1. /\ position' = position - 1 /\ line' = RemoveAt(line, position)
        /\ HandOver(IF position' = Len(line') THEN Echo("rubout", <<>>, 0) ELSE Redraw,
                    toClient, "None")
    BY <1>2 DEF Backspace
  <2>2. /\ line' \in Seq(LineChars) /\ position' \in 0..Len(line') /\ SplitLine'
    BY <1>2, <2>1, RemovedLine
  <2>3. (IF position' = Len(line') THEN Echo("rubout", <<>>, 0) ELSE Redraw) \in Echoes
    BY <2>2, RedrawType DEF Echo, Echoes
  <2>4. Exchanged'
    BY <1>1, <2>1, <2>3, HandOverType DEF TermTypeOK, Actions
  <2> QED BY <1>1, <2>2, <2>4 DEF LineInv, TermTypeOK, Exchanged
<1>3. CASE ~(line # <<>> /\ position > 0)
  <2>1. UNCHANGED <<line, position>> /\ HandOver(toChannel, toClient, "None")
    BY <1>3 DEF Backspace
  <2>2. Exchanged'
    BY <1>1, <2>1, HandOverType DEF TermTypeOK, Actions
  <2> QED BY <1>1, <2>1, <2>2 DEF LineInv, TermTypeOK, Exchanged, SplitLine
<1> QED BY <1>2, <1>3

LEMMA AddCharLine == ASSUME LineInv, AddChar PROVE LineInv'
<1>1. TermTypeOK /\ packet # <<>> /\ machine' \in Resting /\ task' = task /\ Head(packet) \in Printable
  BY EntersType, AddedIsPrintable DEF LineInv, AddChar
<1>2. /\ line' \in Seq(LineChars) /\ position' \in 0..Len(line') /\ SplitLine'
  BY <1>1, InsertedLine DEF AddChar
<1>3. /\ Redraw \in Echoes
      /\ Echo("show", <<Head(packet)>>, 0) \in Echoes
  <2>1. Head(packet) \in Chars
    BY <1>1, CharFacts
  <2>2. <<Head(packet)>> \in Seq(Chars) /\ <<Head(packet)>> # <<>> /\ Len(<<Head(packet)>>) = 1
    BY <2>1
  <2>3. Redraw \in Echoes
    BY <1>2, RedrawType
  <2>4. Echo("show", <<Head(packet)>>, 0) \in Echoes
    BY <2>2 DEF Echo, Echoes
  <2> QED BY <2>3, <2>4
<1>4. Exchanged'
  <2>1. (IF position = Len(line) THEN Echo("show", <<Head(packet)>>, 0) ELSE Redraw) \in Echoes
    BY <1>3
  <2> QED BY <1>1, <2>1, HandOverType DEF AddChar, TermTypeOK, Actions
<1> QED BY <1>1, <1>2, <1>4 DEF LineInv, TermTypeOK, Exchanged

LEMMA AddFFLine == ASSUME LineInv, AddFF PROVE LineInv'
<1>1. TermTypeOK /\ packet # <<>> /\ machine' \in Resting /\ task' = task
  BY EntersType DEF LineInv, AddFF
<1>2. /\ line \in Seq(LineChars) /\ Len(line) \in Nat /\ position \in 0..Len(line)
      /\ line' = Append(line, "IAC") /\ position' = position
  BY <1>1 DEF TermTypeOK, AddFF
<1>3. /\ line' \in Seq(LineChars) /\ Len(line') = Len(line) + 1
      /\ line'[Len(line) + 1] = "IAC"
      /\ \A i \in 1..Len(line) : line'[i] = line[i]
  BY <1>2, CharFacts
<1>4. SplitLine'
  BY <1>2, <1>3 DEF LineInv, SplitLine
<1>5. Exchanged'
  BY <1>1, HandOverType DEF AddFF, TermTypeOK, Actions
<1> QED BY <1>1, <1>2, <1>3, <1>4, <1>5 DEF LineInv, TermTypeOK, Exchanged

LEMMA InterruptLine == ASSUME LineInv, Interrupt PROVE LineInv'
<1>1. TermTypeOK /\ packet # <<>> /\ machine' \in Resting
  BY EntersType DEF LineInv, Interrupt
<1>2. Exchanged'
  BY <1>1, HandOverType DEF Interrupt, TermTypeOK, Actions
<1> QED BY <1>1, <1>2 DEF LineInv, TermTypeOK, Exchanged, SplitLine, Interrupt

LEMMA SendLineLine == ASSUME LineInv, SendLine PROVE LineInv'
<1>1. TermTypeOK /\ packet # <<>> /\ machine' \in Resting
  BY EntersType DEF LineInv, SendLine
<1>2. Echo("newline", <<>>, 0) \in Echoes
  BY DEF Echo, Echoes
<1>3. Exchanged'
  BY <1>1, <1>2, HandOverType DEF SendLine, TermTypeOK, Actions
<1> QED BY <1>1, <1>3 DEF LineInv, TermTypeOK, Exchanged, SplitLine, SendLine

LEMMA MovesLine == ASSUME LineInv, Moves PROVE LineInv'
<1>1. TermTypeOK /\ packet # <<>> /\ machine' \in Resting
  BY EntersType DEF LineInv, Moves, Ignored, TermTypeOK
<1>2. Exchanged'
  BY <1>1, HandOverType DEF Moves, TermTypeOK, Actions
<1> QED BY <1>1, <1>2 DEF LineInv, TermTypeOK, Exchanged, SplitLine, Moves

THEOREM LineStep == LineInv /\ [TermNext]_termVars => LineInv'
<1> SUFFICES ASSUME LineInv, [TermNext]_termVars PROVE LineInv'
  OBVIOUS
<1>1. CASE Connected
  <2>1. Exchanged'
    BY <1>1, NoEchoType
       DEF Connected, LineInv, TermTypeOK, Exchanged, Nothing, Actions, BlankScreen
  <2>2. line' \in Seq(LineChars) /\ position' \in 0..Len(line') /\ SplitLine'
    BY <1>1 DEF Connected, SplitLine
  <2> QED BY <1>1, <2>1, <2>2 DEF Connected, LineInv, TermTypeOK, Exchanged
<1>2. CASE Disconnected
  BY <1>2 DEF Disconnected, telnet, LineInv, TermTypeOK, SplitLine
<1>3. ASSUME NEW p \in Packets, ReceivedData(p)
      PROVE  LineInv'
  <2>1. p \in Seq(Chars)
    BY PacketsAssumption
  <2>2. packet' \in Seq(Chars)
    BY <1>3, <2>1, StopsAtNulType DEF ReceivedData
  <2>3. received' \in Seq(Chars)
    BY <1>3, <2>1 DEF ReceivedData
  <2>4. heard' \in [text : Seq(LineChars), action : Actions]
    BY <1>3 DEF ReceivedData, Nothing, Actions
  <2> QED BY <1>3, <2>2, <2>3, <2>4 DEF ReceivedData, telnet, LineInv, TermTypeOK, SplitLine
<1>4. CASE ReceiveChar
  BY <1>4, BackspaceLine, AddCharLine, AddFFLine, InterruptLine, SendLineLine, MovesLine
     DEF ReceiveChar
<1>5. CASE UNCHANGED termVars
  BY <1>5 DEF termVars, telnet, LineInv, TermTypeOK, SplitLine
<1> QED BY <1>1, <1>2, <1>3, <1>4, <1>5 DEF TermNext

THEOREM LineInvariant == TermSpec => []LineInv
BY InitLine, LineStep, PTL DEF TermSpec

(* Whatever a client sends and however it is cut into packets, the Telnet  *)
(* object and its display keep their types and the position stays in the   *)
(* line (Telnet.cpp).                                                      *)
THEOREM TypeCorrect == TermSpec => []TermTypeOK
<1>1. LineInv => TermTypeOK
  BY DEF LineInv
<1> QED BY <1>1, LineInvariant, PTL
-----------------------------------------------------------------------------
(* A client in character mode, which is what makeInitString asks for,      *)
(* sends one character at a time.  Nothing is then left of the two strings *)
(* from one packet to the next.                                            *)
CharacterAtATime == \A p \in Packets : Len(p) = 1

NothingLeft ==
    /\ toChannel = NoEcho
    /\ toClient = <<>>
    /\ held = EmptyHanded
    /\ Len(packet) <= 1

CharInv == LineInv /\ NothingLeft

LEMMA LastCharacter ==
    ASSUME CharInv, packet # <<>>
    PROVE  StopsAtNul(Tail(packet)) = <<>>
<1>1. packet \in Seq(Chars) /\ Len(packet) <= 1
  BY DEF CharInv, NothingLeft, LineInv, TermTypeOK
<1>2. Len(packet) = 1
  <2>1. Len(packet) \in Nat \ {0}
    BY <1>1, EmptySeq, Zenon
  <2> DEFINE n == Len(packet)
  <2>2. n \in Nat /\ n # 0 /\ n <= 1
    BY <1>1, <2>1
  <2> HIDE DEF n
  <2>3. n = 1
    BY <2>2
  <2> QED BY <2>3 DEF n
<1>3. Tail(packet) \in Seq(Chars) /\ Len(Tail(packet)) = 0
  BY <1>1, <1>2
<1>4. Tail(packet) = <<>>
  BY <1>3, EmptySeq
<1> QED BY <1>4 DEF StopsAtNul

LEMMA HandOverLeavesNothing ==
    ASSUME CharInv, packet # <<>>, NEW ch, NEW cl, NEW act, HandOver(ch, cl, act)
    PROVE  NothingLeft' /\ packet' = <<>> /\ received' = <<>> /\ heard' = [text |-> cl, action |-> act] /\ screen' = Shown(ch)
<1>1. StopsAtNul(Tail(packet)) = <<>>
  BY LastCharacter
<1>2. packet' = <<>> /\ held' = EmptyHanded
  BY <1>1 DEF HandOver
<1>3. held = EmptyHanded
  BY DEF CharInv, NothingLeft
<1>4. toChannel' = NoEcho /\ toClient' = <<>>
  BY <1>3 DEF HandOver, EmptyHanded
<1> QED BY <1>2, <1>4 DEF HandOver, NothingLeft

LEMMA ReceiveHandsOver ==
    ASSUME ReceiveChar
    PROVE  packet # <<>> /\ \E ch, cl, act : HandOver(ch, cl, act)
<1>1. CASE Backspace
  BY <1>1, EntersType DEF Backspace
<1>2. CASE AddChar
  BY <1>2, EntersType DEF AddChar
<1>3. CASE AddFF
  BY <1>3, EntersType DEF AddFF
<1>4. CASE Interrupt
  BY <1>4, EntersType DEF Interrupt
<1>5. CASE SendLine
  BY <1>5, EntersType DEF SendLine
<1>6. CASE Moves
  BY <1>6, EntersType DEF Moves, Ignored
<1> QED BY <1>1, <1>2, <1>3, <1>4, <1>5, <1>6 DEF ReceiveChar

THEOREM CharStep == ASSUME CharacterAtATime PROVE CharInv /\ [TermNext]_termVars => CharInv'
<1> SUFFICES ASSUME CharInv, [TermNext]_termVars PROVE NothingLeft'
  BY LineStep DEF CharInv
<1>1. CASE Connected
  BY <1>1 DEF Connected, CharInv, NothingLeft
<1>2. CASE Disconnected
  BY <1>2 DEF Disconnected, telnet, CharInv, NothingLeft
<1>3. ASSUME NEW p \in Packets, ReceivedData(p)
      PROVE  NothingLeft'
  <2>1. p \in Seq(Chars) /\ Len(p) = 1
    BY PacketsAssumption DEF CharacterAtATime
  <2>2. Len(packet') <= 1
    <3>1. packet' = p \/ packet' = <<>>
      BY <1>3 DEF ReceivedData, StopsAtNul
    <3>2. Len(p) <= 1 /\ Len(<<>>) <= 1
      BY <2>1
    <3> QED BY <3>1, <3>2
  <2> QED BY <1>3, <2>2 DEF ReceivedData, telnet, CharInv, NothingLeft
<1>4. CASE ReceiveChar
  BY <1>4, ReceiveHandsOver, HandOverLeavesNothing
<1>5. CASE UNCHANGED termVars
  BY <1>5 DEF termVars, telnet, CharInv, NothingLeft
<1> QED BY <1>1, <1>2, <1>3, <1>4, <1>5 DEF TermNext

LEMMA CharInit == TermInit => CharInv
BY InitLine DEF TermInit, CharInv, NothingLeft

(* A person at a client in character mode ends each line once: the task is *)
(* told a line when Enter is received and at no other time (Telnet::receive*)
(* and the handler of Terminal.cpp).                                       *)
THEOREM CharacterModeSendsOnce ==
    ASSUME CharacterAtATime PROVE TermSpec => []LineIsSentOnce
<1> DEFINE SentInv == CharInv /\ LineIsSentOnce
<1>1. TermInit => SentInv
  BY CharInit DEF TermInit, LineIsSentOnce, Nothing
<1>2. SentInv /\ [TermNext]_termVars => SentInv'
  <2> SUFFICES ASSUME SentInv, [TermNext]_termVars PROVE LineIsSentOnce'
    BY CharStep
  <2>1. CASE Connected
    BY <2>1 DEF Connected, LineIsSentOnce, Nothing
  <2>2. CASE Disconnected \/ UNCHANGED termVars \/ \E p \in Packets : ReceivedData(p)
    BY <2>2 DEF Disconnected, ReceivedData, termVars, LineIsSentOnce, Nothing
  <2>3. CASE ReceiveChar
    <3>1. packet # <<>> /\ toClient = <<>>
      BY <2>3, ReceiveHandsOver DEF CharInv, NothingLeft
    <3>2. CASE SendLine
      BY <3>1, <3>2, HandOverLeavesNothing DEF SendLine, LineIsSentOnce
    <3>3. CASE Backspace \/ AddChar \/ AddFF \/ Interrupt \/ Moves
      <4>1. heard'.text = <<>>
        BY <3>1, <3>3, HandOverLeavesNothing
           DEF Backspace, AddChar, AddFF, Interrupt, Moves
      <4> QED BY <4>1 DEF LineIsSentOnce
    <3> QED BY <2>3, <3>2, <3>3 DEF ReceiveChar
  <2> QED BY <2>1, <2>2, <2>3 DEF TermNext
<1> QED BY <1>1, <1>2, PTL DEF TermSpec

-----------------------------------------------------------------------------
(* The refinement of LineEditor, for a client that sends a character at a  *)
(* time and has only keys the state table keeps: the machine is then ready *)
(* whenever a key arrives.                                                 *)
KeptClient == CharacterAtATime /\ Packets \subseteq KeptKeys

KeptChars == Printable \cup {"DEL", "ETX", "CR", "LF", "CTRL"}

KeyInv ==
    /\ CharInv
    /\ machine = "Ready"
    /\ received = packet
    /\ ~task => packet = <<>>
    /\ packet = <<>> \/ \E c \in KeptChars : packet = <<c>>

LEMMA KeptPackets ==
    ASSUME KeptClient, NEW p \in Packets
    PROVE  \E c \in KeptChars : p = <<c>> /\ c # "NUL"
<1>1. Len(p) = 1 /\ p \in KeptKeys
  BY DEF KeptClient, CharacterAtATime
<1>2. p # <<"CR", "NUL">> /\ p # <<"IAC", "VERB", "CTRL">>
  BY <1>1
<1>3. \E c \in KeptChars : p = <<c>>
  BY <1>1, <1>2 DEF KeptKeys, KeptChars
<1>4. "NUL" \notin KeptChars
  BY CharsAssumption DEF KeptChars
<1> QED BY <1>3, <1>4

(* The key of one character.                                               *)
LEMMA KeyOfOne ==
    ASSUME NEW c \in KeptChars
    PROVE  /\ c \in Printable => KeyOf(<<c>>) = <<"typed", c>>
           /\ c = "DEL" => KeyOf(<<c>>) = <<"backspace">>
           /\ c = "ETX" => KeyOf(<<c>>) = <<"interrupt">>
           /\ c = "CR" => KeyOf(<<c>>) = <<"newline">>
           /\ c \in {"LF", "CTRL"} => KeyOf(<<c>>) = <<"other">>
           /\ KeyOf(<<c>>) \in Editor!Keys
           /\ KeyOf(<<>>) = <<>>
<1>1. /\ <<c>> # <<>> /\ Head(<<c>>) = c
      /\ <<c>> \in {<<x>> : x \in Printable} <=> c \in Printable
      /\ \A x : <<c>> = <<x>> <=> c = x
      /\ <<c>> # <<"CR", "NUL">> /\ <<c>> # <<"ESC", "[", "C">>
      /\ <<c>> # <<"ESC", "[", "D">> /\ <<c>> # <<"IAC", "IAC">>
  OBVIOUS
<1>2. c \in Printable => c \notin {"DEL", "ETX", "CR", "LF", "CTRL", "SOH", "ENQ"}
  BY CharsAssumption DEF Controls
<1>3. KeyOf(<<>>) = <<>>
  BY DEF KeyOf
<1>4. CASE c \in Printable
  BY <1>1, <1>2, <1>3, <1>4 DEF KeyOf, Editor!Keys
<1>5. CASE c \in {"DEL", "ETX", "CR", "LF", "CTRL"}
  BY <1>1, <1>2, <1>3, <1>5 DEF KeyOf, Editor!Keys
<1> QED BY <1>4, <1>5 DEF KeptChars

(* Where the machine goes with a kept key.                                 *)
LEMMA KeptEntry ==
    ASSUME KeyInv, NEW s, Enters(s)
    PROVE  /\ machine' = "Ready"
           /\ s = "Backspace" => Head(packet) = "DEL"
           /\ s = "AddChar" => Head(packet) \in Printable
           /\ s = "Interrupt" => Head(packet) = "ETX"
           /\ s = "SendLine" => Head(packet) = "CR"
           /\ s # "AddFF"
           /\ s \in Resting \cup {"CSICommand", "IACCommand"} => Head(packet) = "LF"
<1>1. PICK c \in KeptChars : packet = <<c>>
  BY DEF KeyInv, Enters
<1>2. Head(packet) = c /\ <<"Ready", c, s>> \in StateTable
  BY <1>1 DEF KeyInv, Enters
<1>3. c \notin {"ESC", "IAC", "SOH", "ENQ"}
  BY CharsAssumption DEF KeptChars, Controls
<1>4. \/ c = "DEL" /\ s = "Backspace"
      \/ c = "ETX" /\ s = "Interrupt"
      \/ c = "LF" /\ s = "Ready"
      \/ c = "CR" /\ s = "SendLine"
      \/ c \in Printable /\ s = "AddChar"
  BY <1>2, <1>3 DEF StateTable
<1>5. machine' = "Ready"
  BY <1>4 DEF Enters, Resting
<1> QED BY <1>2, <1>4, <1>5 DEF Resting

LEMMA KeptIgnored ==
    ASSUME KeyInv, Ignored
    PROVE  machine' = "Ready" /\ Head(packet) = "CTRL"
<1>1. PICK c \in KeptChars : packet = <<c>>
  BY DEF KeyInv, Ignored
<1>2. Head(packet) = c /\ \A entry \in StateTable : <<entry[1], entry[2]>> # <<"Ready", c>>
  BY <1>1 DEF KeyInv, Ignored
<1>3. ASSUME c # "CTRL" PROVE FALSE
  <2>1. \E s : <<"Ready", c, s>> \in StateTable
    BY <1>3 DEF StateTable, KeptChars
  <2>2. PICK s : <<"Ready", c, s>> \in StateTable
    BY <2>1
  <2> QED BY <1>2, <2>2
<1> QED BY <1>2, <1>3 DEF KeyInv, Ignored

LEMMA KeyStep == ASSUME KeptClient PROVE KeyInv /\ [TermNext]_termVars => KeyInv'
<1> SUFFICES ASSUME KeyInv, [TermNext]_termVars PROVE KeyInv'
  OBVIOUS
<1>0. CharInv'
  BY CharStep DEF KeptClient, KeyInv
<1>1. CASE Connected \/ Disconnected \/ UNCHANGED termVars
  BY <1>0, <1>1 DEF Connected, Disconnected, termVars, telnet, KeyInv
<1>2. ASSUME NEW p \in Packets, ReceivedData(p)
      PROVE  KeyInv'
  <2>1. PICK c \in KeptChars : p = <<c>> /\ c # "NUL"
    BY KeptPackets
  <2>2. packet' = p /\ received' = p
    BY <1>2, <2>1 DEF ReceivedData, StopsAtNul
  <2> QED BY <1>0, <1>2, <2>1, <2>2 DEF ReceivedData, telnet, KeyInv
<1>3. CASE ReceiveChar
  <2>1. packet' = <<>> /\ received' = <<>>
    BY <1>3, ReceiveHandsOver, HandOverLeavesNothing DEF KeyInv
  <2>2. machine' = "Ready"
    BY <1>3, KeptEntry, KeptIgnored
       DEF ReceiveChar, Backspace, AddChar, AddFF, Interrupt, SendLine, Moves
  <2> QED BY <1>0, <2>1, <2>2 DEF KeyInv
<1> QED BY <1>1, <1>2, <1>3 DEF TermNext

LEMMA KeyInit == TermInit => KeyInv /\ Editor!Init
BY CharInit DEF TermInit, KeyInv, Editor!Init, Editor!Nothing, Nothing, KeyOf, Editor!NoKey

(* A character is handled as the editor acts on the key.                   *)
LEMMA EditorReceive ==
    ASSUME KeyInv, ReceiveChar
    PROVE  Editor!Next
<1>1. /\ packet # <<>> /\ toClient = <<>> /\ CharInv
      /\ line \in Seq(LineChars) /\ position \in 0..Len(line)
  BY ReceiveHandsOver DEF KeyInv, CharInv, NothingLeft, LineInv, TermTypeOK
<1>2. packet' = <<>> /\ received' = <<>>
  BY ReceiveHandsOver, HandOverLeavesNothing DEF KeyInv
<1>3. PICK c \in KeptChars : packet = <<c>> /\ Head(packet) = c /\ received = <<c>>
  BY <1>1 DEF KeyInv
<1>4. KeyOf(received)' = Editor!NoKey
  BY <1>2, <1>3, KeyOfOne DEF Editor!NoKey
<1>5. CASE Backspace
  <2>1. heard' = Nothing
    BY <1>1, <1>5, HandOverLeavesNothing DEF Backspace, Nothing
  <2>2. KeyOf(received) = <<"backspace">>
    BY <1>3, <1>5, KeptEntry, KeyOfOne DEF Backspace
  <2>3. position > 0 => line # <<>>
    BY <1>1
  <2>4. IF position > 0
        THEN line' = RemoveAt(line, position) /\ position' = position - 1
        ELSE line' = line /\ position' = position
    BY <1>5, <2>3 DEF Backspace
  <2>5. Editor!Backspace
    BY <2>1, <2>2, <2>4 DEF Editor!Backspace, Editor!Nothing, Nothing, Editor!RemoveAt, RemoveAt
  <2> QED BY <1>4, <2>5 DEF Editor!Act, Editor!Next
<1>6. CASE AddChar
  <2>1. heard' = Nothing
    BY <1>1, <1>6, HandOverLeavesNothing DEF AddChar, Nothing
  <2>2. c \in Printable /\ KeyOf(received) = <<"typed", c>>
    BY <1>3, <1>6, KeptEntry, KeyOfOne DEF AddChar
  <2>3. line' = InsertAt(line, position + 1, c) /\ position' = position + 1
    BY <1>3, <1>6 DEF AddChar
  <2>4. Editor!Type(c)
    BY <2>1, <2>2, <2>3 DEF Editor!Type, Editor!Nothing, Nothing, Editor!InsertAt, InsertAt
  <2> QED BY <1>4, <2>2, <2>4 DEF Editor!Act, Editor!Next
<1>7. CASE AddFF
  BY <1>7, KeptEntry DEF AddFF
<1>8. CASE Interrupt
  <2>1. heard' = [text |-> <<>>, action |-> "Interrupt"]
    BY <1>1, <1>8, HandOverLeavesNothing DEF Interrupt
  <2>2. KeyOf(received) = <<"interrupt">>
    BY <1>3, <1>8, KeptEntry, KeyOfOne DEF Interrupt
  <2>3. Editor!Interrupt
    BY <1>8, <2>1, <2>2 DEF Interrupt, Editor!Interrupt
  <2> QED BY <1>4, <2>3 DEF Editor!Act, Editor!Next
<1>9. CASE SendLine
  <2>1. heard' = [text |-> line, action |-> "NewLine"]
    BY <1>1, <1>9, HandOverLeavesNothing DEF SendLine
  <2>2. KeyOf(received) = <<"newline">>
    BY <1>3, <1>9, KeptEntry, KeyOfOne DEF SendLine
  <2>3. Editor!Newline
    BY <1>9, <2>1, <2>2 DEF SendLine, Editor!Newline
  <2> QED BY <1>4, <2>3 DEF Editor!Act, Editor!Next
<1>10. CASE Moves
  <2>1. heard' = Nothing
    BY <1>1, <1>10, HandOverLeavesNothing DEF Moves, Nothing
  <2>2. c \in {"LF", "CTRL"}
    BY <1>3, <1>10, KeptEntry, KeptIgnored DEF Moves
  <2>3. KeyOf(received) = <<"other">>
    BY <1>3, <2>2, KeyOfOne
  <2>4. Editor!Move
    BY <1>10, <2>1, <2>3 DEF Moves, Editor!Move, Editor!Nothing, Nothing
  <2> QED BY <1>4, <2>4 DEF Editor!Act, Editor!Next
<1> QED BY <1>5, <1>6, <1>7, <1>8, <1>9, <1>10 DEF ReceiveChar

(* In character mode, and with the kept keys, Terminal implements the      *)
(* editor Telnet.h promises: each key edits the line as it says, and what  *)
(* the task is told is the line.                                           *)
THEOREM CharacterModeEdits ==
    ASSUME KeptClient PROVE TermSpec => EditsLikeLineEditor
<1>1. KeyInv /\ [TermNext]_termVars => [Editor!Next]_(Editor!vars)
  <2> SUFFICES ASSUME KeyInv, [TermNext]_termVars PROVE Editor!Next \/ UNCHANGED Editor!vars
    OBVIOUS
  <2>1. CASE Connected
    <3>1. received = <<>> /\ received' = <<>>
      BY <2>1 DEF Connected, KeyInv
    <3> QED BY <2>1, <3>1
            DEF Connected, Editor!Next, Editor!Reset, Editor!Nothing, Nothing, Editor!NoKey, KeyOf
  <2>2. CASE Disconnected \/ UNCHANGED termVars
    BY <2>2 DEF Disconnected, termVars, telnet, Editor!vars
  <2>3. ASSUME NEW p \in Packets, ReceivedData(p)
        PROVE  Editor!Next
    <3>1. PICK c \in KeptChars : p = <<c>> /\ c # "NUL"
      BY KeptPackets
    <3>2. received' = <<c>> /\ received = <<>>
      BY <2>3, <3>1 DEF ReceivedData, StopsAtNul, KeyInv
    <3>3. KeyOf(received) = Editor!NoKey /\ KeyOf(received)' \in Editor!Keys
      BY <3>2, KeyOfOne DEF Editor!NoKey
    <3>4. Editor!Press(KeyOf(received)')
      BY <2>3, <3>3 DEF ReceivedData, telnet, Editor!Press, Editor!Nothing, Nothing
    <3> QED BY <3>3, <3>4 DEF Editor!Next
  <2>4. CASE ReceiveChar
    BY <2>4, EditorReceive
  <2> QED BY <2>1, <2>2, <2>3, <2>4 DEF TermNext
<1> QED BY <1>1, KeyInit, KeyStep, PTL DEF TermSpec, EditsLikeLineEditor, Editor!Spec

-----------------------------------------------------------------------------
(* A line without literals is one whose position is at its end.            *)
LEMMA NoLiterals ==
    ASSUME NEW s \in Seq(LineChars), NEW k \in 0..Len(s),
           \A i \in 1..Len(s) : IF i <= k THEN s[i] \in Printable ELSE s[i] = "IAC"
    PROVE  "IAC" \notin ToSet(s) <=> k = Len(s)
<1>1. ToSet(s) = {s[i] : i \in 1..Len(s)} /\ Len(s) \in Nat
  BY DEF ToSet
<1>2. CASE k = Len(s)
  BY <1>1, <1>2, CharFacts
<1>3. CASE k # Len(s)
  <2>1. Len(s) \in 1..Len(s) /\ ~(Len(s) <= k)
    BY <1>1, <1>3
  <2> QED BY <1>1, <1>3, <2>1
<1> QED BY <1>2, <1>3

LEMMA NothingShown == Shown(NoEcho) = screen
BY DEF Shown, NoEcho, Echo

LEMMA EchoReceive ==
    ASSUME CharInv, EchoShowsLine, ReceiveChar, LineInv', "IAC" \notin ToSet(line')
    PROVE  screen' = [text |-> line', cursor |-> position']
<1>1. /\ packet # <<>> /\ toChannel = NoEcho /\ LineInv
      /\ line \in Seq(LineChars) /\ position \in 0..Len(line) /\ Len(line) \in Nat
  BY ReceiveHandsOver DEF CharInv, NothingLeft, LineInv, TermTypeOK
<1>2. position' = Len(line')
  <2>1. /\ line' \in Seq(LineChars) /\ position' \in 0..Len(line')
        /\ \A i \in 1..Len(line') : IF i <= position' THEN line'[i] \in Printable
                                                      ELSE line'[i] = "IAC"
    BY DEF LineInv, TermTypeOK, SplitLine
  <2> QED BY <2>1, NoLiterals
<1>3. position = Len(line) => screen = [text |-> line, cursor |-> position]
  BY <1>1, NoLiterals DEF LineInv, SplitLine, EchoShowsLine
<1>4. CASE Backspace
  <2>1. CASE line # <<>> /\ position > 0
    <3>1. position' = position - 1 /\ line' = RemoveAt(line, position)
      BY <1>4, <2>1 DEF Backspace
    <3> DEFINE n == Len(line)
               m == Len(line')
    <3>2. m = n - 1 /\ n \in Nat /\ position \in 0..n /\ position' = position - 1 /\ position' = m
      BY <1>1, <1>2, <2>1, <3>1, RemovedLine
    <3> HIDE DEF n, m
    <3>3. position = n
      BY <3>2
    <3>4. position = Len(line)
      BY <3>3 DEF n
    <3>5. screen' = Shown(Echo("rubout", <<>>, 0))
      BY <1>1, <1>2, <1>4, <2>1, HandOverLeavesNothing DEF Backspace
    <3> QED BY <1>1, <1>3, <2>1, <3>1, <3>5, <3>4 DEF Shown, Echo
  <2>2. CASE ~(line # <<>> /\ position > 0)
    <3>1. screen' = screen /\ line' = line /\ position' = position
      BY <1>1, <1>4, <2>2, HandOverLeavesNothing, NothingShown DEF Backspace
    <3> QED BY <1>2, <1>3, <3>1
  <2> QED BY <2>1, <2>2
<1>5. CASE AddChar
  <2> DEFINE c == Head(packet)
  <2>1. /\ position' = position + 1 /\ line' = InsertAt(line, position + 1, c)
        /\ c \in Printable /\ c \in LineChars
    BY <1>5, AddedIsPrintable, CharFacts DEF AddChar
  <2> DEFINE n == Len(line)
             m == Len(line')
  <2>2. m = n + 1 /\ n \in Nat /\ position \in 0..n /\ position' = position + 1 /\ position' = m
    BY <1>1, <1>2, <2>1, InsertedLine
  <2> HIDE DEF n, m
  <2>3. position = n
    BY <2>2
  <2>4. position = Len(line)
    BY <2>3 DEF n
  <2>5. screen' = Shown(Echo("show", <<c>>, 0))
    BY <1>1, <1>5, <2>4, HandOverLeavesNothing DEF AddChar
  <2>6. /\ screen'.text = SubSeq(line, 1, position) \o <<c>>
                           \o SubSeq(line, position + 2, Len(line))
        /\ screen'.cursor = position + 1
        /\ screen' = [text |-> screen'.text, cursor |-> screen'.cursor]
    <3>1. screen.text = line /\ screen.cursor = position
      BY <1>3, <2>4
    <3>2. Shown(Echo("show", <<c>>, 0)) =
            [text   |-> SubSeq(screen.text, 1, screen.cursor) \o <<c>>
                        \o SubSeq(screen.text, screen.cursor + 2, Len(screen.text)),
             cursor |-> screen.cursor + 1]
      BY DEF Shown, Echo
    <3> DEFINE shown(t, k) == [text   |-> SubSeq(t, 1, k) \o <<c>> \o SubSeq(t, k + 2, Len(t)),
                               cursor |-> k + 1]
    <3>3. screen' = shown(screen.text, screen.cursor)
      BY <2>5, <3>2
    <3> HIDE DEF shown
    <3>4. screen' = shown(line, position)
      BY <3>1, <3>3
    <3> QED BY <3>4 DEF shown
  <2>7. SubSeq(line, position + 2, Len(line)) = <<>> /\ SubSeq(line, position + 1, Len(line)) = <<>>
    BY <1>1, <2>4, SubSeqEmpty
  <2>8. SubSeq(line, (position + 1), Len(line)) = <<>> /\ SubSeq(line, 1, (position + 1) - 1) = SubSeq(line, 1, position)
    BY <1>1, <2>7
  <2>9. line' = SubSeq(line, 1, position) \o <<c>> \o <<>>
    BY <2>1, <2>8 DEF InsertAt
  <2>10. screen'.text = line'
    BY <2>6, <2>7, <2>9
  <2> QED BY <2>1, <2>6, <2>10
<1>6. CASE AddFF
  <2> DEFINE n == Len(line)
             m == Len(line')
  <2>1. m = n + 1 /\ n \in Nat /\ position \in 0..n /\ position = m
    BY <1>1, <1>2, <1>6, CharFacts DEF AddFF
  <2> HIDE DEF n, m
  <2>2. FALSE
    BY <2>1
  <2> QED BY <2>2
<1>7. CASE Interrupt \/ Moves
  <2>1. screen' = screen /\ line' = line /\ position' = position
    BY <1>1, <1>7, HandOverLeavesNothing, NothingShown DEF Interrupt, Moves
  <2> QED BY <1>2, <1>3, <2>1
<1>8. CASE SendLine
  <2>1. screen' = Shown(Echo("newline", <<>>, 0)) /\ line' = <<>> /\ position' = 0
    BY <1>1, <1>8, HandOverLeavesNothing DEF SendLine
  <2> QED BY <2>1 DEF Shown, Echo, BlankScreen
<1> QED BY <1>4, <1>5, <1>6, <1>7, <1>8 DEF ReceiveChar

(* In character mode the display shows the line and the cursor stands at   *)
(* the position, through every insertion, removal and reconnection, until  *)
(* a literal 0xff is put in the line (Telnet.cpp).                         *)
THEOREM CharacterModeEchoes ==
    ASSUME CharacterAtATime PROVE TermSpec => []EchoShowsLine
<1> DEFINE EchoInv == CharInv /\ EchoShowsLine
<1>1. TermInit => EchoInv
  BY CharInit DEF TermInit, EchoShowsLine, BlankScreen
<1>2. EchoInv /\ [TermNext]_termVars => EchoInv'
  <2> SUFFICES ASSUME EchoInv, [TermNext]_termVars PROVE EchoShowsLine'
    BY CharStep
  <2>1. CASE Connected
    BY <2>1 DEF Connected, EchoShowsLine, BlankScreen
  <2>2. CASE Disconnected \/ UNCHANGED termVars \/ \E p \in Packets : ReceivedData(p)
    BY <2>2 DEF Disconnected, ReceivedData, termVars, telnet, EchoShowsLine
  <2>3. CASE ReceiveChar
    <3>1. LineInv'
      BY LineStep DEF CharInv
    <3> QED BY <2>3, <3>1, EchoReceive DEF EchoShowsLine
  <2> QED BY <2>1, <2>2, <2>3 DEF TermNext
<1> QED BY <1>1, <1>2, PTL DEF TermSpec
=============================================================================
