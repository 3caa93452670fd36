-------------------------------- MODULE Json ---------------------------------
(***************************************************************************)
(* JSON::parse (JSON.cpp) over the tokens of the Scanner: a recursive      *)
(* descent that looks at the token at hand and retires it, and an error    *)
(* that belongs to the JSON object and that nothing clears.                *)
(*                                                                         *)
(* Someone writes a text, keeping the rules of JSON, and has it parsed,    *)
(* finished or not; then comes another text for the same JSON object.  A   *)
(* value is represented by its tokens, as toString() puts them together.   *)
(***************************************************************************)
EXTENDS OrderedMap

CONSTANTS
    Literals,     \* the tokens that are a value: numbers, strings and names
    Strings,      \* those of them that may stand before a colon
    Number,       \* one that may stand behind a minus
    MaxTokens,    \* bound on the length of a text
    MaxParses     \* bound on the texts

VARIABLES
    written,      \* the tokens of the text
    meant,        \* the values of the brackets that are open, the outermost first
    failed,       \* JSON::_error is set
    result,       \* what the last parse returned, of an object that had failed or not
    parses        \* the texts that were parsed

jsonVars == <<written, meant, failed, result, parses>>

Unparsed == [ok |-> FALSE, value |-> <<>>, stale |-> FALSE, done |-> FALSE]

(* The brackets of a text, around which there is nothing. *)
Outside == <<[kind |-> "text", keys |-> <<>>, values |-> <<>>]>>

JsonInit ==
    /\ written = <<>>
    /\ meant = Outside
    /\ failed = FALSE
    /\ result = Unparsed
    /\ parses = 0

-----------------------------------------------------------------------------
(* What a step of the parser leaves: its verdict, the value, the place of  *)
(* the next token and the error of the object.                             *)
Step(ok, value, next, error) == [ok |-> ok, value |-> value, next |-> next, error |-> error]

Token(text, i) == IF i \in DOMAIN text THEN text[i] ELSE "EndOfFile"

Commas(texts) ==
    IF texts = <<>> THEN <<>>
    ELSE Head(texts) \o FlattenSeq([i \in DOMAIN Tail(texts) |-> <<",">> \o Tail(texts)[i]])

ArrayText(values) == <<"[">> \o Commas(values) \o <<"]">>

ObjectText(map) == <<"{">> \o Commas([i \in DOMAIN map |-> map[i].key \o <<":">> \o map[i].value]) \o <<"}">>

RECURSIVE Value(_, _, _), Elements(_, _, _), Members(_, _, _)

(* The closing bracket is not retired. *)
ClosedBefore(text, r, bracket, value) ==
    IF ~r.ok THEN r
    ELSE IF Token(text, r.next) = bracket THEN Step(TRUE, value, r.next, r.error)
    ELSE Step(FALSE, <<>>, r.next, TRUE)

(* The brackets of a container whose members the step r has read.          *)
Closed(text, r, bracket, value) ==
    IF ~r.ok THEN r
    ELSE IF Token(text, r.next) = bracket THEN Step(TRUE, value, r.next + 1, r.error)
    ELSE Step(FALSE, <<>>, r.next, TRUE)

Value(text, i, error) ==
    CASE Token(text, i) = "-" ->
            IF Token(text, i + 1) = Number THEN Step(TRUE, <<"-", Number>>, i + 2, error)
            ELSE Step(FALSE, <<>>, i + 1, error)
      [] Token(text, i) = "[" ->
            LET first == Value(text, i + 1, error)
                r     == IF first.ok THEN Elements(text, <<first.value>>, first)
                         ELSE Step(TRUE, <<>>, first.next, first.error)
            IN  Closed(text, r, "]", ArrayText(r.value))
      [] Token(text, i) = "{" ->
            LET r == Members(text, <<>>, Step(TRUE, <<>>, i, error))
            IN  Closed(text, r, "}", ObjectText(r.value))
      [] Token(text, i) \in Literals -> Step(TRUE, <<text[i]>>, i + 1, error)
      [] OTHER -> Step(FALSE, <<>>, i, TRUE)

(* The elements behind the first ones. *)
Elements(text, values, r) ==
    IF Token(text, r.next) # "," THEN Step(TRUE, values, r.next, r.error)
    ELSE LET one == Value(text, r.next + 1, r.error)
         IN  IF one.ok THEN Elements(text, Append(values, one.value), one)
             ELSE Step(FALSE, <<>>, one.next, TRUE)

PropertyAssignment(text, i, error) ==
    IF Token(text, i) \notin Strings THEN Step(FALSE, <<>>, i, TRUE)
    ELSE IF Token(text, i + 1) # ":" THEN Step(FALSE, <<>>, i + 1, TRUE)
    ELSE Value(text, i + 2, error)

(* The members behind those of map, from the "{" or the comma at r.next on; *)
(* the error is looked at behind a comma only.                             *)
Members(text, map, r) ==
    LET one == PropertyAssignment(text, r.next + 1, r.error)
    IN  IF map # <<>> /\ Token(text, r.next) # "," THEN Step(TRUE, map, r.next, r.error)
        ELSE IF ~one.ok THEN Step(TRUE, map, one.next, one.error)
        ELSE IF map # <<>> /\ one.error THEN Step(FALSE, <<>>, one.next, TRUE)
        ELSE Members(text, Emplace(map, <<text[r.next + 1]>>, one.value), one)
-----------------------------------------------------------------------------
(* The writer.                                                             *)
Top == Last(meant)

AtStart == Len(Top.keys) = 0 /\ Len(Top.values) = 0

(* A value may follow: behind a key, and in an array or around it all      *)
(* behind the bracket or a comma.                                          *)
ValueMay ==
    CASE Top.kind = "text"   -> written = <<>>
      [] Top.kind = "array"  -> AtStart \/ Last(written) = ","
      [] Top.kind = "object" -> written # <<>> /\ Last(written) = ":"

With(stack, value) ==
    [stack EXCEPT ![Len(stack)].values = Append(@, value)]

Write(tokens) ==
    /\ ~result.done
    /\ Len(written) + Len(tokens) <= MaxTokens
    /\ written' = written \o tokens
    /\ UNCHANGED <<failed, result, parses>>

WriteValue ==
    \E value \in {<<token>> : token \in Literals} \cup {<<"-", Number>>} :
        ValueMay /\ Write(value) /\ meant' = With(meant, value)

WriteOpen ==
    \E kind \in {"array", "object"} :
        /\ ValueMay
        /\ Write(<<IF kind = "array" THEN "[" ELSE "{">>)
        /\ meant' = Append(meant, [kind |-> kind, keys |-> <<>>, values |-> <<>>])

WriteKey ==
    \E key \in Strings :
        /\ Top.kind = "object"
        /\ AtStart \/ Last(written) = ","
        /\ Write(<<key, ":">>)
        /\ meant' = [meant EXCEPT ![Len(meant)].keys = Append(@, key)]

WriteComma ==
    /\ Top.kind # "text" /\ ~AtStart
    /\ Last(written) \notin {",", ":"}
    /\ Write(<<",">>)
    /\ UNCHANGED meant

(* Of the members with one key the first counts.                           *)
ObjectOf(keys, values) ==
    LET firsts == {i \in DOMAIN keys : \A j \in 1..(i - 1) : keys[j] # keys[i]}
        order  == SetToSortSeq(firsts, LAMBDA i, j : Rank(keys[i]) < Rank(keys[j]))
    IN  [n \in DOMAIN order |-> [key |-> <<keys[order[n]]>>, value |-> values[order[n]]]]

WriteClose ==
    /\ Top.kind # "text"
    /\ AtStart \/ Last(written) \notin {",", ":"}
    /\ Write(<<IF Top.kind = "array" THEN "]" ELSE "}">>)
    /\ meant' = With(Front(meant), IF Top.kind = "array" THEN ArrayText(Top.values)
                                   ELSE ObjectText(ObjectOf(Top.keys, Top.values)))

(* JSON::parse: a value and nothing behind it.                             *)
Parse ==
    /\ ~result.done
    /\ parses < MaxParses
    /\ LET r   == Value(written, 1, failed)
           end == Token(written, r.next) = "EndOfFile"
       IN  /\ result' = [ok |-> r.ok /\ end, value |-> r.value, stale |-> failed, done |-> TRUE]
           /\ failed' = (r.error \/ (r.ok /\ ~end))
    /\ parses' = parses + 1
    /\ UNCHANGED <<written, meant>>

AnotherText ==
    /\ result.done
    /\ written' = <<>>
    /\ meant' = Outside
    /\ result' = Unparsed
    /\ UNCHANGED <<failed, parses>>

JsonNext ==
    WriteValue \/ WriteOpen \/ WriteKey \/ WriteComma \/ WriteClose \/ Parse \/ AnotherText

-----------------------------------------------------------------------------
Finished == Len(meant) = 1 /\ Len(meant[1].values) = 1

(* What leaves the error of the object set: a text that was refused before *)
(* and a pair of brackets with nothing between them.                       *)
Spoilt ==
    \/ result.stale
    \/ \E i \in DOMAIN written \ {1} : <<written[i - 1], written[i]>> \in {<<"[", "]">>, <<"{", "}">>}

(* A comma between two members of an object; behind one of these the       *)
(* parser looks at the error.                                              *)
Listing == \E i \in DOMAIN written : i > 2 /\ written[i - 2] = "," /\ written[i] = ":"

(* A text that is finished is parsed to what was meant, one that is not is *)
(* refused (JSON::parse), unless two members of an object meet the error   *)
(* that something before them left in the JSON object.                     *)
ReadsWhatIsWritten ==
    result.done =>
        /\ result.ok => Finished
        /\ Finished /\ ~(Spoilt /\ Listing) =>
               result.ok /\ result.value = meant[1].values[1]
=============================================================================
