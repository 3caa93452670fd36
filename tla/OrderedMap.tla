----------------------------- MODULE OrderedMap ------------------------------
(***************************************************************************)
(* Map of Containers.h: a Vector of pairs in the order of their keys.  A   *)
(* key is a text, which is a sequence of words, and keys are ordered as    *)
(* strcmp orders them.                                                     *)
(***************************************************************************)
EXTENDS Integers, Sequences, SequencesExt

CONSTANT Words     \* every word, in the order of their characters

ASSUME WordsAssumption == Words \in Seq(STRING) /\ IsInjective(Words)

Rank(word) == CHOOSE i \in DOMAIN Words : Words[i] = word

(* compare(s, t) < 0. *)
Precedes(s, t) ==
    \E n \in 0..(Len(t) - 1) :
        /\ n <= Len(s)
        /\ SubSeq(s, 1, n) = SubSeq(t, 1, n)
        /\ n = Len(s) \/ Rank(s[n + 1]) < Rank(t[n + 1])

(* The index of key among the pairs range[1] to range[2], which count from *)
(* 0, or the place where it belongs, made negative.                        *)
Search(map, key) ==
    LET search[range \in (0..Len(map)) \X (-1..(Len(map) - 1))] ==
            LET first == range[1]
                last  == range[2]
                mid   == (first + last) \div 2
                of    == map[mid + 1].key
            IN  IF first > last THEN -(first + 1)
                ELSE IF key = of THEN mid
                ELSE IF Precedes(key, of) THEN search[<<first, mid - 1>>]
                ELSE search[<<mid + 1, last>>]
    IN  search

Found(map, key) == Search(map, key)[<<0, Len(map) - 1>>]

Has(map, key) == Found(map, key) >= 0

(* find(key)->value *)
ValueOf(map, key) == map[Found(map, key) + 1].value

(* A new key goes one place too far. *)
EmplaceAfter(map, key, value) ==
    IF Has(map, key) THEN map
    ELSE LET at == -Found(map, key)
         IN  InsertAt(map, IF at > Len(map) THEN at ELSE at + 1, [key |-> key, value |-> value])

(* A key that is there keeps its value. *)
Emplace(map, key, value) ==
    IF Has(map, key) THEN map
    ELSE InsertAt(map, -Found(map, key), [key |-> key, value |-> value])
=============================================================================
