----------------------------- MODULE WebRequest ------------------------------
(***************************************************************************)
(* A request to the web server: what HTTPServer.cpp reads in the text of a *)
(* packet with String::split and String::trim, which of the handlers that  *)
(* Application.cpp registers it calls, and what this one does with the     *)
(* parameters.  Network has the way of the packet to the server.           *)
(*                                                                         *)
(* A text is a sequence of words and of the characters the parser looks    *)
(* for.  The client composes its request as the parts it consists of, and  *)
(* the text is these parts joined.                                         *)
(***************************************************************************)
EXTENDS OrderedMap, FiniteSets, FiniteSetsExt

CONSTANTS
    Verbs,        \* the words a request may begin with
    Paths,        \* the texts a client may ask for
    Params,       \* what may follow the path: sequences of texts, to be joined by "="
    Headers,      \* what may follow the first line, to be joined by ":"
    MaxParams, MaxHeaders,  \* bounds on the length of a request
    Noise         \* the text of memory that was never written

VARIABLES
    request,      \* what the client composes
    served,       \* what the server did with it
    station       \* what the station was told to connect to

webVars == <<request, served, station>>

Blank     == {" ", "CR", "LF"}
None      == <<>>
Unserved  == [uri |-> None, file |-> None, reply |-> "none", headers |-> <<>>]
NoRequest == [verb |-> "", path |-> None, params |-> <<>>, headers |-> <<>>]

(* A word has no character that separates, and a text that is composed has *)
(* none that would end it where it stands.  The words are known of the     *)
(* texts that are keys.                                                    *)
ASSUME TextsAssumption ==
    /\ Range(Words) \cap (Blank \cup {"?", "&", "=", ":"}) = {}
    /\ {"ssid", "password"} \subseteq Range(Words)

ASSUME ClientAssumption ==
    /\ Verbs \subseteq STRING \ {" ", "LF"}
    /\ Paths \subseteq Seq(STRING \ {" ", "LF", "?"})
    /\ \A path \in Paths : path # None /\ path[1] = "/"
    /\ Params \subseteq Seq(Seq(Range(Words)))
    /\ Headers \subseteq Seq(Seq(STRING \ {"LF", ":"}))
    /\ \A parts \in Headers : Len(parts) = 2 => parts[1] \in Seq(Range(Words)) /\ parts[1] # None

WebInit ==
    /\ request = NoRequest
    /\ served = Unserved
    /\ station = <<None, None>>

-----------------------------------------------------------------------------
(* The texts between the separators, the empty ones included; there is     *)
(* none in an empty text.                                                  *)
Parts(text, separator) ==
    LET parts[n \in 0..Len(text)] ==
            LET before == parts[n - 1]
            IN  IF n = 0 THEN <<None>>
                ELSE IF text[n] = separator THEN Append(before, None)
                ELSE [before EXCEPT ![Len(before)] = Append(@, text[n])]
    IN  parts[Len(text)]

Split(text, separator) == IF text = None THEN <<>> ELSE Parts(text, separator)

(* A text of blanks is read from before its start on. *)
Trim(text) ==
    LET kept == {i \in DOMAIN text : text[i] \notin Blank}
    IN  IF text = None THEN None
        ELSE IF kept = {} THEN Noise
        ELSE SubSeq(text, Min(kept), Max(kept))

Join(texts, separator) ==
    LET joined[n \in 0..Len(texts)] ==
            IF n = 0 THEN None
            ELSE IF n = 1 THEN texts[1]
            ELSE joined[n - 1] \o <<separator>> \o texts[n]
    IN  joined[Len(texts)]

(* Pairs into a map, in their order; what is not a pair is passed over.    *)
EmplaceAll(map, pairs) ==
    LET after[n \in 0..Len(pairs)] ==
            IF n = 0 THEN map
            ELSE IF Len(pairs[n]) = 2 THEN Emplace(after[n - 1], pairs[n][1], pairs[n][2])
            ELSE after[n - 1]
    IN  after[Len(pairs)]

PairsOf(texts, separator) == [i \in DOMAIN texts |-> Split(texts[i], separator)]

Trimmed(pairs) == [i \in DOMAIN pairs |-> [j \in DOMAIN pairs[i] |-> Trim(pairs[i][j])]]

Methods == {"DELETE", "GET", "POST", "PUT"}

Invalid == [valid |-> FALSE, path |-> None, params |-> <<>>, headers |-> <<>>]

ParseRequest(text) ==
    LET lines == Split(text, "LF")
        line  == Split(lines[1], " ")
        uri   == Split(line[2], "?")
    IN  IF lines = <<>> THEN Invalid
        ELSE IF Len(line) # 3 THEN Invalid
        ELSE IF line[1] \notin {<<w>> : w \in Methods} THEN Invalid
        ELSE [valid   |-> TRUE,
              path    |-> IF Len(uri) > 1 THEN uri[1] ELSE line[2],
              params  |-> IF Len(uri) > 1 THEN EmplaceAll(<<>>, PairsOf(Split(uri[2], "&"), "=")) ELSE <<>>,
              headers |-> EmplaceAll(<<>>, Trimmed(PairsOf(Tail(lines), ":")))]

(* What startNetworkServers registers, in this order.                      *)
Handlers == <<<<"/">>, <<"/", "favicon.ico">>, <<"/", "rest", "/", "v1", "/">>>>

Begins(uri, path) == Len(uri) < Len(path) /\ SubSeq(path, 1, Len(uri)) = uri

(* The uri of the handler of a path: its own, or else the longest of those *)
(* the path begins with.                                                   *)
Handler(path) ==
    LET exact  == {i \in DOMAIN Handlers : Handlers[i] = path}
        prefix == {i \in DOMAIN Handlers : Begins(Handlers[i], path)}
        size(i) == Len(Handlers[i])
    IN  IF exact # {} THEN Handlers[Min(exact)]
        ELSE IF prefix = {} THEN None
        ELSE Handlers[CHOOSE i \in prefix : \A j \in prefix : size(j) <= size(i)]

(* find(key)->value, and what is behind the pairs when there is no key.    *)
Param(params, key) == IF Has(params, key) THEN ValueOf(params, key) ELSE Noise

-----------------------------------------------------------------------------
(* The client. *)
Begin(verb, path) ==
    /\ request = NoRequest
    /\ request' = [NoRequest EXCEPT !.verb = verb, !.path = path]
    /\ UNCHANGED <<served, station>>

AddParam(parts) ==
    /\ request # NoRequest
    /\ served = Unserved
    /\ Len(request.params) < MaxParams
    /\ request.headers = <<>>
    /\ request' = [request EXCEPT !.params = Append(@, parts)]
    /\ UNCHANGED <<served, station>>

AddHeader(parts) ==
    /\ request # NoRequest
    /\ served = Unserved
    /\ Len(request.headers) < MaxHeaders
    /\ request' = [request EXCEPT !.headers = Append(@, parts)]
    /\ UNCHANGED <<served, station>>

TextOf(r) ==
    LET uri     == IF r.params = <<>> THEN r.path
                   ELSE Join(<<r.path, Join([i \in DOMAIN r.params |-> Join(r.params[i], "=")], "&")>>, "?")
        first   == Join(<<<<r.verb>>, uri, <<"HTTP", "CR">>>>, " ")
        headers == [i \in DOMAIN r.headers |-> Append(Join(r.headers[i], ":"), "CR")]
    IN  Join(<<first>> \o headers \o <<<<"CR">>, None>>, "LF")

(* ReceivedData of a whole request.  The response of a handler whose uri   *)
(* is the path itself is not looked at; that of a file is sent by the      *)
(* handler.                                                                *)
Receive ==
    /\ request # NoRequest
    /\ served = Unserved
    /\ LET r      == ParseRequest(TextOf(request))
           uri    == Handler(r.path)
           rest   == uri = Handlers[3]
           file   == IF Last(r.path) = "/" THEN Append(r.path, "index.html") ELSE r.path
       IN  IF ~r.valid THEN served' = [Unserved EXCEPT !.reply = "invalid"] /\ UNCHANGED station
           ELSE /\ served' = [uri |-> uri,
                              file |-> IF uri = None \/ rest THEN None ELSE file,
                              reply |-> IF uri = None \/ (rest /\ r.path = uri) THEN "none"
                                        ELSE IF rest THEN "JSON" ELSE "file",
                              headers |-> r.headers]
                /\ station' = IF rest /\ SubSeq(r.path, Len(uri) + 1, Len(r.path)) = <<"setSSID">>
                              THEN <<Param(r.params, <<"ssid">>), Param(r.params, <<"password">>)>>
                              ELSE station
    /\ UNCHANGED request

WebNext ==
    \/ \E verb \in Verbs, path \in Paths : Begin(verb, path)
    \/ \E parts \in Params : AddParam(parts)
    \/ \E parts \in Headers : AddHeader(parts)
    \/ Receive

WebSpec == WebInit /\ [][WebNext]_webVars

-----------------------------------------------------------------------------
(* Where the client says something of a key, and what it says first.       *)
Said(pairs, key) == {i \in DOMAIN pairs : Len(pairs[i]) = 2 /\ pairs[i][1] = key}

SaidFirst(pairs, key) == pairs[Min(Said(pairs, key))][2]

(* inner is text without the blanks around it.                             *)
Within(inner, text) ==
    /\ inner # None
    /\ Head(inner) \notin Blank /\ Last(inner) \notin Blank
    /\ \E i, j \in DOMAIN text :
           /\ inner = SubSeq(text, i, j)
           /\ \A k \in DOMAIN text : k < i \/ k > j => text[k] \in Blank

(* The request is served as it was composed.                               *)
(*  - Its handler has the longest of the uris the path begins with, in     *)
(*    whatever order they are registered (HTTPServer.h: on).               *)
(*  - "POST /api/network/set_ssid?ssid=foo&pwd=bar HTTP/1.1   - Set ssid   *)
(*    to name and password sent" (HTTPServer.h): the station is given the  *)
(*    first ssid and the first password, whatever parameters stand before, *)
(*    between and behind them, well formed or not.                         *)
(*  - A header is what is between the blanks around it, for those that     *)
(*    have one colon and are not all blank.                                *)
RequestIsServed ==
    served # Unserved /\ served.reply # "invalid" =>
        /\ served.uri \in Range(Handlers)
        /\ \A uri \in Range(Handlers) :
               uri = request.path \/ Begins(uri, request.path) => Len(uri) <= Len(served.uri)
        /\ LET params == request.params
           IN  request.path = <<"/", "rest", "/", "v1", "/", "setSSID">>
               /\ Said(params, <<"ssid">>) # {} /\ Said(params, <<"password">>) # {}
                   => station = <<SaidFirst(params, <<"ssid">>), SaidFirst(params, <<"password">>)>>
        /\ \A i \in DOMAIN request.headers :
               LET name  == request.headers[i][1]
                   value == SaidFirst(request.headers, name)
               IN  Len(request.headers[i]) = 2 /\ ~(Range(value) \subseteq Blank)
                       => /\ Has(served.headers, name)
                          /\ Within(ValueOf(served.headers, name), value)
=============================================================================
