------------------------------- MODULE Lexer -------------------------------
(***************************************************************************)
(* The lexer (token.go): next reads one token with two characters of       *)
(* look-ahead.  A text is a sequence of characters; the parser asks for    *)
(* tokens until it is given the end of the file.                           *)
(***************************************************************************)
EXTENDS Integers, Sequences, FiniteSetsExt

CONSTANT Texts          \* the source files

VARIABLES
    text,
    s,                  \* the State: p, ch1, ch2, token, level, nextLine
    at,                 \* where next is; "next": the parser calls it
    str,                \* s.tokenString
    line,               \* code.LineNum
    tokens              \* what the parser has been given

vars == <<text, s, at, str, line, tokens>>

Nul == "nul"            \* the rune 0
Unknown == "unknown"    \* any other character

Lower == {"a", "b", "c", "d", "e", "f", "g", "h", "i", "j", "k", "l", "m",
          "n", "o", "p", "q", "r", "s", "t", "u", "v", "w", "x", "y", "z"}
Upper == {"A", "B", "C", "D", "E", "F", "G", "H", "I", "J", "K", "L", "M",
          "N", "O", "P", "Q", "R", "S", "T", "U", "V", "W", "X", "Y", "Z"}
Num == {"0", "1", "2", "3", "4", "5", "6", "7", "8", "9"}
Hex == {"a", "b", "c", "d", "e", "f", "A", "B", "C", "D", "E", "F"}
Alfa == Lower \cup Upper \cup {"@", "$", "~", "#"}
Blank == {" ", "\t", "\n"}

Two == {<<"!", "=">>, <<"&", "&">>, <<"&", "^">>, <<"*", "=">>, <<"+", "+">>,
        <<"+", "=">>, <<"-", "-">>, <<"-", "=">>, <<"/", "=">>, <<"<", "=">>,
        <<"<", "<">>, <<"=", "=">>, <<">", "=">>, <<">", ">">>, <<"|", "|">>}
One == {"&", "(", ")", "*", "%", "+", "!", ",", "-", ".", "/", ":", ";", "<",
        "=", ">", "?", "[", "]", "{", "|", "^", "}"}
KeyWords == {<<"i", "f">>, <<"a", "s">>, <<"f", "o", "r">>, <<"v", "a", "r">>,
             <<"n", "e", "w">>, <<"m", "i", "n">>, <<"m", "a", "x">>, <<"a", "b", "s">>}
    \* and the longer ones, which are told apart the same way

-----------------------------------------------------------------------------
\* A carriage return is passed over when the character after it is read; one
\* at the end of the text leaves utf8.RuneError.
NextChar(r) ==
    LET q == Min({i \in r.p + 1 .. Len(text) + 1 :
                    i = Len(text) + 1 \/ text[i] # "\r"})
        moved == [r EXCEPT !.ch1 = r.ch2,
                           !.nextLine = IF r.ch2 = "\n" THEN @ + 1 ELSE @]
    IN  IF r.p >= Len(text)
        THEN [moved EXCEPT !.ch2 = Nul, !.token = "EOF"]
        ELSE [moved EXCEPT !.p = Min({q, Len(text)}),
                           !.ch2 = IF q > Len(text) THEN Unknown ELSE text[q]]

NewState == [p |-> 0, ch1 |-> Nul, ch2 |-> Nul, token |-> "UNDEF",
             level |-> 0, nextLine |-> 1]

\* ParseImports reads the first character.
Init ==
    /\ text \in Texts
    /\ s = NextChar(NewState)
    /\ at = "next" /\ str = <<>> /\ line = 1 /\ tokens = <<>>

\* One round of next's outer loop begins: for a new call, or after a comment.
Start ==
    /\ at = "next"
    /\ line' = s.nextLine
    /\ s' = NextChar([s EXCEPT !.token = "EOF"])
    /\ at' = "blank" /\ str' = <<>>
    /\ UNCHANGED <<text, tokens>>

SkipBlank ==
    /\ at = "blank" /\ s.ch1 \in Blank
    /\ s' = NextChar(s)
    /\ UNCHANGED <<text, at, str, line, tokens>>

\* next returns the token; the parser stops at the end of the file.
Deliver(r, token, w) ==
    /\ s' = [r EXCEPT !.token = token]
    /\ tokens' = Append(tokens, [token |-> token, text |-> w, line |-> line])
    /\ at' = IF token \in {"EOF", "panic"} THEN "end" ELSE "next"
    /\ str' = <<>>
    /\ UNCHANGED <<text, line>>

\* The switch on ch1 and ch2.
Switch(case, r, w) ==
    /\ at = "blank" /\ s.ch1 \notin Blank
    /\ at' = case /\ s' = r /\ str' = w
    /\ UNCHANGED <<text, line, tokens>>

Dispatch == at = "blank" /\ s.ch1 \notin Blank
Pair == <<s.ch1, s.ch2>>
IsComment == Pair \in {<<"/", "/">>, <<"/", "*">>}

-----------------------------------------------------------------------------
Operator ==
    /\ Dispatch /\ ~IsComment
    /\ \/ Pair \in Two /\ Deliver(NextChar(s), "op", Pair)
       \/ Pair \notin Two /\ s.ch1 \in One /\ Deliver(s, "op", <<s.ch1>>)

BeginString == s.ch1 = "\"" /\ Switch("string", s, <<>>)

StringChar ==
    /\ at = "string"
    /\ LET r == NextChar(s) IN
       IF r.ch1 \in {"\"", Nul} THEN Deliver(r, "string", str)
       ELSE /\ s' = r /\ str' = Append(str, r.ch1)
            /\ UNCHANGED <<text, at, line, tokens>>

Escapes == [n |-> "\n", r |-> "\r", t |-> "\t"]

\* The token is set before the closing quote is read, whatever that is.
CharLiteral ==
    /\ Dispatch /\ s.ch1 = "'"
    /\ LET r == [NextChar(s) EXCEPT !.token = "char"]
           e == NextChar(r)
           Close(u, c) == LET z == NextChar(u) IN Deliver(z, z.token, <<c>>)
       IN  IF r.ch1 # "\\" THEN Close(r, r.ch1)
           ELSE IF e.ch1 \in DOMAIN Escapes THEN Close(e, Escapes[e.ch1])
           ELSE Deliver(e, "panic", <<>>)

BeginLineComment == Pair = <<"/", "/">> /\ Switch("line", s, <<>>)

LineComment ==
    /\ at = "line"
    /\ IF s.ch1 \in {"\n", Nul} THEN at' = "next" /\ s' = s
       ELSE at' = at /\ s' = NextChar(s)
    /\ UNCHANGED <<text, str, line, tokens>>

BeginComment ==
    Pair = <<"/", "*">> /\ Switch("comment", [s EXCEPT !.level = 1], <<>>)

\* Mutant: comments do not nest.
FlatLevel(r) == IF <<r.ch1, r.ch2>> = <<"*", "/">> THEN 0 ELSE r.level

Level(r) ==
    CASE <<r.ch1, r.ch2>> = <<"/", "*">> -> r.level + 1
      [] <<r.ch1, r.ch2>> = <<"*", "/">> -> r.level - 1
      [] OTHER -> r.level

Comment ==
    /\ at = "comment"
    /\ LET r == NextChar(s) IN
       IF s.ch1 = Nul \/ s.level = 0 THEN at' = "next" /\ s' = r
       ELSE at' = at /\ s' = [r EXCEPT !.level = Level(r)]
    /\ UNCHANGED <<text, str, line, tokens>>

\* hasDp, hasExp and hasExpSgn are what str has already.
BeginNumber ==
    /\ s.ch1 \in Num
    /\ IF s.ch1 = "0" /\ s.ch2 \in {"x", "X"}
       THEN LET r == NextChar(NextChar(s)) IN Switch("hex", r, <<r.ch1>>)
       ELSE Switch("number", s, <<s.ch1>>)

Has(c) == \E i \in DOMAIN str : str[i] \in c

HasExp == at = "number" /\ Has({"e", "E"})

InNumber ==
    \/ s.ch2 \in Num
    \/ at = "hex" /\ s.ch2 \in Hex
    \/ s.ch2 = "." /\ ~Has({"."})
    \/ s.ch2 \in {"e", "E"}
    \/ s.ch2 \in {"+", "-"} /\ HasExp /\ ~Has({"+", "-"})

Number ==
    /\ at \in {"number", "hex"}
    /\ IF InNumber
       THEN /\ s' = NextChar(s) /\ str' = Append(str, s.ch2)
            /\ UNCHANGED <<text, at, line, tokens>>
       ELSE Deliver(s, "num", IF at = "hex" THEN <<"0", "x">> \o str ELSE str)

BeginName == s.ch1 \in Alfa /\ Switch("name", s, <<s.ch1>>)

Name ==
    /\ at = "name"
    /\ IF s.ch2 \in Alfa \cup Num \cup {"_"}
       THEN /\ s' = NextChar(s) /\ str' = Append(str, s.ch2)
            /\ UNCHANGED <<text, at, line, tokens>>
       ELSE Deliver(s, IF str \in KeyWords THEN "key" ELSE "name", str)

\* Any other character is taken for the end of the file.
Other ==
    /\ Dispatch
    /\ s.ch1 \notin One \cup Num \cup Alfa \cup {"\"", "'"}
    /\ Deliver(s, "EOF", <<>>)

Next ==
    \/ Start \/ SkipBlank \/ Operator \/ CharLiteral \/ Other
    \/ BeginString \/ StringChar \/ BeginLineComment \/ LineComment
    \/ BeginComment \/ Comment \/ BeginNumber \/ Number \/ BeginName \/ Name

\* The lexer runs until next returns.
Spec == Init /\ [][Next]_vars /\ WF_vars(Next)
=============================================================================
