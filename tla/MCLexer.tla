------------------------------ MODULE MCLexer ------------------------------
(***************************************************************************)
(* The lexer against a description of the language: at every point the     *)
(* longest lexeme counts.  Every text over a few small alphabets, except   *)
(* the Unclear ones, which the lexer does not treat as the language would. *)
(***************************************************************************)
EXTENDS Lexer, SequencesExt

Pairs(t, i, j, pair) == {k \in i .. j - 1 : SubSeq(t, k, k + 1) = pair}

\* The comment that begins at i ends at j: as many marks end as begin a comment.
\* Two marks may share a character.
CommentEnds(t, i) ==
    {j \in i + 1 .. Len(t) : Cardinality(Pairs(t, i, j, <<"/", "*">>))
                           = Cardinality(Pairs(t, i, j, <<"*", "/">>))}
LineEnds(t, i) == {j \in i .. Len(t) : t[j] = "\n"}

All(w, i, j, set) == \A k \in i .. j : w[k] \in set

IsHex(w) == Len(w) > 2 /\ w[1] = "0" /\ w[2] = "x" /\ All(w, 3, Len(w), Num \cup Hex)

\* digits [. [digits]] [e [sign] digits]
IsDecimal(w) ==
    \E i \in 1 .. Len(w) : \E j \in {i} \cup (i + 1 .. Len(w)) :
        /\ All(w, 1, i, Num)
        /\ j > i => w[i + 1] = "." /\ All(w, i + 2, j, Num)
        /\ j < Len(w) =>
             /\ w[j + 1] = "e" /\ Last(w) \in Num
             /\ All(w, j + 2, j + 2, Num \cup {"+", "-"}) /\ All(w, j + 3, Len(w), Num)

IsName(w) == w[1] \in Alfa /\ All(w, 2, Len(w), Alfa \cup Num \cup {"_"})

\* A string that is not closed runs to the end of the text.
IsString(t, i, j) ==
    /\ t[i] = "\"" /\ \A k \in i + 1 .. j - 1 : t[k] # "\""
    /\ j = Len(t) \/ (j > i /\ t[j] = "\"")

IsChar(w) ==
    /\ w[1] = "'" /\ Last(w) = "'"
    /\ \/ Len(w) = 3 /\ w[2] # "\\"
       \/ Len(w) = 4 /\ w[2] = "\\"

IsOperator(w) == w \in Two \/ (Len(w) = 1 /\ w[1] \in One)

Lexemes(t, i) ==
    {j \in i .. Len(t) : LET w == SubSeq(t, i, j) IN
        IsHex(w) \/ IsDecimal(w) \/ IsName(w) \/ IsString(t, i, j) \/ IsChar(w)
        \/ IsOperator(w)}

Token(t, i, j) ==
    LET w == SubSeq(t, i, j) IN
    CASE IsString(t, i, j) ->
             <<"string", SelectSeq(w, LAMBDA c : c # "\"")>>
      [] IsChar(w) /\ Len(w) = 3 -> <<"char", <<w[2]>>>>
      [] IsChar(w) /\ Len(w) = 4 ->
             IF w[3] \in DOMAIN Escapes THEN <<"char", <<Escapes[w[3]]>>>> ELSE <<"panic", <<>>>>
      [] IsOperator(w) -> <<"op", w>>
      [] IsName(w) -> <<IF w \in KeyWords THEN "key" ELSE "name", w>>
      [] OTHER -> <<"num", w>>

\* A number that goes on as no number does; a character that is not quoted on
\* both sides, or whose end is the end of the text.
Unclear(t, i, j) ==
    \/ t[i] = "'" /\ (~IsChar(SubSeq(t, i, j)) \/ j = Len(t))
    \/ /\ t[i] \in Num /\ j < Len(t)
       /\ \/ t[j + 1] = "e"
          \/ t[j + 1] = "." /\ \A k \in i .. j : t[k] # "."
          \/ SubSeq(t, i, j + 1) = <<"0", "x">>
          \/ /\ t[j + 1] \in {"+", "-"} /\ ~IsHex(SubSeq(t, i, j))
             /\ \E k \in i .. j : t[k] = "e" /\ \A l \in k .. j : t[l] \notin {"+", "-"}

\* The tokens of t, with the line at which the lexeme or comment before ended.
Tokens(t) ==
    LET n == Len(t)
        Line(i) == 1 + Cardinality({k \in 1 .. i - 1 : t[k] = "\n"})
        Tok(tok, i) == [token |-> tok[1], text |-> tok[2], line |-> Line(i)]
        End(set) == IF set = {} THEN n ELSE Min(set)
        From[i \in 1 .. n + 1] ==
            LET j == Min({k \in i .. n + 1 : k = n + 1 \/ t[k] \notin Blank})
                e == IF Lexemes(t, j) = {} THEN j ELSE Max(Lexemes(t, j))
                Opens(pair) == j < n /\ SubSeq(t, j, j + 1) = pair
            IN  CASE Opens(<<"/", "/">>) -> From[End(LineEnds(t, j)) + 1]
                  [] Opens(<<"/", "*">>) -> From[End(CommentEnds(t, j)) + 1]
                  [] j > n -> <<Tok(<<"EOF", <<>>>>, i)>>
                  [] j <= n /\ Unclear(t, j, e) -> <<Tok(<<"unclear", <<>>>>, i)>>
                  [] j <= n /\ t[j] # "'" /\ Lexemes(t, j) = {} -> <<Tok(<<"EOF", <<>>>>, i)>>
                  [] OTHER -> LET tok == Tok(Token(t, j, e), i) IN
                              <<tok>> \o IF tok.token = "panic" THEN <<>> ELSE From[e + 1]
    IN  From[1]

NoReturns(t) == SelectSeq(t, LAMBDA c : c # "\r")

Small ==
    BoundedSeq({"/", "*", "a"}, 8) \cup BoundedSeq({"/", "*", "\"", "\n", "a"}, 5)
    \cup BoundedSeq({"0", "1", "x", ".", "e", "-", "a"}, 4)
    \cup {<<"1">> \o w : w \in BoundedSeq({"1", ".", "e", "-", " "}, 5)}
    \cup BoundedSeq({"&", "^", "=", "<", "-", "!", " "}, 4)
    \cup BoundedSeq({"'", "\\", "n", "q", "\r", "\n", "\""}, 5)
    \cup BoundedSeq({"i", "f", "_", "1", " ", Unknown}, 4)

MCTexts ==
    {t \in Small : /\ t = <<>> \/ Last(t) # "\r"
                   /\ Last(Tokens(NoReturns(t))).token # "unclear"}

\* The parser is given the tokens of the text, on their lines, and then the
\* end of the file: no comment, string, number or character swallows or splits
\* what follows it, at the end of the text either.
ReadsTokens == <>(at = "end" /\ tokens = Tokens(NoReturns(text)))
=============================================================================
