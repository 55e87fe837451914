------------------------------- MODULE MCScan -------------------------------
(* Values of the constants of CatalogNormalization for the model checker: the *)
(* texts are laid out from pieces, each with its lexemes, and with a blank     *)
(* after each piece.                                                           *)
EXTENDS CatalogNormalization

TempName == "pg_temp_3"
LetterWords == {"a", "body", Schema, PgTemp, TempName}
DigitWords == {"1"}
AllSymbols == LetterWords \cup DigitWords \cup Punctuation \cup {" "}

\* A lexeme of a piece, with the symbols it spells.
Lexeme(kind, delimiter, symbols) ==
    [kind |-> kind, delimiter |-> delimiter, symbols |-> symbols]
Plain(symbol) == Lexeme("symbol", Unquoted, <<symbol>>)
Within(delimiter, characters) ==
    <<Lexeme("opening", delimiter, delimiter)>>
    \o [i \in DOMAIN characters |-> Lexeme("character", delimiter, characters[i])]
    \o <<Lexeme("closing", delimiter, delimiter)>>
Owned(qualifier) == <<Lexeme("qualifier", Unquoted, qualifier), Plain("a")>>
OneByOne(symbols) == [i \in DOMAIN symbols |-> <<symbols[i]>>]

Literal(characters) == Within(<<Quote>>, characters)
Name(characters) == Within(<<DoubleQuote>>, characters)
Body(tag, symbols) == Within(<<Dollar>> \o tag \o <<Dollar>>, OneByOne(symbols))

\* Names of objects of the schema, and whatever looks like a qualifier, like a
\* quote or like a delimiter and is none.
Pieces(schema) ==
    {Owned(q) : q \in Qualifiers(schema)} \cup
    {<<Plain("a"), Plain(Dot), Plain("a")>>,
     <<Plain("a"), Plain(schema), Plain(Dot)>>,
     <<Plain(Dollar), Plain("1")>>,
     Literal(OneByOne(<<schema, Dot, "a">>)),
     Literal(<<<<Quote, Quote>>, <<schema>>, <<Dot>>, <<DoubleQuote>>, <<Quote, Quote>>>>),
     Literal(OneByOne(<<Backslash, Backslash, Dollar, Dollar>>)),
     Name(<<<<DoubleQuote, DoubleQuote>>, <<schema>>, <<Dot>>, <<DoubleQuote, DoubleQuote>>>>),
     Name(OneByOne(<<schema, Dot, Quote>>)),
     Body(<<>>, <<schema, Dot, Quote>>),
     Body(<<"body">>, <<Dollar, "1", DoubleQuote, schema, Dot>>)}

Blank == <<Plain(" ")>>

\* The text that these lexemes spell, one after the other.
Printed(schema, lexemes) ==
    LET Placed(t, x) ==
            LET span == [kind |-> x.kind, delimiter |-> x.delimiter, first |-> Len(t.sql) + 1,
                         last |-> Len(t.sql) + Len(x.symbols)]
            IN  [t EXCEPT !.sql = @ \o x.symbols, !.lexeme = @ \o [i \in DOMAIN x.symbols |-> span]]
        prefix[n \in 0..Len(lexemes)] ==
            IF n = 0 THEN [schema |-> schema, sql |-> <<>>, lexeme |-> <<>>]
            ELSE Placed(prefix[n - 1], lexemes[n])
    IN  prefix[Len(lexemes)]

PrintedTexts ==
    UNION {{Printed(schema, p \o Blank \o q \o Blank \o r) : p, q, r \in Pieces(schema)}
           : schema \in {Schema, TempName}}
=============================================================================
