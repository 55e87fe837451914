------------------------ MODULE CatalogNormalization ------------------------
(***************************************************************************)
(* normalize_sql_qualifiers: how the schema operator makes the definitions *)
(* in two catalogs comparable.  PostgreSQL prints one for the schema       *)
(* notification, the other for the reference that was built from the       *)
(* migrations in the connection's temporary schema; both should lose their *)
(* schema qualifiers, and nothing else.  The code finds out what is quoted *)
(* by one scan from left to right; every action is one pass of its loop.   *)
(*                                                                         *)
(* A text is a sequence of symbols: a quote, a dollar sign, a dot, or a    *)
(* whole word, which no rule here looks into.  With every symbol comes the *)
(* lexeme that PostgreSQL meant it to be part of, which the code does not  *)
(* see.  What the scan has written to "normalized" is given by the set of  *)
(* positions it has copied, as it copies from left to right.               *)
(*                                                                         *)
(* AtDollar is a slip a maintainer could make; the specification never     *)
(* uses it.                                                                *)
(***************************************************************************)
EXTENDS Naturals, Sequences

CONSTANTS
    Symbols,        \* what texts are made of
    Letters,        \* the words that begin with a letter or an underscore
    Digits,         \* the words that begin with a digit
    TempSchema,     \* the name of the connection's temporary schema, pg_temp_N
    Texts           \* the definitions that PostgreSQL prints

VARIABLES
    text,       \* the definition: its schema, the symbols, and their lexemes
    index,      \* the position of the scan
    quote,      \* what ends the quotes that the scan is in
    kept        \* the positions that were copied to "normalized"

vars == <<text, index, quote, kept>>

Schema == "notification"
PgTemp == "pg_temp"         \* PostgreSQL's alias for the temporary schema

Quote == "'"
DoubleQuote == "\""
Dollar == "$"
Dot == "."
Backslash == "\\"
Punctuation == {Quote, DoubleQuote, Dollar, Dot, Backslash}

WordSymbols == Letters \cup Digits \cup {Dollar}
Unquoted == <<>>

-----------------------------------------------------------------------------
(* What the scan looks for in the symbols s                                 *)

\* starts_with: the symbols from i on begin with part.
At(s, part, i) ==
    /\ i + Len(part) - 1 <= Len(s)
    /\ \A k \in DOMAIN part : s[i + k - 1] = part[k]

Qualifiers(schema) ==
    LET names == {schema} \cup (IF schema = TempSchema THEN {PgTemp} ELSE {}) IN
    {<<n, Dot>> : n \in names} \cup {<<DoubleQuote, n, DoubleQuote, Dot>> : n \in names}

\* token_boundary: no word goes on at i.
Boundary(s, i) == i > 1 => s[i - 1] \notin WordSymbols

\* A name of the text's schema begins at i, with the dot after it.
QualifierAt(t, i) ==
    Boundary(t.sql, i) /\ \E q \in Qualifiers(t.schema) : At(t.sql, q, i)

\* dollar_quote_delimiter: a delimiter of a body is written from i to n.
DelimiterFrom(s, i, n) ==
    /\ i < n /\ n <= Len(s)
    /\ s[i] = Dollar /\ s[n] = Dollar
    /\ \A m \in (i + 1)..(n - 1) :
         s[m] \in IF m = i + 1 THEN Letters ELSE Letters \cup Digits

DelimiterAt(s, i) == \E n \in DOMAIN s : DelimiterFrom(s, i, n)

-----------------------------------------------------------------------------
(* What PostgreSQL prints.  A lexeme goes from a first to a last symbol; it  *)
(* is a symbol outside quotes or a qualifier, or it opens quotes, is a       *)
(* character within quotes or closes them.                                   *)

Lexemes ==
    [kind : {"symbol", "qualifier", "opening", "character", "closing"},
     delimiter : Seq(Symbols), first : Nat \ {0}, last : Nat]

TextType ==
    [schema : {Schema, TempSchema}, sql : Seq(Symbols), lexeme : Seq(Lexemes)]

\* The quotes that a lexeme stands in, and those that the next one stands in.
Before(x) == IF x.kind \in {"character", "closing"} THEN x.delimiter ELSE Unquoted
Behind(x) == IF x.kind \in {"opening", "character"} THEN x.delimiter ELSE Unquoted

Single(x) == x.last = x.first
Pair(x) == x.last = x.first + 1
Spells(t, x, part) == At(t.sql, part, x.first) /\ x.last = x.first + Len(part) - 1

\* Outside quotes a dollar sign begins a parameter such as $1, and the name of
\* the schema with a dot after it is a qualifier.
IsSymbol(t, x) ==
    /\ Single(x)
    /\ t.sql[x.first] \notin {Quote, DoubleQuote}
    /\ ~DelimiterAt(t.sql, x.first)
    /\ ~QualifierAt(t, x.first)

IsQualifier(t, x) ==
    Boundary(t.sql, x.first) /\ \E q \in Qualifiers(t.schema) : Spells(t, x, q)

IsOpening(t, x) ==
    /\ Spells(t, x, x.delimiter)
    /\ \/ x.delimiter = <<Quote>>
       \/ x.delimiter = <<DoubleQuote>> /\ ~QualifierAt(t, x.first)
       \/ DelimiterFrom(t.sql, x.first, x.last)

\* A quote in a literal is doubled, and a backslash there is a character like any
\* other (standard_conforming_strings); a double quote in a name is doubled; a
\* body does not contain its delimiter.
IsCharacter(t, x) ==
    LET s == t.sql IN
    CASE x.delimiter = <<Quote>> ->
           \/ Single(x) /\ s[x.first] # Quote
           \/ Pair(x) /\ s[x.first] = Quote /\ s[x.last] = Quote
      [] x.delimiter = <<DoubleQuote>> ->
           \/ Single(x) /\ s[x.first] # DoubleQuote
           \/ /\ Pair(x) /\ s[x.first] = DoubleQuote /\ s[x.last] = DoubleQuote
              /\ ~QualifierAt(t, x.last)
      [] OTHER -> Single(x) /\ ~At(s, x.delimiter, x.first)

IsClosing(t, x) ==
    /\ Spells(t, x, x.delimiter)
    /\ x.delimiter = <<Quote>> => ~At(t.sql, <<Quote>>, x.last + 1)

IsLexeme(t, x) ==
    CASE x.kind = "symbol" -> IsSymbol(t, x)
      [] x.kind = "qualifier" -> IsQualifier(t, x)
      [] x.kind = "opening" -> IsOpening(t, x)
      [] x.kind = "character" -> IsCharacter(t, x)
      [] x.kind = "closing" -> IsClosing(t, x)

\* The lexemes of a text follow each other without a gap, and each stands in
\* the quotes that the one before it leaves.
WellPrinted(t) ==
    /\ t \in TextType /\ DOMAIN t.lexeme = DOMAIN t.sql
    /\ \A i \in DOMAIN t.sql : LET x == t.lexeme[i] IN
         /\ x.first <= i /\ i <= x.last /\ x.last <= Len(t.sql)
         /\ \A j \in x.first..x.last : t.lexeme[j] = x
         /\ Before(x) = IF x.first = 1 THEN Unquoted ELSE Behind(t.lexeme[x.first - 1])
         /\ IsLexeme(t, x)

\* No literal has a backslash before a quote: the code takes the two for an
\* escape, PostgreSQL for the last character and the end of the literal.
NoEscapedQuote(t) ==
    \A i \in DOMAIN t.sql :
        t.sql[i] = Backslash /\ t.lexeme[i].kind = "character"
                            /\ t.lexeme[i].delimiter = <<Quote>>
            => ~At(t.sql, <<Quote>>, i + 1)

ASSUME NormalizationAssumption ==
    /\ Letters \cup Digits \cup Punctuation \subseteq Symbols
    /\ Letters \cap Punctuation = {} /\ Digits \cap Punctuation = {}
    /\ {Schema, TempSchema, PgTemp} \subseteq Letters
    /\ \A t \in Texts : WellPrinted(t)

-----------------------------------------------------------------------------
Init ==
    /\ text \in Texts
    /\ index = 1 /\ quote = Unquoted /\ kept = {}

Scanning == index <= Len(text.sql)
Here == text.sql[index]
Starts(part) == At(text.sql, part, index)

Keep(n) ==
    /\ index' = index + n
    /\ kept' = kept \cup index..(index + n - 1)
    /\ UNCHANGED text

InLiteral == Scanning /\ quote = <<Quote>>
InQuotes == Scanning /\ quote \notin {Unquoted, <<Quote>>}
Outside == Scanning /\ quote = Unquoted

\* Within a literal: a backslash takes the next character with it.
Escape == InLiteral /\ Here = Backslash /\ index < Len(text.sql) /\ Keep(2) /\ UNCHANGED quote

DoubledQuote == InLiteral /\ Starts(<<Quote, Quote>>) /\ Keep(2) /\ UNCHANGED quote

EndLiteral ==
    InLiteral /\ Here = Quote /\ ~Starts(<<Quote, Quote>>) /\ Keep(1) /\ quote' = Unquoted

LiteralCharacter ==
    /\ InLiteral /\ Here # Quote
    /\ Here = Backslash => index = Len(text.sql)
    /\ Keep(1) /\ UNCHANGED quote

\* Fault: a body ends at the next dollar sign.
AtDollar == Starts(<<Head(quote)>>)

\* Within a quoted name or a body: up to the delimiter.
AtDelimiter == Starts(quote)

EndQuotes == InQuotes /\ AtDelimiter /\ Keep(Len(quote)) /\ quote' = Unquoted
QuotedCharacter == InQuotes /\ ~AtDelimiter /\ Keep(1) /\ UNCHANGED quote

\* Outside quotes, in the order of the tests in the code.
OpenLiteral == Outside /\ Here = Quote /\ Keep(1) /\ quote' = <<Quote>>

OpenBody ==
    /\ Outside
    /\ \E n \in DOMAIN text.sql :
         /\ DelimiterFrom(text.sql, index, n)
         /\ Keep(n + 1 - index) /\ quote' = SubSeq(text.sql, index, n)

Unopened == Outside /\ Here # Quote /\ ~DelimiterAt(text.sql, index)

DropQualifier ==
    /\ Unopened /\ Boundary(text.sql, index)
    /\ \E q \in Qualifiers(text.schema) : Starts(q) /\ index' = index + Len(q)
    /\ UNCHANGED <<text, quote, kept>>

OpenName ==
    /\ Unopened /\ ~QualifierAt(text, index) /\ Here = DoubleQuote
    /\ Keep(1) /\ quote' = <<DoubleQuote>>

Copy ==
    /\ Unopened /\ ~QualifierAt(text, index) /\ Here # DoubleQuote
    /\ Keep(1) /\ UNCHANGED quote

Next ==
    \/ Escape \/ DoubledQuote \/ EndLiteral \/ LiteralCharacter
    \/ EndQuotes \/ QuotedCharacter
    \/ OpenLiteral \/ OpenBody \/ DropQualifier \/ OpenName \/ Copy

Spec == Init /\ [][Next]_vars

-----------------------------------------------------------------------------
\* Whatever a text quotes, the scan has dropped the qualifiers of the schema
\* that it has passed, and nothing else: not in a literal, in a quoted name or
\* in the body of a routine (normalize_sql_qualifiers).
OnlyQualifiersDropped ==
    kept = {i \in 1..(index - 1) : text.lexeme[i].kind # "qualifier"}
=============================================================================
