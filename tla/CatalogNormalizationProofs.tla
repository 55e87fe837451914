--------------------- MODULE CatalogNormalizationProofs ---------------------
(***************************************************************************)
(* A theorem about the normalisation of every text that PostgreSQL prints, *)
(* as long as no literal in it has a backslash before a quote.  The scan   *)
(* sees symbols only; its invariant says that it is always in the quotes   *)
(* in which PostgreSQL meant the symbol it has come to.  There is one      *)
(* exception, the two double quotes that stand for one in a quoted name:   *)
(* there the scan takes the name to be over and another to begin, which    *)
(* does no harm.                                                           *)
(***************************************************************************)
EXTENDS CatalogNormalization, TLAPS

-----------------------------------------------------------------------------
(* The invariant *)

\* The scan is at the first symbol of x, in the quotes of x.
Synchronized(x, i, q) == i = x.first /\ q = Before(x)

\* The scan is between the two double quotes x, and believes to be outside quotes.
BetweenDoubled(x, i, q) ==
    /\ x.kind = "character" /\ x.delimiter = <<DoubleQuote>>
    /\ Pair(x) /\ i = x.last /\ q = Unquoted

Printable(t) == WellPrinted(t) /\ NoEscapedQuote(t)

\* The scan of t has come to i, in the quotes q.
InStep(t, i, q) ==
    /\ i \in 1..(Len(t.sql) + 1)
    /\ i <= Len(t.sql) =>
         Synchronized(t.lexeme[i], i, q) \/ BetweenDoubled(t.lexeme[i], i, q)

\* The positions before i that are not in a qualifier.
KeptBefore(t, i) == {j \in 1..(i - 1) : t.lexeme[j].kind # "qualifier"}

ScanInvariant ==
    Printable(text) /\ InStep(text, index, quote) /\ kept = KeptBefore(text, index)

-----------------------------------------------------------------------------
(* Symbols and lexemes *)

LEMMA AtOne ==
    ASSUME NEW s, Len(s) \in Nat, NEW c, NEW i \in Nat \ {0}
    PROVE  At(s, <<c>>, i) <=> i <= Len(s) /\ s[i] = c
BY DEF At

LEMMA AtTwo ==
    ASSUME NEW s, Len(s) \in Nat, NEW c, NEW e, NEW i \in Nat \ {0}
    PROVE  At(s, <<c, e>>, i) <=> i < Len(s) /\ s[i] = c /\ s[i + 1] = e
BY DEF At

\* The symbols that have a meaning are no words, and no two are the same.
LEMMA PunctuationIsNoWord ==
    /\ \A c \in Punctuation : c \notin Letters /\ c \notin Digits
    /\ Quote # DoubleQuote /\ Quote # Dollar /\ Quote # Backslash
    /\ DoubleQuote # Dollar /\ DoubleQuote # Backslash /\ Dollar # Backslash
BY NormalizationAssumption DEF Punctuation, Quote, DoubleQuote, Dollar, Dot, Backslash

\* A qualifier begins with a word or a double quote, which tells its length.
LEMMA QualifierForms ==
    ASSUME NEW t \in TextType, NEW i \in DOMAIN t.sql,
           NEW q \in Qualifiers(t.schema), At(t.sql, q, i)
    PROVE  /\ t.sql[i] \in Letters => Len(q) = 2
           /\ t.sql[i] \notin Letters => t.sql[i] = DoubleQuote /\ Len(q) = 4
<1>1. PICK n \in Letters : q = <<n, Dot>> \/ q = <<DoubleQuote, n, DoubleQuote, Dot>>
  BY NormalizationAssumption DEF Qualifiers, TextType
<1>2. i \in Nat BY DEF TextType
<1>3. CASE q = <<n, Dot>>
  <2>1. Len(q) = 2 /\ 1 \in DOMAIN q /\ q[1] = n BY <1>3
  <2>2. t.sql[i] = n BY <1>2, <2>1 DEF At
  <2> QED BY <2>1, <2>2
<1>4. CASE q = <<DoubleQuote, n, DoubleQuote, Dot>>
  <2>1. Len(q) = 4 /\ 1 \in DOMAIN q /\ q[1] = DoubleQuote BY <1>4
  <2>2. t.sql[i] = DoubleQuote BY <1>2, <2>1 DEF At
  <2> QED BY <2>1, <2>2, PunctuationIsNoWord DEF Punctuation
<1> QED BY <1>1, <1>3, <1>4

\* A delimiter ends at the first dollar sign after it has begun.
LEMMA DelimiterUnique ==
    ASSUME NEW s, Len(s) \in Nat, NEW i \in Nat, NEW n \in Nat, NEW m \in Nat,
           DelimiterFrom(s, i, n), DelimiterFrom(s, i, m)
    PROVE  n = m
<1>1. \A k \in {n, m} : s[k] = Dollar /\ Dollar \notin Letters \cup Digits
  BY PunctuationIsNoWord DEF DelimiterFrom, Punctuation
<1> QED BY <1>1 DEF DelimiterFrom

\* What a lexeme is, and where.
LEMMA LexemeAt ==
    ASSUME NEW t, WellPrinted(t), NEW i \in DOMAIN t.sql
    PROVE  /\ t.sql \in Seq(Symbols) /\ Len(t.sql) \in Nat /\ DOMAIN t.sql = 1..Len(t.sql)
           /\ t \in TextType
           /\ t.lexeme[i] \in Lexemes
           /\ t.lexeme[i].first \in 1..i /\ t.lexeme[i].last \in i..Len(t.sql)
           /\ \A j \in t.lexeme[i].first..t.lexeme[i].last : t.lexeme[j] = t.lexeme[i]
           /\ IsLexeme(t, t.lexeme[i])
<1>1. t \in TextType /\ DOMAIN t.lexeme = DOMAIN t.sql BY DEF WellPrinted
<1>2. /\ t.sql \in Seq(Symbols) /\ Len(t.sql) \in Nat /\ DOMAIN t.sql = 1..Len(t.sql)
      /\ t.lexeme \in Seq(Lexemes)
  BY <1>1 DEF TextType
<1>3. t.lexeme[i] \in Lexemes BY <1>1, <1>2
<1>4. t.lexeme[i].first \in Nat \ {0} /\ t.lexeme[i].last \in Nat BY <1>3 DEF Lexemes
<1>5. /\ t.lexeme[i].first <= i /\ i <= t.lexeme[i].last /\ t.lexeme[i].last <= Len(t.sql)
      /\ \A j \in t.lexeme[i].first..t.lexeme[i].last : t.lexeme[j] = t.lexeme[i]
      /\ IsLexeme(t, t.lexeme[i])
  BY DEF WellPrinted
<1> QED BY <1>1, <1>2, <1>3, <1>4, <1>5

\* The next lexeme begins where the last one ends, in the quotes it leaves.
LEMMA NextLexeme ==
    ASSUME NEW t, WellPrinted(t), NEW i \in DOMAIN t.sql, t.lexeme[i].last < Len(t.sql)
    PROVE  /\ t.lexeme[i].last + 1 \in DOMAIN t.sql
           /\ t.lexeme[t.lexeme[i].last + 1].first = t.lexeme[i].last + 1
           /\ Before(t.lexeme[t.lexeme[i].last + 1]) = Behind(t.lexeme[i])
<1> DEFINE x == t.lexeme[i]
           n == x.last + 1
           y == t.lexeme[n]
<1>1. /\ x.last \in i..Len(t.sql) /\ x.first \in 1..i /\ i \in 1..Len(t.sql)
      /\ n \in DOMAIN t.sql /\ Len(t.sql) \in Nat
  BY LexemeAt
<1>2. t.lexeme[x.last] = x
  <2>1. x.last \in x.first..x.last BY <1>1
  <2> QED BY <2>1, LexemeAt
<1>3. /\ y.first \in 1..n /\ y.last \in n..Len(t.sql)
      /\ \A j \in y.first..y.last : t.lexeme[j] = y
  BY <1>1, LexemeAt
<1>4. y.first = n
  <2> SUFFICES ASSUME y.first # n PROVE FALSE OBVIOUS
  <2> HIDE DEF x, y
  <2>1. x.last \in y.first..y.last BY <1>1, <1>3
  <2>2. x = y BY <1>2, <1>3, <2>1
  <2> QED BY <1>1, <1>3, <2>2
<1>5. Before(y) = IF y.first = 1 THEN Unquoted ELSE Behind(t.lexeme[y.first - 1])
  BY <1>1 DEF WellPrinted
<1> HIDE DEF x, y
<1>6. Before(y) = Behind(x) BY <1>1, <1>2, <1>4, <1>5 DEF n
<1> QED BY <1>1, <1>4, <1>6 DEF n, x, y

\* Quotes are never empty: what is neither a symbol nor a qualifier nor opens
\* quotes stands in some.
LEMMA QuotesNotEmpty ==
    ASSUME NEW t, WellPrinted(t), NEW i \in DOMAIN t.sql,
           t.lexeme[i].kind \in {"character", "closing"}
    PROVE  t.lexeme[i].delimiter # Unquoted
<1> DEFINE x == t.lexeme[i]
<1> SUFFICES ASSUME x.delimiter = <<>> PROVE FALSE BY DEF Unquoted
<1>1. /\ x.last \in i..Len(t.sql) /\ x.first \in 1..i /\ i \in 1..Len(t.sql)
      /\ Len(t.sql) \in Nat /\ IsLexeme(t, x)
  BY LexemeAt
<1>2. At(t.sql, <<>>, x.first) BY <1>1 DEF At
<1>3. CASE x.kind = "character"
  BY <1>1, <1>2, <1>3 DEF IsLexeme, IsCharacter
<1>4. CASE x.kind = "closing"
  BY <1>1, <1>4 DEF IsLexeme, IsClosing, Spells
<1> QED BY <1>3, <1>4

\* The forms of the characters in a literal, in a quoted name and in a body.
LEMMA LiteralForms ==
    ASSUME NEW t, NEW x, IsCharacter(t, x), x.delimiter = <<Quote>>
    PROVE  \/ x.last = x.first /\ t.sql[x.first] # Quote
           \/ x.last = x.first + 1 /\ t.sql[x.first] = Quote /\ t.sql[x.last] = Quote
BY DEF IsCharacter, Single, Pair

LEMMA NameForms ==
    ASSUME NEW t, NEW x, IsCharacter(t, x), x.delimiter = <<DoubleQuote>>
    PROVE  \/ x.last = x.first /\ t.sql[x.first] # DoubleQuote
           \/ /\ x.last = x.first + 1
              /\ t.sql[x.first] = DoubleQuote /\ t.sql[x.last] = DoubleQuote
              /\ ~QualifierAt(t, x.last)
<1>1. x.delimiter # <<Quote>> BY PunctuationIsNoWord
<1> QED BY <1>1 DEF IsCharacter, Single, Pair

LEMMA BodyForms ==
    ASSUME NEW t, NEW x, IsCharacter(t, x),
           x.delimiter # <<Quote>>, x.delimiter # <<DoubleQuote>>
    PROVE  x.last = x.first /\ ~At(t.sql, x.delimiter, x.first)
BY DEF IsCharacter, Single

\* A literal ends with a quote that no other follows.
LEMMA LiteralEnd ==
    ASSUME NEW t, Len(t.sql) \in Nat, NEW x, x.first \in Nat \ {0}, x.last \in Nat,
           IsClosing(t, x), x.delimiter = <<Quote>>
    PROVE  /\ x.last = x.first /\ t.sql[x.first] = Quote
           /\ ~At(t.sql, <<Quote>>, x.first + 1)
<1>1. At(t.sql, <<Quote>>, x.first) /\ x.last = x.first + 1 - 1
  BY DEF IsClosing, Spells
<1>2. x.last = x.first BY <1>1
<1>3. t.sql[x.first] = Quote BY <1>1, AtOne
<1> QED BY <1>2, <1>3 DEF IsClosing

-----------------------------------------------------------------------------
(* The scan *)

\* A scan that passes the rest of a lexeme, and drops it if it is a qualifier,
\* stays in step.
LEMMA Passes ==
    ASSUME NEW t, WellPrinted(t), NEW i \in DOMAIN t.sql
    PROVE  /\ InStep(t, t.lexeme[i].last + 1, Behind(t.lexeme[i]))
           /\ KeptBefore(t, t.lexeme[i].last + 1) =
                KeptBefore(t, i) \cup
                  (IF t.lexeme[i].kind = "qualifier" THEN {} ELSE i..(t.lexeme[i].last))
<1> DEFINE x == t.lexeme[i]
<1>1. /\ x.last \in i..Len(t.sql) /\ x.first \in 1..i /\ i \in 1..Len(t.sql)
      /\ Len(t.sql) \in Nat /\ \A j \in i..x.last : t.lexeme[j] = x
  BY LexemeAt
<1>2. InStep(t, x.last + 1, Behind(x))
  BY <1>1, NextLexeme DEF InStep, Synchronized
<1>3. KeptBefore(t, x.last + 1) =
        KeptBefore(t, i) \cup (IF x.kind = "qualifier" THEN {} ELSE i..x.last)
  BY <1>1 DEF KeptBefore
<1> QED BY <1>2, <1>3

Current == text.lexeme[index]

\* Where the scan is, and what the lexeme there looks like.
LEMMA Position ==
    ASSUME ScanInvariant, Scanning
    PROVE  /\ index \in DOMAIN text.sql /\ index \in Nat \ {0} /\ Len(text.sql) \in Nat
           /\ index <= Len(text.sql)
           /\ WellPrinted(text) /\ text \in TextType /\ IsLexeme(text, Current)
           /\ Current \in Lexemes
           /\ Current.first \in 1..index /\ Current.last \in index..Len(text.sql)
           /\ Synchronized(Current, index, quote) \/ BetweenDoubled(Current, index, quote)
<1>1. WellPrinted(text) BY DEF ScanInvariant, Printable
<1>2. text \in TextType BY <1>1 DEF WellPrinted
<1>3. /\ Len(text.sql) \in Nat /\ DOMAIN text.sql = 1..Len(text.sql)
  BY <1>2 DEF TextType
<1>4. /\ index \in 1..Len(text.sql)
      /\ Synchronized(Current, index, quote) \/ BetweenDoubled(Current, index, quote)
  BY <1>3 DEF ScanInvariant, InStep, Scanning, Current
<1> QED BY <1>1, <1>2, <1>3, <1>4, LexemeAt DEF Current

\* Within quotes the scan is at a character or at the end of the same quotes.
LEMMA PositionInQuotes ==
    ASSUME ScanInvariant, Scanning, quote # Unquoted
    PROVE  /\ Current.first = index /\ Current.delimiter = quote
           /\ \/ Current.kind = "character" /\ IsCharacter(text, Current)
              \/ Current.kind = "closing" /\ IsClosing(text, Current)
BY Position DEF Synchronized, BetweenDoubled, Before, IsLexeme

\* Outside quotes it is at a symbol, a qualifier or the beginning of quotes, or
\* between two double quotes.
LEMMA PositionOutside ==
    ASSUME ScanInvariant, Scanning, quote = Unquoted
    PROVE  \/ /\ Current.first = index
              /\ \/ Current.kind = "symbol" /\ IsSymbol(text, Current)
                 \/ Current.kind = "qualifier" /\ IsQualifier(text, Current)
                 \/ Current.kind = "opening" /\ IsOpening(text, Current)
           \/ /\ Current.kind = "character" /\ Current.delimiter = <<DoubleQuote>>
              /\ Current.last = index /\ Here = DoubleQuote /\ ~QualifierAt(text, index)
<1>1. CASE Synchronized(Current, index, quote)
  <2>1. Current.first = index /\ Before(Current) = Unquoted BY <1>1 DEF Synchronized
  <2>2. Current.kind \notin {"character", "closing"}
    <3> SUFFICES ASSUME Current.kind \in {"character", "closing"} PROVE FALSE OBVIOUS
    <3>1. Current.delimiter = Unquoted BY <2>1 DEF Before
    <3> QED BY <3>1, Position, QuotesNotEmpty DEF Current
  <2> QED BY <2>1, <2>2, Position DEF IsLexeme, Lexemes
<1>2. CASE BetweenDoubled(Current, index, quote)
  <2>1. /\ Current.kind = "character" /\ Current.delimiter = <<DoubleQuote>>
        /\ Current.last = Current.first + 1 /\ Current.last = index
    BY <1>2 DEF BetweenDoubled, Pair
  <2>2. IsCharacter(text, Current) BY <2>1, Position DEF IsLexeme
  <2>3. <<DoubleQuote>> # <<Quote>> BY PunctuationIsNoWord
  <2>4. Current.first \in Nat BY Position
  <2>5. text.sql[Current.last] = DoubleQuote /\ ~QualifierAt(text, Current.last)
    BY <2>1, <2>2, <2>3, <2>4 DEF IsCharacter, Single, Pair
  <2> QED BY <2>1, <2>5 DEF Here
<1> QED BY <1>1, <1>2, Position

\* A step that copies the rest of the lexeme.
LEMMA Advance ==
    ASSUME ScanInvariant, Scanning, Current.kind # "qualifier",
           Keep(Current.last + 1 - index), quote' = Behind(Current)
    PROVE  ScanInvariant'
<1>1. /\ index' = Current.last + 1 /\ text' = text
      /\ kept' = kept \cup index..(Current.last)
  <2>1. index \in Nat /\ Current.last \in Nat BY Position
  <2>2. /\ index + (Current.last + 1 - index) = Current.last + 1
        /\ index + (Current.last + 1 - index) - 1 = Current.last
    BY <2>1
  <2> QED BY <2>2 DEF Keep
<1>2. /\ InStep(text, index', quote')
      /\ KeptBefore(text, index') = KeptBefore(text, index) \cup index..(Current.last)
  BY <1>1, Position, Passes DEF Current
<1> QED BY <1>1, <1>2 DEF ScanInvariant

LEMMA EscapeKeeps == ASSUME ScanInvariant, Escape PROVE ScanInvariant'
<1> DEFINE x == Current
           y == text.lexeme[index + 1]
<1>1. /\ Scanning /\ quote = <<Quote>> /\ quote # Unquoted /\ Here = Backslash
      /\ index < Len(text.sql) /\ Keep(2) /\ quote' = quote
  BY DEF Escape, InLiteral, Unquoted
<1>2. /\ index \in Nat \ {0} /\ Len(text.sql) \in Nat /\ index \in DOMAIN text.sql
      /\ index + 1 \in DOMAIN text.sql /\ WellPrinted(text)
  BY <1>1, Position DEF TextType
<1>3. /\ x.kind = "character" /\ x.last = index /\ x.delimiter = <<Quote>>
  <2>1. Here # Quote BY <1>1, PunctuationIsNoWord
  <2>2. x.first = index /\ x.delimiter = <<Quote>> /\ x.last \in Nat
    BY <1>1, Position, PositionInQuotes
  <2>3. x.kind # "closing"
    BY <1>1, <1>2, <2>1, <2>2, PositionInQuotes, LiteralEnd DEF Here
  <2> QED BY <1>1, <2>1, <2>2, <2>3, PositionInQuotes, LiteralForms DEF Here
<1>4. y.first = index + 1 /\ Before(y) = <<Quote>>
  BY <1>1, <1>2, <1>3, NextLexeme DEF Behind, Current
<1>5. /\ text.sql[index + 1] # Quote
  <2>1. ~At(text.sql, <<Quote>>, index + 1)
    BY <1>1, <1>2, <1>3 DEF ScanInvariant, Printable, NoEscapedQuote, Current, Here
  <2> QED BY <1>1, <1>2, <2>1, AtOne
<1>6. y.kind = "character" /\ y.last = index + 1 /\ y.delimiter = <<Quote>>
  <2>1. y.kind \in {"character", "closing"} /\ y.delimiter = <<Quote>>
    BY <1>4 DEF Before, Unquoted
  <2>2. IsLexeme(text, y) BY <1>2, LexemeAt
  <2>3. y.first \in Nat \ {0} /\ y.last \in Nat BY <1>2, LexemeAt
  <2> HIDE DEF y
  <2>4. y.kind # "closing"
    BY <1>2, <1>4, <1>5, <2>1, <2>2, <2>3, LiteralEnd DEF IsLexeme
  <2>5. IsCharacter(text, y) BY <2>1, <2>2, <2>4 DEF IsLexeme
  <2>6. y.last = y.first BY <1>4, <1>5, <2>1, <2>5, LiteralForms
  <2> QED BY <1>4, <2>1, <2>4, <2>6
<1>7. KeptBefore(text, index + 1) = KeptBefore(text, index) \cup {index}
  <2>1. KeptBefore(text, x.last + 1) = KeptBefore(text, index) \cup index..(x.last)
    BY <1>2, <1>3, Passes DEF Current
  <2>2. index..index = {index} BY <1>2
  <2> QED BY <1>3, <2>1, <2>2
<1>8. /\ InStep(text, index + 2, <<Quote>>)
      /\ KeptBefore(text, index + 2) = KeptBefore(text, index + 1) \cup {index + 1}
  <2>1. /\ InStep(text, y.last + 1, Behind(y))
        /\ KeptBefore(text, y.last + 1) =
             KeptBefore(text, index + 1) \cup
               (IF y.kind = "qualifier" THEN {} ELSE (index + 1)..(y.last))
    BY <1>2, Passes
  <2>2. y.last + 1 = index + 2 /\ Behind(y) = <<Quote>> BY <1>2, <1>6 DEF Behind
  <2>3. (index + 1)..(y.last) = {index + 1} BY <1>2, <1>6
  <2> QED BY <1>6, <2>1, <2>2, <2>3
<1>9. /\ index' = index + 2 /\ text' = text
      /\ kept' = kept \cup {index, index + 1}
  <2>1. index..(index + 2 - 1) = {index, index + 1} BY <1>2
  <2> QED BY <1>1, <2>1 DEF Keep
<1> QED BY <1>1, <1>7, <1>8, <1>9 DEF ScanInvariant

LEMMA DoubledQuoteKeeps == ASSUME ScanInvariant, DoubledQuote PROVE ScanInvariant'
<1>1. /\ Scanning /\ quote = <<Quote>> /\ quote # Unquoted
      /\ At(text.sql, <<Quote, Quote>>, index) /\ Keep(2) /\ quote' = quote
  BY DEF DoubledQuote, InLiteral, Unquoted, Starts
<1>2. /\ index \in Nat \ {0} /\ Len(text.sql) \in Nat /\ Current.last \in Nat
      /\ Current.first = index /\ Current.delimiter = <<Quote>>
  BY <1>1, Position, PositionInQuotes
<1>3. /\ text.sql[index] = Quote /\ At(text.sql, <<Quote>>, index + 1)
  <2>1. index < Len(text.sql) /\ text.sql[index] = Quote /\ text.sql[index + 1] = Quote
    BY <1>1, <1>2, AtTwo
  <2> QED BY <1>2, <2>1, AtOne
<1>4. Current.kind = "character" /\ IsCharacter(text, Current)
  BY <1>1, <1>2, <1>3, PositionInQuotes, LiteralEnd
<1>5. Current.last + 1 - index = 2 BY <1>2, <1>3, <1>4, LiteralForms
<1> QED BY <1>1, <1>2, <1>4, <1>5, Advance DEF Behind

LEMMA EndLiteralKeeps == ASSUME ScanInvariant, EndLiteral PROVE ScanInvariant'
<1>1. /\ Scanning /\ quote = <<Quote>> /\ quote # Unquoted /\ text.sql[index] = Quote
      /\ ~At(text.sql, <<Quote, Quote>>, index) /\ Keep(1) /\ quote' = Unquoted
  BY DEF EndLiteral, InLiteral, Unquoted, Starts, Here
<1>2. /\ index \in Nat \ {0} /\ Len(text.sql) \in Nat
      /\ Current.last \in Nat /\ Current.last <= Len(text.sql)
      /\ Current.first = index /\ Current.delimiter = <<Quote>>
  BY <1>1, Position, PositionInQuotes
<1>3. ~(IsCharacter(text, Current)) BY <1>1, <1>2, LiteralForms, AtTwo
<1>4. Current.kind = "closing" /\ IsClosing(text, Current) BY <1>1, <1>3, PositionInQuotes
<1>5. Current.last + 1 - index = 1 BY <1>2, <1>4, LiteralEnd
<1> QED BY <1>1, <1>4, <1>5, Advance DEF Behind

LEMMA LiteralCharacterKeeps == ASSUME ScanInvariant, LiteralCharacter PROVE ScanInvariant'
<1>1. /\ Scanning /\ quote = <<Quote>> /\ quote # Unquoted /\ text.sql[index] # Quote
      /\ Keep(1) /\ quote' = quote
  BY DEF LiteralCharacter, InLiteral, Unquoted, Here
<1>2. /\ index \in Nat \ {0} /\ Len(text.sql) \in Nat /\ Current.last \in Nat
      /\ Current.first = index /\ Current.delimiter = <<Quote>>
  BY <1>1, Position, PositionInQuotes
<1>3. Current.kind = "character" /\ IsCharacter(text, Current)
  BY <1>1, <1>2, PositionInQuotes, LiteralEnd
<1>4. Current.last + 1 - index = 1 BY <1>1, <1>2, <1>3, LiteralForms
<1> QED BY <1>1, <1>2, <1>3, <1>4, Advance DEF Behind

\* At the first of two double quotes the scan believes that the name is over.
LEMMA EndQuotesKeeps == ASSUME ScanInvariant, EndQuotes PROVE ScanInvariant'
<1>1. /\ Scanning /\ quote # <<Quote>> /\ quote # Unquoted
      /\ At(text.sql, quote, index) /\ Keep(Len(quote)) /\ quote' = Unquoted
  BY DEF EndQuotes, AtDelimiter, InQuotes, Unquoted, Starts
<1>2. /\ index \in Nat \ {0} /\ Len(text.sql) \in Nat /\ index \in DOMAIN text.sql
      /\ WellPrinted(text) /\ Current.last \in Nat /\ Current.last <= Len(text.sql)
      /\ Current.first = index /\ Current.delimiter = quote
  BY <1>1, Position, PositionInQuotes
<1>3. CASE Current.kind = "closing" /\ IsClosing(text, Current)
  <2>1. Current.last = index + Len(quote) - 1 BY <1>2, <1>3 DEF IsClosing, Spells
  <2>2. Len(quote) \in Nat BY <1>2, Position DEF Lexemes
  <2>3. Current.last + 1 - index = Len(quote) BY <1>2, <2>1, <2>2
  <2> QED BY <1>1, <1>3, <2>3, Advance DEF Behind
<1>4. CASE Current.kind = "character" /\ IsCharacter(text, Current)
  <2>1. quote = <<DoubleQuote>> BY <1>1, <1>2, <1>4, BodyForms
  <2>2. text.sql[index] = DoubleQuote BY <1>1, <1>2, <2>1, AtOne
  <2>3. Current.last = index + 1 BY <1>2, <1>4, <2>1, <2>2, NameForms
  <2>4. index + 1 \in Current.first..Current.last BY <1>2, <2>3
  <2>5. text.lexeme[index + 1] = Current BY <1>2, <2>4, LexemeAt DEF Current
  <2>6. index' = index + 1 /\ text' = text /\ kept' = kept \cup {index}
    <3>1. Len(quote) = 1 BY <2>1
    <3>2. index..(index + 1 - 1) = {index} BY <1>2
    <3> QED BY <1>1, <3>1, <3>2 DEF Keep
  <2>7. BetweenDoubled(Current, index + 1, Unquoted)
    BY <1>2, <1>4, <2>1, <2>3 DEF BetweenDoubled, Pair
  <2>8. InStep(text, index + 1, Unquoted) BY <1>2, <2>3, <2>5, <2>7 DEF InStep
  <2>9. KeptBefore(text, index + 1) = KeptBefore(text, index) \cup {index}
    BY <1>2, <1>4 DEF KeptBefore, Current
  <2> QED BY <1>1, <2>6, <2>8, <2>9 DEF ScanInvariant
<1> QED BY <1>1, <1>3, <1>4, PositionInQuotes

LEMMA QuotedCharacterKeeps == ASSUME ScanInvariant, QuotedCharacter PROVE ScanInvariant'
<1>1. /\ Scanning /\ quote # <<Quote>> /\ quote # Unquoted
      /\ ~At(text.sql, quote, index) /\ Keep(1) /\ quote' = quote
  BY DEF QuotedCharacter, AtDelimiter, InQuotes, Unquoted, Starts
<1>2. /\ index \in Nat \ {0} /\ Len(text.sql) \in Nat
      /\ Current.last \in Nat /\ index <= Len(text.sql)
      /\ Current.first = index /\ Current.delimiter = quote
  BY <1>1, Position, PositionInQuotes
<1>3. Current.kind = "character" /\ IsCharacter(text, Current)
  BY <1>1, <1>2, PositionInQuotes DEF IsClosing, Spells
<1>4. Current.last = index
  <2>1. CASE quote = <<DoubleQuote>>
    BY <1>1, <1>2, <1>3, <2>1, NameForms, AtOne
  <2>2. CASE quote # <<DoubleQuote>>
    BY <1>1, <1>2, <1>3, <2>2, BodyForms
  <2> QED BY <2>1, <2>2
<1>5. Current.last + 1 - index = 1 BY <1>2, <1>4
<1> QED BY <1>1, <1>2, <1>3, <1>5, Advance DEF Behind

\* A qualifier begins with a word or with a double quote.
LEMMA QualifierStart ==
    ASSUME ScanInvariant, Scanning, QualifierAt(text, index)
    PROVE  Here \in Letters \cup {DoubleQuote}
BY Position, QualifierForms DEF QualifierAt, Here

\* What opens quotes shows which ones.
LEMMA OpeningForms ==
    ASSUME ScanInvariant, Scanning, IsOpening(text, Current), Current.first = index
    PROVE  \/ /\ Current.delimiter = <<Quote>> /\ Here = Quote /\ Current.last = index
           \/ /\ Current.delimiter = <<DoubleQuote>> /\ Here = DoubleQuote
              /\ Current.last = index /\ ~QualifierAt(text, index)
           \/ /\ DelimiterFrom(text.sql, index, Current.last)
              /\ Current.delimiter = SubSeq(text.sql, index, Current.last)
<1>1. /\ index \in Nat \ {0} /\ Len(text.sql) \in Nat /\ text \in TextType
      /\ Current.last \in Nat /\ Current.last <= Len(text.sql) /\ Current \in Lexemes
  BY Position
<1>2. /\ At(text.sql, Current.delimiter, index)
      /\ Current.last = index + Len(Current.delimiter) - 1
  BY DEF IsOpening, Spells
<1>3. CASE Current.delimiter = <<Quote>>
  BY <1>1, <1>2, <1>3, AtOne DEF Here
<1>4. CASE Current.delimiter = <<DoubleQuote>> /\ ~QualifierAt(text, Current.first)
  BY <1>1, <1>2, <1>4, AtOne DEF Here
<1>5. CASE DelimiterFrom(text.sql, Current.first, Current.last)
  <2> DEFINE d == Current.delimiter
             e == SubSeq(text.sql, index, Current.last)
  <2>1. d \in Seq(Symbols) /\ text.sql \in Seq(Symbols) BY <1>1 DEF Lexemes, TextType
  <2>2. Len(d) = Current.last - index + 1 /\ Len(d) \in Nat BY <1>1, <1>2, <2>1
  <2>3. /\ e \in Seq(Symbols) /\ Len(e) = Len(d)
        /\ \A k \in 1..Len(d) : e[k] = text.sql[index + k - 1]
    BY <1>1, <2>1, <2>2
  <2>4. \A k \in 1..Len(d) : d[k] = text.sql[index + k - 1] BY <1>2, <2>1 DEF At
  <2> HIDE DEF d, e
  <2>5. d = [k \in 1..Len(d) |-> d[k]] /\ e = [k \in 1..Len(e) |-> e[k]] BY <2>1, <2>3
  <2>6. [k \in 1..Len(d) |-> d[k]] = [k \in 1..Len(e) |-> e[k]] BY <2>3, <2>4
  <2>7. d = e BY <2>5, <2>6
  <2> QED BY <1>5, <2>7 DEF d, e
<1> QED BY <1>3, <1>4, <1>5 DEF IsOpening

\* A lexeme that is a qualifier is where one begins.
LEMMA OnlyWhereItIs ==
    ASSUME IsQualifier(text, Current), Current.first = index
    PROVE  QualifierAt(text, index)
BY DEF IsQualifier, Spells, QualifierAt

LEMMA OpenLiteralKeeps == ASSUME ScanInvariant, OpenLiteral PROVE ScanInvariant'
<1>1. /\ Scanning /\ quote = Unquoted /\ Here = Quote /\ Keep(1) /\ quote' = <<Quote>>
  BY DEF OpenLiteral, Outside
<1>2. ~QualifierAt(text, index) /\ Here # DoubleQuote /\ Here # Dollar
  BY <1>1, QualifierStart, PunctuationIsNoWord DEF Punctuation
<1>3. /\ Current.kind = "opening" /\ Current.delimiter = <<Quote>> /\ Current.last = index
  BY <1>1, <1>2, PositionOutside, OpeningForms, OnlyWhereItIs DEF IsSymbol, DelimiterFrom, Here
<1>4. Current.last + 1 - index = 1 BY <1>1, <1>3, Position
<1> QED BY <1>1, <1>3, <1>4, Advance DEF Behind

LEMMA OpenBodyKeeps == ASSUME ScanInvariant, OpenBody PROVE ScanInvariant'
<1>1. /\ Scanning /\ quote = Unquoted
      /\ \E n \in DOMAIN text.sql :
           /\ DelimiterFrom(text.sql, index, n)
           /\ Keep(n + 1 - index) /\ quote' = SubSeq(text.sql, index, n)
  BY DEF OpenBody, Outside
<1>2. PICK n \in DOMAIN text.sql :
        /\ DelimiterFrom(text.sql, index, n)
        /\ Keep(n + 1 - index) /\ quote' = SubSeq(text.sql, index, n)
  BY <1>1
<1>3. Here = Dollar /\ DelimiterAt(text.sql, index) BY <1>2 DEF DelimiterFrom, DelimiterAt, Here
<1>4. ~QualifierAt(text, index) /\ Here # DoubleQuote /\ Here # Quote
  BY <1>1, <1>3, QualifierStart, PunctuationIsNoWord DEF Punctuation
<1>5. /\ Current.kind = "opening" /\ DelimiterFrom(text.sql, index, Current.last)
      /\ Current.delimiter = SubSeq(text.sql, index, Current.last)
  BY <1>1, <1>3, <1>4, PositionOutside, OpeningForms, OnlyWhereItIs DEF IsSymbol
<1>6. /\ Len(text.sql) \in Nat /\ index \in Nat /\ Current.last \in Nat
      /\ n \in Nat
  <2>1. text \in TextType BY <1>1, Position
  <2>2. DOMAIN text.sql = 1..Len(text.sql) BY <2>1 DEF TextType
  <2>3. n \in 1..Len(text.sql) BY <2>2
  <2> QED BY <1>1, <2>3, Position
<1>7. Current.last = n BY <1>2, <1>5, <1>6, DelimiterUnique
<1> QED BY <1>1, <1>2, <1>5, <1>7, Advance DEF Behind

LEMMA DropQualifierKeeps == ASSUME ScanInvariant, DropQualifier PROVE ScanInvariant'
<1>1. /\ Scanning /\ quote = Unquoted /\ Here # Quote /\ ~DelimiterAt(text.sql, index)
      /\ Boundary(text.sql, index) /\ UNCHANGED <<text, quote, kept>>
  BY DEF DropQualifier, Unopened, Outside
<1>2. PICK q \in Qualifiers(text.schema) : At(text.sql, q, index) /\ index' = index + Len(q)
  BY DEF DropQualifier, Starts
<1>3. QualifierAt(text, index) BY <1>1, <1>2 DEF QualifierAt
<1>4. /\ index \in DOMAIN text.sql /\ index \in Nat \ {0} /\ text \in TextType
      /\ WellPrinted(text) /\ Current.last \in index..Len(text.sql) /\ Len(text.sql) \in Nat
  BY <1>1, Position
<1>5. /\ Current.first = index /\ Current.kind = "qualifier" /\ IsQualifier(text, Current)
  <2>1. Current.last \in DOMAIN text.sql BY <1>4 DEF TextType
  <2>2. ~DelimiterFrom(text.sql, index, Current.last) BY <1>1, <2>1 DEF DelimiterAt
  <2> QED BY <1>1, <1>3, <2>2, PositionOutside, OpeningForms DEF IsSymbol
<1>6. PICK r \in Qualifiers(text.schema) :
        At(text.sql, r, index) /\ Current.last = index + Len(r) - 1
  BY <1>5 DEF IsQualifier, Spells
<1>7. Len(q) = Len(r) /\ Len(r) \in Nat
  <2>1. CASE Here \in Letters
    <3>1. Len(q) = 2 BY <1>2, <1>4, <2>1, QualifierForms DEF Here
    <3>2. Len(r) = 2 BY <1>4, <1>6, <2>1, QualifierForms DEF Here
    <3> QED BY <3>1, <3>2
  <2>2. CASE Here \notin Letters
    <3>1. Len(q) = 4 BY <1>2, <1>4, <2>2, QualifierForms DEF Here
    <3>2. Len(r) = 4 BY <1>4, <1>6, <2>2, QualifierForms DEF Here
    <3> QED BY <3>1, <3>2
  <2> QED BY <2>1, <2>2
<1>8. index' = Current.last + 1
  <2>1. index' = index + Len(r) BY <1>2, <1>7
  <2> QED BY <1>4, <1>6, <1>7, <2>1
<1>9. InStep(text, index', Unquoted) /\ KeptBefore(text, index') = KeptBefore(text, index)
  BY <1>4, <1>5, <1>8, Passes DEF Current, Behind
<1> QED BY <1>1, <1>9 DEF ScanInvariant

\* Here the scan may stand between two double quotes, and takes the second for
\* the beginning of a name.
LEMMA OpenNameKeeps == ASSUME ScanInvariant, OpenName PROVE ScanInvariant'
<1>1. /\ Scanning /\ quote = Unquoted /\ Here = DoubleQuote /\ ~QualifierAt(text, index)
      /\ Keep(1) /\ quote' = <<DoubleQuote>>
  BY DEF OpenName, Unopened, Outside
<1>2. Here # Quote /\ Here # Dollar BY <1>1, PunctuationIsNoWord
<1>3. /\ Current.kind \in {"opening", "character"} /\ Current.delimiter = <<DoubleQuote>>
      /\ Current.last = index
  BY <1>1, <1>2, PositionOutside, OpeningForms, OnlyWhereItIs DEF IsSymbol, DelimiterFrom, Here
<1>4. Current.last + 1 - index = 1 BY <1>1, <1>3, Position
<1> QED BY <1>1, <1>3, <1>4, Advance DEF Behind

LEMMA CopyKeeps == ASSUME ScanInvariant, Copy PROVE ScanInvariant'
<1>1. /\ Scanning /\ quote = Unquoted /\ Here # DoubleQuote /\ Here # Quote
      /\ ~DelimiterAt(text.sql, index) /\ ~QualifierAt(text, index)
      /\ Keep(1) /\ quote' = Unquoted
  BY DEF Copy, Unopened, Outside
<1>2. /\ text \in TextType /\ index \in Nat \ {0} /\ Len(text.sql) \in Nat
      /\ Current.last \in index..Len(text.sql)
  BY <1>1, Position
<1>3. Current.kind = "symbol" /\ Current.last = index
  <2>1. Current.last \in DOMAIN text.sql BY <1>2 DEF TextType
  <2>2. ~DelimiterFrom(text.sql, index, Current.last) BY <1>1, <2>1 DEF DelimiterAt
  <2> QED BY <1>1, <2>2, PositionOutside, OpeningForms, OnlyWhereItIs DEF IsSymbol, Single
<1>4. Current.last + 1 - index = 1 BY <1>2, <1>3
<1> QED BY <1>1, <1>3, <1>4, Advance DEF Behind

-----------------------------------------------------------------------------
(* The theorem *)

\* Of every text in which no literal has a backslash before a quote, whatever it
\* quotes, the scan drops the qualifiers of the schema and nothing else
\* (normalize_sql_qualifiers).
THEOREM OnlyQualifiersAreDropped ==
    ASSUME \A t \in Texts : NoEscapedQuote(t)
    PROVE  Spec => []OnlyQualifiersDropped
<1>1. Init => ScanInvariant
  <2> SUFFICES ASSUME Init PROVE ScanInvariant OBVIOUS
  <2>1. Printable(text) BY NormalizationAssumption DEF Init, Printable
  <2>2. Len(text.sql) \in Nat /\ DOMAIN text.sql = 1..Len(text.sql)
    BY <2>1 DEF Printable, WellPrinted, TextType
  <2>3. ASSUME 1 <= Len(text.sql) PROVE Synchronized(text.lexeme[1], 1, Unquoted)
    <3>1. 1 \in DOMAIN text.sql BY <2>2, <2>3
    <3>2. text.lexeme[1].first = 1 BY <2>1, <3>1, LexemeAt DEF Printable
    <3> QED BY <2>1, <3>1, <3>2 DEF Printable, WellPrinted, Synchronized
  <2>4. InStep(text, 1, Unquoted) BY <2>2, <2>3 DEF InStep
  <2> QED BY <2>1, <2>4 DEF Init, ScanInvariant, KeptBefore
<1>2. ScanInvariant /\ [Next]_vars => ScanInvariant'
  <2> SUFFICES ASSUME ScanInvariant, [Next]_vars PROVE ScanInvariant' OBVIOUS
  <2>1. CASE Escape \/ DoubledQuote \/ EndLiteral \/ LiteralCharacter
    BY <2>1, EscapeKeeps, DoubledQuoteKeeps, EndLiteralKeeps, LiteralCharacterKeeps
  <2>2. CASE EndQuotes \/ QuotedCharacter
    BY <2>2, EndQuotesKeeps, QuotedCharacterKeeps
  <2>3. CASE OpenLiteral \/ OpenBody \/ DropQualifier \/ OpenName \/ Copy
    BY <2>3, OpenLiteralKeeps, OpenBodyKeeps, DropQualifierKeeps, OpenNameKeeps, CopyKeeps
  <2>4. CASE UNCHANGED vars
    BY <2>4 DEF vars, ScanInvariant
  <2> QED BY <2>1, <2>2, <2>3, <2>4 DEF Next
<1>3. ScanInvariant => OnlyQualifiersDropped
  BY DEF ScanInvariant, KeptBefore, OnlyQualifiersDropped
<1> QED BY <1>1, <1>2, <1>3, PTL DEF Spec
=============================================================================
