------------------------------ MODULE Dispatch ------------------------------
(***************************************************************************)
(* What becomes of the text of a query (mysql/handler.go, mysql/meta.go):  *)
(* comments are taken out, statements that only need an answer get one,    *)
(* DDL goes to its handlers, and the rest to the translator.  All of it    *)
(* looks at characters, where SQL looks at tokens.                         *)
(*                                                                         *)
(* A text is a sequence of symbols.  A symbol is a character, or a word    *)
(* the code looks for: a keyword, "SYSTEM" for a text that                 *)
(* containsSystemExpr has in its list (@@, NOW(), ...), "META" for one of  *)
(* containsMetaSchema (INFORMATION_SCHEMA, SYS., ...).  "x" is a letter,   *)
(* "1" a digit, "bq" the quote around names.  One statement stands for     *)
(* each way in which the code recognises the first words.                  *)
(***************************************************************************)
EXTENDS Integers, SequencesExt

CONSTANT Queries  \* what clients send: sets of texts

VARIABLES
  query,    \* what the client sent
  text,     \* without comments, blanks around it and semicolons
  route,    \* who answers
  columns,  \* of systemSelect's answer
  phase

vars == <<query, text, route, columns, phase>>

Blanks == {" ", "\n"}
Quotes == {"'", "bq"}
WordSymbols == {"x", "1", "SELECT", "FROM", "SET", "USE", "DROP", "TABLE", "SHOW", "SYSTEM", "META"}
Symbols ==
  WordSymbols \cup Blanks \cup Quotes \cup {"\\", "/", "*", "-", "#", "(", ")", ",", ";"}
Texts == Seq(Symbols)

ASSUME QueriesAssumption == \A Q \in Queries : Q \subseteq Texts

Upto(s, n) == SubSeq(s, 1, n)
After(s, n) == SubSeq(s, n + 1, Len(s))
Begins(s, prefix) == IsPrefix(prefix, s)

\* The first position from i on at which the word stands; 0 if there is none.
Find(s, word, i) ==
  LET found == {j \in i..(Len(s) - Len(word) + 1) : Begins(After(s, j - 1), word)}
  IN  IF found = {} THEN 0 ELSE Min(found)

----------------------------------------------------------------------------
(* The code.                                                               *)

\* How far the quoted text reaches whose opening quote q is in front of s.
Closing[s \in Texts] ==
  [q \in Quotes |->
     IF s = <<>> THEN 0
     ELSE IF s[1] = "\\" /\ Len(s) > 1 THEN 2 + Closing[After(s, 2)][q]
     ELSE IF s[1] = q THEN 1 ELSE 1 + Closing[Tail(s)][q]]

LiteralLength(s) == 1 + Closing[Tail(s)][s[1]]

BlockComment(s) == Begins(s, <<"/", "*">>)
LineComment(s) == Begins(s, <<"-", "-">>) \/ s[1] = "#"

\* Variant: a quoted text is not copied as a whole.
StrippedPlain[s \in Texts] ==
  IF s = <<>> THEN <<>>
  ELSE IF BlockComment(s)
       THEN LET end == Find(s, <<"*", "/">>, 3)
            IN  IF end = 0 THEN <<>> ELSE <<" ">> \o StrippedPlain[After(s, end + 1)]
  ELSE IF LineComment(s)
       THEN LET end == Find(s, <<"\n">>, 1)
            IN  IF end = 0 THEN <<>> ELSE StrippedPlain[After(s, end - 1)]
  ELSE Upto(s, 1) \o StrippedPlain[After(s, 1)]

StripPlain(s) == StrippedPlain[s]

\* The loop copies a quoted text as a whole, anything else symbol by symbol.
CopyLength(s) == IF s[1] \in Quotes THEN LiteralLength(s) ELSE 1

Stripped[s \in Texts] ==
  IF s = <<>> THEN <<>>
  ELSE IF BlockComment(s)
       THEN LET end == Find(s, <<"*", "/">>, 3)
            IN  IF end = 0 THEN <<>> ELSE <<" ">> \o Stripped[After(s, end + 1)]
  ELSE IF LineComment(s)
       THEN LET end == Find(s, <<"\n">>, 1)
            IN  IF end = 0 THEN <<>> ELSE Stripped[After(s, end - 1)]
  ELSE Upto(s, CopyLength(s)) \o Stripped[After(s, CopyLength(s))]

StripSQLComments(s) == Stripped[s]

TrimRight(s, symbols) == Upto(s, SelectLastInSeq(s, LAMBDA c : c \notin symbols))
TrimLeft(s) ==
  LET first == SelectInSeq(s, LAMBDA c : c \notin Blanks)
  IN  IF first = 0 THEN <<>> ELSE After(s, first - 1)

\* HandleQuery's loop takes blanks and semicolons off the end in turn.
Cleaned(s) == TrimRight(TrimLeft(s), Blanks \cup {";"})

Boundaries == Blanks \cup {"(", ")", ",", ";"}

\* Whether the code sees FROM in s, at a depth of parentheses, and with a boundary
\* in front of s or not.
FromSeen[s \in Texts] ==
  [depth \in Nat |-> [bounded \in BOOLEAN |->
     IF s = <<>> THEN FALSE
     ELSE IF s[1] \in Quotes THEN FromSeen[After(s, LiteralLength(s))][depth][FALSE]
     ELSE LET inside == CASE s[1] = "(" -> depth + 1
                          [] s[1] = ")" -> Max({depth - 1, 0})
                          [] OTHER -> depth
          IN  \/ /\ inside = 0 /\ s[1] = "FROM" /\ bounded
                 /\ Len(s) = 1 \/ s[2] \in Boundaries
              \/ FromSeen[After(s, 1)][inside][s[1] \in Boundaries]]]

\* Variant: any FROM will do.
HasAnyFrom(body) == "FROM" \in ToSet(body)

HasTopLevelFrom(body) == FromSeen[body][0][TRUE]

ContainsSystemExpr(body) ==
  "SYSTEM" \in ToSet(body) \/ (TrimLeft(body) # <<>> /\ TrimLeft(body)[1] = "1")

\* handleMeta, in its order.
Route(q) ==
  CASE q = <<>> \/ q = <<"SET">> \/ Begins(q, <<"SET", " ">>) -> "ok"
    [] Begins(q, <<"DROP", " ", "TABLE">>) -> "ddl"
    [] Begins(q, <<"USE", " ">>) -> "use"
    [] Begins(q, <<"SELECT">>) ->
         IF "META" \in ToSet(q) THEN "empty"
         ELSE IF ContainsSystemExpr(Tail(q)) \/ ~HasTopLevelFrom(Tail(q)) THEN "system"
         ELSE "translator"
    [] Begins(q, <<"SHOW">>) -> "show"
    [] OTHER -> "translator"

\* To splitTopLevel a quote ends the quoted text unless "\" is in front of it.
SplitLength(s) ==
  LET ends == {i \in 2..Len(s) : s[i] = s[1] /\ s[i - 1] # "\\"}
  IN  IF ends = {} THEN Len(s) ELSE Min(ends)

\* The number of separators outside of parentheses and quotes.
Separators[s \in Texts] ==
  [depth \in Int |->
     IF s = <<>> THEN 0
     ELSE IF s[1] \in Quotes THEN Separators[After(s, SplitLength(s))][depth]
     ELSE LET inside == CASE s[1] = "(" -> depth + 1
                          [] s[1] = ")" -> depth - 1
                          [] OTHER -> depth
          IN  (IF s[1] = "," /\ depth = 0 THEN 1 ELSE 0) + Separators[After(s, 1)][inside]]

\* Variant: parentheses are not looked at.
SplitFlat(s) == Cardinality({i \in DOMAIN s : s[i] = ","}) + 1

SplitTopLevel(s) == Separators[s][0] + 1

\* systemSelect: the text after "SELECT ", wherever that stands.
SystemColumns(q) ==
  LET start == Find(q, <<"SELECT", " ">>, 1)
  IN  SplitTopLevel(IF start = 0 THEN q ELSE After(q, start + 1))

----------------------------------------------------------------------------
Init ==
  /\ \E Q \in Queries : query \in Q
  /\ text = <<>>
  /\ route = "none"
  /\ columns = 0
  /\ phase = "received"

HandleQuery ==
  /\ phase = "received"
  /\ text' = Cleaned(StripSQLComments(query))
  /\ phase' = "cleaned"
  /\ UNCHANGED <<query, route, columns>>

HandleMeta ==
  /\ phase = "cleaned"
  /\ route' = Route(text)
  /\ phase' = "routed"
  /\ UNCHANGED <<query, text, columns>>

SystemSelect ==
  /\ phase = "routed"
  /\ route = "system"
  /\ columns' = SystemColumns(text)
  /\ phase' = "answered"
  /\ UNCHANGED <<query, text, route>>

Next == HandleQuery \/ HandleMeta \/ SystemSelect

Spec == Init /\ [][Next]_vars

----------------------------------------------------------------------------
(* SQL: tokens.                                                            *)

\* How far the quoted text reaches whose opening quote q is in front of s; 0 if it
\* has no end.  "\" is an ordinary character in the name of a column.
SqlClosing[s \in Texts] ==
  [q \in Quotes |->
     IF s = <<>> THEN 0
     ELSE IF s[1] = q THEN 1
     ELSE LET n == IF s[1] = "\\" /\ q = "'" THEN 2 ELSE 1
              rest == SqlClosing[After(s, n)][q]
          IN  IF rest = 0 THEN 0 ELSE n + rest]

WordLength(s) == Max({n \in DOMAIN s : \A i \in 1..n : s[i] \in WordSymbols})

Minuses == <<"-", "-">>

\* Two minus signs begin a comment only before a blank or at the end.
SqlLineComment(s) ==
  \/ s[1] = "#"
  \/ Begins(s, Minuses) /\ (Len(s) = 2 \/ s[3] \in Blanks)

\* The length of the blank or comment s begins with; 0 if there is none.
SpaceLength(s) ==
  CASE s[1] \in Blanks -> 1
    [] BlockComment(s) ->
         LET end == Find(s, <<"*", "/">>, 3) IN IF end = 0 THEN 0 ELSE end + 1
    [] SqlLineComment(s) ->
         LET end == Find(s, <<"\n">>, 1) IN IF end = 0 THEN Len(s) ELSE end - 1
    [] OTHER -> 0

\* The length of the token s begins with; 0 if a quote or a comment does not end.
TokenLength(s) ==
  CASE BlockComment(s) -> 0
    [] Begins(s, Minuses) -> 2
    [] s[1] \in Quotes ->
         LET closing == SqlClosing[After(s, 1)][s[1]]
         IN  IF closing = 0 THEN 0 ELSE closing + 1
    [] s[1] \in WordSymbols -> WordLength(s)
    [] OTHER -> 1

Unterminated == <<"unterminated">>

Tokens[s \in Texts] ==
  IF s = <<>> THEN <<>>
  ELSE IF SpaceLength(s) > 0 THEN Tokens[After(s, SpaceLength(s))]
  ELSE IF TokenLength(s) = 0 THEN <<Unterminated>>
  ELSE <<Upto(s, TokenLength(s))>> \o Tokens[After(s, TokenLength(s))]

Sql == Tokens[query]

Depth(t, i) ==
  Cardinality({j \in 1..i : t[j] = <<"(">>}) - Cardinality({j \in 1..i : t[j] = <<")">>})

TopLevel(t, token) == {i \in DOMAIN t : t[i] = token /\ Depth(t, i) = 0}

\* Who has to answer, by the tokens.
SqlRoute(t) ==
  LET from == TopLevel(t, <<"FROM">>)
  IN  CASE t = <<>> \/ t[1] = <<"SET">> -> "ok"
        [] Len(t) > 1 /\ t[1] = <<"DROP">> /\ t[2] = <<"TABLE">> -> "ddl"
        [] Len(t) > 1 /\ t[1] = <<"USE">> -> "use"
        [] t # <<>> /\ t[1] = <<"SELECT">> ->
             IF from = {} THEN "system"
             ELSE IF Min(from) < Len(t) /\ t[Min(from) + 1][1] = "META" THEN "empty"
             ELSE "translator"
        [] t # <<>> /\ t[1] = <<"SHOW">> -> "show"
        [] OTHER -> "translator"

----------------------------------------------------------------------------
(* Properties.                                                             *)

\* Texts and comments end, "--" is a comment, and no name has a "\".
WellFormed(t) ==
  \A i \in DOMAIN t :
    /\ t[i] \notin {Unterminated, Minuses}
    /\ t[i][1] = "bq" => "\\" \notin ToSet(t[i])

\* One blank follows a first word that is looked for with it, no letter one that
\* is not.
PlainHead ==
  LET t == Sql
  IN  /\ Len(text) > 1 /\ text[1] \in {"SET", "USE", "DROP"} =>
           /\ text[2] = " "
           /\ text[1] = "DROP" => text[3] \notin Blanks
      /\ text # <<>> /\ text[1] \in {"SELECT", "SHOW"} => Len(t[1]) = 1
      /\ Len(t) > 1 /\ t[1] = <<"DROP">> /\ t[2][1] = "TABLE" => Len(t[2]) = 1

\* The text with nothing but quotes where its literals are.
Masked[s \in Texts] ==
  IF s = <<>> THEN <<>>
  ELSE [i \in 1..CopyLength(s) |-> s[1]] \o Masked[After(s, CopyLength(s))]

\* A SELECT from a table has FROM between blanks, no system function or "@@"
\* anywhere, begins with no digit, and has the name of a system schema nowhere
\* but after FROM.
PlainSelect ==
  LET t == Tail(Sql)
      body == Tail(text)
  IN  text # <<>> /\ text[1] = "SELECT" =>
        /\ \A i \in DOMAIN t : Depth(t, i) >= 0
        /\ "META" \in ToSet(body) => SqlRoute(Sql) = "empty"
        /\ TopLevel(t, <<"FROM">>) # {} => ~ContainsSystemExpr(body)
        /\ \A i \in DOMAIN body :
             Masked[body][i] = "FROM" =>
               /\ i > 1 => body[i - 1] \in Boundaries \cup WordSymbols
               /\ i < Len(body) => body[i + 1] \in Boundaries \cup WordSymbols

\* Taking comments out changes no token of the statement (handler.go
\* stripSQLComments: "avoid stripping comment-like content inside strings").
CommentsAreBlanks ==
  phase # "received" /\ WellFormed(Sql) =>
    Tokens[text] = TrimRight(Sql, {<<";">>})

\* A statement is answered by the part that its tokens call for: a SELECT from a
\* table by the translator, one without FROM by systemSelect, DDL by its handler
\* (meta.go handleMeta, hasTopLevelFrom).
RoutedByTokens ==
  phase \in {"routed", "answered"} /\ WellFormed(Sql) /\ PlainHead /\ PlainSelect =>
    route = SqlRoute(TrimRight(Sql, {<<";">>}))

\* systemSelect answers with one column for each expression (meta.go
\* splitTopLevel).
OneColumnEach ==
  /\ phase = "answered" /\ WellFormed(Sql) /\ PlainHead /\ PlainSelect
  /\ Len(text) > 1 /\ text[2] = " "
  /\ \A i \in 2..Len(text) : ~(text[i - 1] = "\\" /\ text[i] = "\\")
  => columns = Cardinality(TopLevel(Sql, <<",">>)) + 1
=============================================================================
