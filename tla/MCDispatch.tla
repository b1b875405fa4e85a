----------------------------- MODULE MCDispatch -----------------------------
(***************************************************************************)
(* Queries for TLC: every short sequence of the symbols that matter to     *)
(* comments, to SELECT and to the first words.                             *)
(***************************************************************************)
EXTENDS Dispatch

CONSTANT Length  \* bound: pieces after the beginning

Each(symbols) == {<<c>> : c \in symbols}
CommentSymbols == {"x", " ", "\n", "'", "bq", "\\", "/", "*", "-", "#"}
SelectSymbols == {"x", "1", " ", "'", "\\", "(", ")", ",", "FROM", "SYSTEM", "META"}

\* A beginning, and up to n pieces.
Forms(beginnings, pieces, n) ==
  {{b \o FlattenSeq(s) : s \in [1..k -> pieces]} : b \in beginnings, k \in 0..n}

Comments == Forms({<<>>, <<"bq", "\\", "bq", "x">>}, Each(CommentSymbols), Length)

\* The last two hold a backslash before the closing quote, and "SELECT " in a text.
Bodies ==
  Forms({<<"SELECT", " ">>, <<"SELECT", " ", "'", "\\", "\\", "'">>,
         <<"SELECT", "\n", "'", "SELECT", " ">>},
        Each(SelectSymbols), Length)

\* A SELECT from a table, with up to two symbols on each side.
Selects ==
  Forms({<<"SELECT", " ">> \o a \o <<" ", "FROM", " ">> :
           a \in SeqOf(SelectSymbols \cup CommentSymbols, 2)},
        Each(SelectSymbols), 2)

Heads ==
  Forms({<<>>},
        Each({"x", " ", "\n", ";", "SET", "USE", "DROP", "TABLE", "SHOW", "SELECT"})
          \cup {<<"/", "*", "x", "*", "/">>, <<"#", "x", "\n">>},
        Length)

MCQueries == Comments \cup Bodies \cup Selects \cup Heads
=============================================================================
