----------------------------- MODULE RSLCToken -----------------------------
(***************************************************************************)
(* The RSL lexer, Tokenizer() of RSLC_Token.cpp.  Each step is one         *)
(* iteration of Tokenizer's main loop, taking the first of its branches   *)
(* that applies: handleComment, handleNumber, a double quote, whitespace,  *)
(* matchTokenDef, else the character is appended to the current token.    *)
(* The source is a sequence of one-character strings; Init renders it     *)
(* from a sequence of valid tokens (given), as spec.md section 8's         *)
(* round-trip property does, after an optional block comment.            *)
(***************************************************************************)
EXTENDS Integers, Sequences, SequencesExt

CONSTANTS
    ValidTokens,    \* the tokens sources are made of: [str, idType]
    MaxTokens,      \* tokens per source
    Comments,       \* block comments a source may start with
    TieOrder        \* "stable" or "reversed": qsort's order of equal lengths

VARIABLES
    given,          \* the token sequence the source was rendered from
    src,            \* pSource[0..sourceSize-1]
    i,              \* the loop index
    tokens,         \* DVec<Token>; the last one is tokens.back()
    isInString,
    isInComment,
    wasPrecededByWS

vars == <<given, src, i, tokens, isInString, isInComment, wasPrecededByWS>>

\* isEscape is initialised to false and never assigned.
isEscape == FALSE

D(s, t) == [s |-> s, t |-> t]

(* _sTokenDefs without its three NULL entries (value and unknown ids),    *)
(* which matchTokenDef skips.                                             *)
sTokenDefs == <<
    D(<<"<", "=">>, "OPERATOR"), D(<<">", "=">>, "OPERATOR"),
    D(<<"<">>, "OPERATOR"), D(<<">">>, "OPERATOR"),
    D(<<"&", "&">>, "OPERATOR"), D(<<"|", "|">>, "OPERATOR"),
    D(<<"=", "=">>, "OPERATOR"), D(<<"!", "=">>, "OPERATOR"),
    D(<<"+", "=">>, "OPERATOR"), D(<<"-", "=">>, "OPERATOR"),
    D(<<"*", "=">>, "OPERATOR"), D(<<"/", "=">>, "OPERATOR"),
    D(<<"+">>, "OPERATOR"), D(<<"-">>, "OPERATOR"), D(<<"*">>, "OPERATOR"),
    D(<<"/">>, "OPERATOR"), D(<<"=">>, "OPERATOR"), D(<<"^">>, "OPERATOR"),
    D(<<".">>, "OPERATOR"), D(<<":">>, "OPERATOR"), D(<<",">>, "OPERATOR"),
    D(<<";">>, "OPERATOR"), D(<<"(">>, "OPERATOR"), D(<<")">>, "OPERATOR"),
    D(<<"[">>, "OPERATOR"), D(<<"]">>, "OPERATOR"), D(<<"{">>, "OPERATOR"),
    D(<<"}">>, "OPERATOR"),
    D(<<"f", "l", "o", "a", "t">>, "DATATYPE"),
    D(<<"v", "e", "c", "t", "o", "r">>, "DATATYPE"),
    D(<<"p", "o", "i", "n", "t">>, "DATATYPE"),
    D(<<"n", "o", "r", "m", "a", "l">>, "DATATYPE"),
    D(<<"c", "o", "l", "o", "r">>, "DATATYPE"),
    D(<<"s", "t", "r", "i", "n", "g">>, "DATATYPE"),
    D(<<"v", "a", "r", "y", "i", "n", "g">>, "KEYWORD"),
    D(<<"u", "n", "i", "f", "o", "r", "m">>, "KEYWORD"),
    D(<<"i", "f">>, "KEYWORD"), D(<<"f", "o", "r">>, "KEYWORD"),
    D(<<"w", "h", "i", "l", "e">>, "KEYWORD"),
    D(<<"s", "o", "l", "a", "r">>, "KEYWORD"),
    D(<<"i", "l", "l", "u", "m", "i", "n", "a", "t", "e">>, "KEYWORD"),
    D(<<"i", "l", "l", "u", "m", "i", "n", "a", "n", "c", "e">>, "KEYWORD"),
    D(<<"b", "r", "e", "a", "k">>, "KEYWORD"),
    D(<<"c", "o", "n", "t", "i", "n", "u", "e">>, "KEYWORD"),
    D(<<"r", "e", "t", "u", "r", "n">>, "KEYWORD"),
    D(<<"t", "e", "x", "t", "u", "r", "e">>, "KEYWORD"),
    D(<<"e", "n", "v", "i", "r", "o", "n", "m", "e", "n", "t">>, "KEYWORD"),
    D(<<"b", "u", "m", "p">>, "KEYWORD"),
    D(<<"s", "h", "a", "d", "o", "w">>, "KEYWORD"),
    D(<<"l", "i", "g", "h", "t">>, "KEYWORD"),
    D(<<"s", "u", "r", "f", "a", "c", "e">>, "KEYWORD"),
    D(<<"v", "o", "l", "u", "m", "e">>, "KEYWORD"),
    D(<<"d", "i", "s", "p", "l", "a", "c", "e", "m", "e", "n", "t">>, "KEYWORD"),
    D(<<"t", "r", "a", "n", "s", "f", "o", "r", "m", "a", "t", "i", "o", "n">>, "KEYWORD"),
    D(<<"i", "m", "a", "g", "e", "r">>, "KEYWORD"),
    D(<<"a", "b", "s">>, "STDFUNC"),
    D(<<"a", "m", "b", "i", "e", "n", "t">>, "STDFUNC"),
    D(<<"c", "a", "l", "c", "u", "l", "a", "t", "e", "n", "o", "r", "m", "a", "l">>, "STDFUNC"),
    D(<<"c", "e", "l", "l", "n", "o", "i", "s", "e">>, "STDFUNC"),
    D(<<"c", "l", "a", "m", "p">>, "STDFUNC"),
    D(<<"c", "o", "m", "p">>, "STDFUNC"),
    D(<<"c", "o", "n", "c", "a", "t">>, "STDFUNC"),
    D(<<"c", "t", "r", "a", "n", "s", "f", "o", "r", "m">>, "STDFUNC"),
    D(<<"d", "e", "t", "e", "r", "m", "i", "n", "a", "n", "t">>, "STDFUNC"),
    D(<<"d", "i", "f", "f", "u", "s", "e">>, "STDFUNC"),
    D(<<"e", "n", "v", "i", "r", "o", "n", "m", "e", "n", "t">>, "STDFUNC"),
    D(<<"f", "a", "c", "e", "f", "o", "r", "w", "a", "r", "d">>, "STDFUNC"),
    D(<<"f", "i", "l", "t", "e", "r", "s", "t", "e", "p">>, "STDFUNC"),
    D(<<"f", "o", "r", "m", "a", "t">>, "STDFUNC"),
    D(<<"i", "n", "v", "e", "r", "s", "e", "s", "q", "r", "t">>, "STDFUNC"),
    D(<<"m", "a", "t", "c", "h">>, "STDFUNC"),
    D(<<"m", "a", "x">>, "STDFUNC"), D(<<"m", "i", "n">>, "STDFUNC"),
    D(<<"m", "i", "x">>, "STDFUNC"),
    D(<<"n", "o", "i", "s", "e">>, "STDFUNC"),
    D(<<"n", "o", "r", "m", "a", "l", "i", "z", "e">>, "STDFUNC"),
    D(<<"n", "t", "r", "a", "n", "s", "f", "o", "r", "m">>, "STDFUNC"),
    D(<<"p", "n", "o", "i", "s", "e">>, "STDFUNC"),
    D(<<"p", "t", "l", "i", "n", "e", "d">>, "STDFUNC"),
    D(<<"r", "a", "n", "d", "o", "m">>, "STDFUNC"),
    D(<<"r", "e", "f", "l", "e", "c", "t">>, "STDFUNC"),
    D(<<"r", "o", "t", "a", "t", "e">>, "STDFUNC"),
    D(<<"s", "c", "a", "l", "e">>, "STDFUNC"),
    D(<<"s", "e", "t", "c", "o", "m", "p">>, "STDFUNC"),
    D(<<"s", "h", "a", "d", "o", "w">>, "STDFUNC"),
    D(<<"s", "p", "e", "c", "u", "l", "a", "r">>, "STDFUNC"),
    D(<<"s", "p", "e", "c", "u", "l", "a", "r", "b", "r", "d", "f">>, "STDFUNC"),
    D(<<"s", "p", "l", "i", "n", "e">>, "STDFUNC"),
    D(<<"s", "q", "r", "t">>, "STDFUNC"),
    D(<<"t", "e", "x", "t", "u", "r", "e">>, "STDFUNC"),
    D(<<"t", "r", "a", "n", "s", "f", "o", "r", "m">>, "STDFUNC"),
    D(<<"t", "r", "a", "n", "s", "l", "a", "t", "e">>, "STDFUNC"),
    D(<<"v", "t", "r", "a", "n", "s", "f", "o", "r", "m">>, "STDFUNC")
  >>

-----------------------------------------------------------------------------
(* initSortedTable: qsort by descending lexeme length.  qsort is not      *)
(* stable, so the order among equal lengths is the library's; TieOrder    *)
(* takes the two orders the entries of one length can end up in.         *)
OfLength(L) == LET g == SelectSeq(sTokenDefs, LAMBDA d : Len(d.s) = L)
               IN IF TieOrder = "stable" THEN g ELSE Reverse(g)

RECURSIVE SortedFrom(_)
SortedFrom(L) == IF L = 0 THEN <<>> ELSE OfLength(L) \o SortedFrom(L - 1)

MaxDefLen == 15

\* the table as declared, as if initSortedTable had not run
SortedDefsUnsorted == sTokenDefs

\* the entries in _sTokenDefsIdxInvSortLen order; the NULL entries, of
\* length 0, come last
SortedDefs == SortedFrom(MaxDefLen)

(* matchTokenDef's loop starts at j = 1, the slot that held T_UNKNOWN     *)
(* before sorting; after sorting, slot 0 holds the longest lexeme.        *)
MatchCandidates == Tail(SortedDefs)

NUL == "NUL"

\* pSource[k], with the terminating 0 at sourceSize
At(k) == IF k < Len(src) THEN src[k + 1] ELSE NUL

Whites == {" ", "\t", "\n", "\r", "\f"}

Digits == {"0", "1", "2", "3", "4", "5", "6", "7", "8", "9"}

isDigit(ch) == ch \in Digits

(* matches: compares until the source or the pattern ends, so a pattern   *)
(* that runs past the end of the source matches.                          *)
matches(k, pat) == \A n \in 0..(Len(pat) - 1) : k + n < Len(src) => src[k + n + 1] = pat[n + 1]

Fresh == [str |-> <<>>, idType |-> "UNKNOWN", ws |-> FALSE, bad |-> FALSE]

\* a new token even when the current one is still empty
newTokenAlways(ts) == Append(ts, Fresh)

newToken(ts) == IF ts[Len(ts)].str # <<>> THEN Append(ts, Fresh) ELSE ts

SetBack(ts, tok) == [ts EXCEPT ![Len(ts)] = tok]

AppendToBack(ts, cs) == [ts EXCEPT ![Len(ts)].str = @ \o cs]

-----------------------------------------------------------------------------
(* handleNumber's scan from position k, the token's text so far and       *)
(* whether a dot was seen: where it stops, the text, isBadNumber.         *)
RECURSIVE NumLoop(_, _, _)
NumLoop(k, str, gotDot) ==
  IF k >= Len(src) THEN [i |-> k, str |-> str, bad |-> FALSE]
  ELSE
    LET ch == src[k + 1]
        nextCh == At(k + 1)
        took == IF nextCh # NUL THEN <<ch, nextCh>> ELSE <<ch>>
        after == IF nextCh # NUL THEN k + 2 ELSE k + 1
    IN CASE isDigit(ch) -> NumLoop(k + 1, str \o <<ch>>, gotDot)
         [] ch = "." /\ gotDot -> [i |-> k, str |-> str, bad |-> TRUE]
         [] ch = "." -> NumLoop(k + 1, str \o <<ch>>, TRUE)
         [] ch \in {"f", "F", "d", "D"} -> [i |-> k + 1, str |-> str \o <<ch>>, bad |-> FALSE]
         [] ch \in {"e", "E"} /\ (nextCh \in {"+", "-"} \/ isDigit(nextCh)) ->
                NumLoop(after, str \o took, gotDot)
         [] ch \in {"e", "E"} -> [i |-> after, str |-> str \o took, bad |-> TRUE]
         [] OTHER -> [i |-> k, str |-> str, bad |-> FALSE]

\* handleNumber returns true: a digit, or a dot followed by a digit
NumberStarts == isDigit(src[i + 1]) \/ (src[i + 1] = "." /\ isDigit(At(i + 1)))

\* matchTokenDef: the first candidate that matches at i
Matching == LET c == MatchCandidates IN {j \in 1..Len(c) : matches(i, c[j].s)}

\* findSkipWhites: the first position after i that is not whitespace
SkipWhites == CHOOSE k \in (i + 1)..Len(src) :
                  At(k) \notin Whites /\ \A n \in (i + 1)..(k - 1) : At(n) \in Whites

-----------------------------------------------------------------------------
(* The loop's branches, in the order Tokenizer tries them.                *)
Running == i < Len(src)

InComment ==
    /\ Running
    /\ isInComment
    /\ IF matches(i, <<"*", "/">>)
         THEN i' = i + 2 /\ isInComment' = FALSE
         ELSE i' = i + 1 /\ UNCHANGED isInComment
    /\ UNCHANGED <<given, src, tokens, isInString, wasPrecededByWS>>

OpenComment ==
    /\ Running
    /\ ~isInComment
    /\ matches(i, <<"/", "*">>)
    /\ i' = i + 2
    /\ isInComment' = TRUE
    /\ UNCHANGED <<given, src, tokens, isInString, wasPrecededByWS>>

NotComment == Running /\ ~isInComment /\ ~matches(i, <<"/", "*">>)

HandleNumber ==
    /\ NotComment
    /\ NumberStarts
    /\ LET r == NumLoop(i, <<>>, FALSE)
           ts == newToken(tokens)
       IN /\ tokens' = newToken(SetBack(ts, [ts[Len(ts)] EXCEPT !.idType = "NUMBER",
                                              !.str = @ \o r.str, !.bad = r.bad]))
          /\ i' = r.i
    /\ UNCHANGED <<given, src, isInString, isInComment, wasPrecededByWS>>

NotNumber == NotComment /\ ~NumberStarts

Quote ==
    /\ NotNumber
    /\ src[i + 1] = "\""
    /\ wasPrecededByWS' = FALSE
    /\ i' = i + 1
    /\ IF isInString /\ ~isEscape
         THEN /\ tokens' = newToken(AppendToBack(tokens, <<"\"">>))
              /\ isInString' = FALSE
         ELSE /\ tokens' = LET ts == newToken(tokens)
                           IN SetBack(ts, [ts[Len(ts)] EXCEPT !.str = @ \o <<"\"">>,
                                                              !.idType = "STRING"])
              /\ isInString' = TRUE
    /\ UNCHANGED <<given, src, isInComment>>

NotQuote == NotNumber /\ src[i + 1] # "\""

SkipWhite ==
    /\ NotQuote
    /\ src[i + 1] \in Whites
    /\ i' = SkipWhites
    /\ wasPrecededByWS' = TRUE
    /\ tokens' = newToken(tokens)
    /\ UNCHANGED <<given, src, isInString, isInComment>>

MatchTokenDef ==
    /\ NotQuote
    /\ src[i + 1] \notin Whites
    /\ Matching # {}
    /\ LET d == MatchCandidates[Min(Matching)]
           ts == newToken(tokens)
       IN /\ tokens' = newToken(SetBack(ts, [str |-> d.s, idType |-> d.t,
                                             ws |-> wasPrecededByWS, bad |-> FALSE]))
          /\ i' = i + Len(d.s)
    /\ wasPrecededByWS' = FALSE
    /\ UNCHANGED <<given, src, isInString, isInComment>>

AppendChar ==
    /\ NotQuote
    /\ src[i + 1] \notin Whites
    /\ Matching = {}
    /\ tokens' = AppendToBack(tokens, <<src[i + 1]>>)
    /\ i' = i + 1
    /\ wasPrecededByWS' = FALSE
    /\ UNCHANGED <<given, src, isInString, isInComment>>

-----------------------------------------------------------------------------
\* tokens separated by single spaces, and the line's end
RECURSIVE Render(_)
Render(ts) == IF ts = <<>> THEN <<"\n">>
              ELSE Head(ts).str \o (IF Len(ts) > 1 THEN <<" ">> ELSE <<>>) \o Render(Tail(ts))

(* Tokenizer's locals on entry, for the text c followed by g rendered.     *)
Start(g, c) ==
    /\ given = g
    /\ src = c \o Render(g)
    /\ i = 0
    /\ tokens = <<Fresh>>
    /\ isInString = FALSE
    /\ isInComment = FALSE
    /\ wasPrecededByWS = FALSE

Init ==
    \E n \in 1..MaxTokens, c \in Comments \cup {<<>>} :
      \E g \in [1..n -> ValidTokens] : Start(g, c)

Next == InComment \/ OpenComment \/ HandleNumber \/ Quote \/ SkipWhite
        \/ MatchTokenDef \/ AppendChar

\* Tokenizer returns when i reaches sourceSize
Spec == Init /\ [][Next]_vars /\ WF_vars(Next)

-----------------------------------------------------------------------------
(* Properties                                                              *)

TypeOK ==
    /\ i \in 0..Len(src)
    /\ \A k \in 1..Len(tokens) :
          /\ tokens[k].str \in Seq(STRING)
          /\ tokens[k].idType \in {"UNKNOWN", "NUMBER", "STRING", "OPERATOR",
                                   "DATATYPE", "KEYWORD", "STDFUNC"}
          /\ tokens[k].ws \in BOOLEAN
          /\ tokens[k].bad \in BOOLEAN
    \* newToken: only the token being built may be empty
    /\ \A k \in 1..(Len(tokens) - 1) : tokens[k].str # <<>>
    /\ isInString \in BOOLEAN
    /\ isInComment \in BOOLEAN
    /\ wasPrecededByWS \in BOOLEAN

\* the token sequence the parser sees: lexeme and class of each non-empty token
Lexemes == LET ne == SelectSeq(tokens, LAMBDA t : t.str # <<>>)
           IN [k \in 1..Len(ne) |-> [str |-> ne[k].str, idType |-> ne[k].idType]]

(* spec.md section 8, "lexer round-trip": a sequence of valid tokens       *)
(* written out with single spaces is lexed by Tokenizer back into the     *)
(* same lexemes with the same classes.                                    *)
RoundTrip == i >= Len(src) => Lexemes = given

====
