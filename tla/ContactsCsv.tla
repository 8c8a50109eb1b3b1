------------------------------ MODULE ContactsCsv ------------------------------
(***************************************************************************)
(* The text side of ContactsService: a file, a line and a number are       *)
(* sequences of characters.  A character is a string of length one, and    *)
(* "phone", which stands for a header, and the line ends are one each.     *)
(***************************************************************************)
EXTENDS Integers, SequencesExt

CONSTANTS
    Digits,          \* the digits that occur
    MinLength        \* 8: a shorter number is no number
ASSUME MinLengthAssumption == MinLength \in Nat \ {0}
ASSUME DigitsAssumption == "+" \notin Digits

Quote == "\""
Comma == ","
Blank == {" ", "CR"}

\* String.trim
Trim(s) == LET solid == {i \in DOMAIN s : s[i] \notin Blank} IN
           IF solid = {} THEN <<>> ELSE SubSeq(s, Min(solid), Max(solid))

\* Array.filter and String.replace: the elements of s that are in set.
Keep(set, kept, c) == IF c \in set THEN Append(kept, c) ELSE kept
Only(s, set) == FoldLeft(LAMBDA kept, c : Keep(set, kept, c), <<>>, s)

\* The lines of a file without their line ends, those that are blank left out.
SplitChar(lines, c) == IF c = "LF" THEN Append(lines, <<>>)
                       ELSE [lines EXCEPT ![Len(lines)] = Append(@, c)]
NotBlank(lines, line) == IF Trim(line) = <<>> THEN lines ELSE Append(lines, Trim(line))
Split(content) == FoldLeft(SplitChar, <<<<>>>>, content)
Lines(content) == FoldLeft(NotBlank, <<>>, Split(content))

\* A slip: two quotes inside quotes are two quotes.
ParseCsvLineNoEscape(line) ==
    LET Char(st, c) ==
            CASE c = Quote -> [st EXCEPT !.inQuotes = ~@]
              [] c = Comma /\ ~st.inQuotes ->
                     [st EXCEPT !.values = Append(@, Trim(st.current)), !.current = <<>>]
              [] OTHER -> [st EXCEPT !.current = Append(@, c)]
        end == FoldLeft(Char, [values |-> <<>>, current |-> <<>>, inQuotes |-> FALSE], line)
    IN Append(end.values, Trim(end.current))

\* One pass over the characters; the second of two quotes is skipped.
State(values, current, inQuotes, skip) ==
    [values |-> values, current |-> current, inQuotes |-> inQuotes, skip |-> skip]
Parsing == State(<<>>, <<>>, FALSE, FALSE)
Doubled(line, st, i) == st.inQuotes /\ i < Len(line) /\ line[i + 1] = Quote
ParseChar(line, st, i) ==
    CASE st.skip -> State(st.values, st.current, st.inQuotes, FALSE)
      [] ~st.skip /\ line[i] = Quote ->
             IF Doubled(line, st, i) THEN State(st.values, Append(st.current, Quote), TRUE, TRUE)
             ELSE State(st.values, st.current, ~st.inQuotes, FALSE)
      [] ~st.skip /\ line[i] = Comma /\ ~st.inQuotes ->
             State(Append(st.values, Trim(st.current)), <<>>, FALSE, FALSE)
      [] OTHER -> State(st.values, Append(st.current, line[i]), st.inQuotes, FALSE)
ParseCsvLine(line) ==
    LET end == FoldLeftDomain(LAMBDA st, i : ParseChar(line, st, i), Parsing, line)
    IN Append(end.values, Trim(end.current))

\* A value of a line, <<>> when it has fewer.
Value(values, k) == IF k <= Len(values) THEN values[k] ELSE <<>>

\* A slip: the sign is only there when it was written.
NormalizePhoneAsWritten(value) ==
    LET cleaned == Only(value, Digits \cup {"+"}) IN
    IF Len(cleaned) < MinLength THEN <<>> ELSE cleaned

\* The number with its sign, or <<>> for null.
NormalizePhone(value) ==
    LET cleaned == Only(value, Digits \cup {"+"}) IN
    IF Len(cleaned) < MinLength THEN <<>>
    ELSE IF cleaned[1] = "+" THEN cleaned ELSE <<"+">> \o cleaned

-----------------------------------------------------------------------------
\* A cell of a spreadsheet: no line ends, no blanks at its ends.
Cell(text) ==
    /\ text \in Seq(STRING) /\ \A k \in DOMAIN text : text[k] # "LF"
    /\ text # <<>> => text[1] \notin Blank /\ text[Len(text)] \notin Blank

\* How a spreadsheet writes a row: quotes everywhere, or only where they are
\* needed and no more values than there are.
Escape(written, c) == written \o IF c = Quote THEN <<Quote, Quote>> ELSE <<c>>
Quoted(text) == Append(FoldLeft(Escape, <<Quote>>, text), Quote)
Written(text, all) == IF all \/ \E i \in DOMAIN text : text[i] \in {Quote, Comma} THEN Quoted(text)
                      ELSE text
WrittenRow(row, all) ==
    LET phone == Written(row.phone, all)
        wa == <<Comma>> \o Written(row.wa, all)
        consent == <<Comma>> \o Written(row.consent, all)
    IN CASE all \/ row.consent # <<>> -> phone \o wa \o consent
         [] ~all /\ row.consent = <<>> /\ row.wa # <<>> -> phone \o wa
         [] OTHER -> phone

\* A file: an optional header, the rows, and either kind of line end.
Header == [phone |-> <<"phone">>, wa |-> <<"w">>, consent |-> <<"c">>]
LinesOf(file) ==
    (IF file.header THEN <<WrittenRow(Header, FALSE)>> ELSE <<>>)
    \o [i \in DOMAIN file.rows |-> WrittenRow(file.rows[i], file.quoted)]
WriteLine(end, text, line) == text \o line \o end
Content(file) ==
    LET end == IF file.quoted THEN <<"CR", "LF">> ELSE <<"LF">>
    IN FoldLeft(LAMBDA text, line : WriteLine(end, text, line), <<>>, LinesOf(file))
===============================================================================
