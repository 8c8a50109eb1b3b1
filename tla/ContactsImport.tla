---------------------------- MODULE ContactsImport ----------------------------
(***************************************************************************)
(* ContactsService: imports of files into the contacts of a tenant, side   *)
(* by side with each other and with contacts that are created one by one.  *)
(* An import awaits one upsert per row; a failure ends it and takes        *)
(* nothing back.  The texts are those of ContactsCsv.                      *)
(***************************************************************************)
EXTENDS ContactsCsv

CONSTANTS
    Imports,         \* requests to import
    Rows,            \* rows that occur: [phone, wa, consent]
    Created,         \* bodies of contacts created one by one: a phone, perhaps wa and consent
    MaxPhone,        \* 20: characters the column phone_e164 takes
    MaxWa,           \* 40: characters of wa_id
    MaxConsent,      \* 20: characters of consent_status; the default fits
    MaxRows,         \* bound: rows of a file
    MaxCreates,      \* bound: contacts created one by one
    MaxFaults        \* bound: failed queries

\* A sign comes before the digits, and "phone" is what a header says.
ASSUME RowsAssumption ==
    \A row \in Rows :
        /\ Cell(row.phone) /\ Cell(row.wa) /\ Cell(row.consent)
        /\ row.phone # <<>> /\ ~Contains(row.phone, "phone")
        /\ \A k \in DOMAIN row.phone : row.phone[k] = "+" =>
              \A j \in 1..k - 1 : row.phone[j] \notin Digits \cup {"+"}
ASSUME BoundsAssumption ==
    /\ MaxRows \in Nat /\ MaxCreates \in Nat /\ MaxFaults \in Nat
    /\ MaxPhone \in Nat /\ MaxWa \in Nat /\ MaxConsent \in Nat \ {0}

VARIABLES
    contacts,        \* number -> the row's wa_id and consent_status
    imports,         \* per import: file, values of its lines, next line, counts, status
    creates, faults

vars == <<contacts, imports, creates, faults>>

Files == [rows : BoundedSeq(Rows, MaxRows), header : BOOLEAN, quoted : BOOLEAN]
NoFile == [rows |-> <<>>, header |-> FALSE, quoted |-> FALSE]

\* The stored row of a line (||): an empty wa_id is null, an empty consent is
\* opted_in.  <<>> stands for null.
Stored(wa, consent) == [wa |-> wa, consent |-> IF consent = <<>> THEN <<"opted_in">> ELSE consent]

\* The stored row of a body (??): only what is missing is replaced, and an empty
\* consent stays empty.  (An empty wa_id, <<>> as well, is not told from null.)
Given(body) == [wa |-> IF "wa" \in DOMAIN body THEN body.wa ELSE <<>>,
                consent |-> IF "consent" \in DOMAIN body THEN body.consent ELSE <<"opted_in">>]

\* The columns take texts of so many characters, and none with the character zero.
Takes(max, text) == Len(text) <= max /\ \A k \in DOMAIN text : text[k] # "NUL"
Fits(phone, row) == Takes(MaxPhone, phone) /\ Takes(MaxWa, row.wa) /\ Takes(MaxConsent, row.consent)

TypeOK ==
    /\ \A p \in DOMAIN contacts : Fits(p, contacts[p])
    /\ \A i \in Imports :
        /\ Len(imports[i].file.rows) <= MaxRows /\ imports[i].next \in 1..MaxRows + 2
        /\ imports[i].total \in 0..MaxRows
        /\ imports[i].imported + imports[i].invalid <= imports[i].total
        /\ imports[i].status \in {"new", "running", "done", "failed"}
    /\ creates \in 0..MaxCreates /\ faults \in 0..MaxFaults

Init ==
    /\ contacts = <<>>
    /\ imports = [i \in Imports |-> [file |-> NoFile, lines |-> <<>>, next |-> 1, total |-> 0,
                                     imported |-> 0, invalid |-> 0, status |-> "new"]]
    /\ creates = 0 /\ faults = 0

-----------------------------------------------------------------------------
\* A slip: a contact that is there stays as it is.
UpsertKeeps(phone, row) ==
    contacts' = [p \in DOMAIN contacts \cup {phone} |->
                    IF p \in DOMAIN contacts THEN contacts[p] ELSE row]

\* insert ... on conflict (tenant_id, phone_e164) do update
Upsert(phone, row) ==
    contacts' = [p \in DOMAIN contacts \cup {phone} |-> IF p = phone THEN row ELSE contacts[p]]

Running(i) == imports[i].status = "running"
Line(i) == imports[i].lines[imports[i].next]
More(i) == imports[i].next <= Len(imports[i].lines)

\* A slip: the first line is always a header.
IsHeaderAlways(i) == imports[i].next = 1

IsHeader(i) == imports[i].next = 1 /\ Contains(Line(i)[1], "phone")

\* The lines are split; that each is parsed when its turn comes makes no difference.
ValuesOf == [file \in Files |-> LET lines == Lines(Content(file)) IN
                                [k \in DOMAIN lines |-> ParseCsvLine(lines[k])]]

Start(i, file) ==
    /\ imports[i].status = "new"
    /\ imports' = [imports EXCEPT ![i].file = file, ![i].lines = ValuesOf[file],
                                  ![i].status = "running"]
    /\ UNCHANGED <<contacts, creates, faults>>

SkipHeader(i) ==
    /\ Running(i) /\ More(i) /\ IsHeader(i)
    /\ imports' = [imports EXCEPT ![i].next = @ + 1]
    /\ UNCHANGED <<contacts, creates, faults>>

\* A slip: a row without a number is not one of the total.
SkipInvalidUncounted(i) ==
    /\ Running(i) /\ More(i) /\ ~IsHeader(i) /\ NormalizePhone(Line(i)[1]) = <<>>
    /\ imports' = [imports EXCEPT ![i].next = @ + 1, ![i].invalid = @ + 1]
    /\ UNCHANGED <<contacts, creates, faults>>

SkipInvalid(i) ==
    /\ Running(i) /\ More(i) /\ ~IsHeader(i) /\ NormalizePhone(Line(i)[1]) = <<>>
    /\ imports' = [imports EXCEPT ![i].next = @ + 1, ![i].total = @ + 1, ![i].invalid = @ + 1]
    /\ UNCHANGED <<contacts, creates, faults>>

\* A row with a number, whose values fit their columns.
ImportRow(i) ==
    LET values == Line(i)
        phone == NormalizePhone(values[1])
        row == Stored(Value(values, 2), Value(values, 3))
    IN  /\ Running(i) /\ More(i) /\ ~IsHeader(i) /\ phone # <<>> /\ Fits(phone, row)
        /\ Upsert(phone, row)
        /\ imports' = [imports EXCEPT ![i].next = @ + 1, ![i].total = @ + 1, ![i].imported = @ + 1]
        /\ UNCHANGED <<creates, faults>>

\* The query throws: a value does not fit, or the database fails, done or not.
RowFails(i) ==
    LET values == Line(i)
        phone == NormalizePhone(values[1])
        row == Stored(Value(values, 2), Value(values, 3))
    IN  /\ Running(i) /\ More(i) /\ ~IsHeader(i) /\ phone # <<>>
        /\ \/ ~Fits(phone, row) /\ UNCHANGED <<contacts, faults>>
           \/ /\ Fits(phone, row) /\ faults < MaxFaults /\ faults' = faults + 1
              /\ Upsert(phone, row) \/ UNCHANGED contacts
        /\ imports' = [imports EXCEPT ![i].total = @ + 1, ![i].status = "failed"]
        /\ UNCHANGED creates

Answer(i) ==
    /\ Running(i) /\ ~More(i)
    /\ imports' = [imports EXCEPT ![i].status = "done"]
    /\ UNCHANGED <<contacts, creates, faults>>

\* POST contacts: the number is stored as it was written.  A body that does not
\* fit is refused by the query, which changes nothing.
Create(body) ==
    /\ creates < MaxCreates /\ Fits(body.phone, Given(body))
    /\ creates' = creates + 1
    /\ Upsert(body.phone, Given(body))
    /\ UNCHANGED <<imports, faults>>

Step(i) == SkipHeader(i) \/ SkipInvalid(i) \/ ImportRow(i) \/ RowFails(i) \/ Answer(i)

Next ==
    \/ \E i \in Imports : Step(i) \/ \E file \in Files : Start(i, file)
    \/ \E body \in Created : Create(body)

Spec == Init /\ [][Next]_vars
-----------------------------------------------------------------------------
\* The spreadsheet the file came from, read without looking at the file.
Kept(text) == {k \in DOMAIN text : text[k] \in Digits \cup {"+"}}
IsNumber(text) == Cardinality(Kept(text)) >= MinLength
Number(text) == <<"+">> \o Only(text, Digits)
Valid(file) == {k \in DOMAIN file.rows : IsNumber(file.rows[k].phone)}
Numbers(file) == {Number(file.rows[k].phone) : k \in Valid(file)}
LastRow(file, number) ==
    file.rows[Max({k \in Valid(file) : Number(file.rows[k].phone) = number})]
RowOf(row) == Stored(row.wa, row.consent)

\* Rows of the file an import has been through.
Through(i) == imports[i].next - 1 - IF imports[i].file.header /\ imports[i].next > 1 THEN 1 ELSE 0

(***************************************************************************)
(* An answer tells what was in the spreadsheet: its rows, and which of     *)
(* them have no number.  While no query failed, an import that ended early *)
(* stopped at a row with a number, one of whose values does not fit its    *)
(* column: at every repetition it stops there again.                       *)
(***************************************************************************)
AnswerTellsFile ==
    \A i \in Imports : LET file == imports[i].file IN
        /\ imports[i].status = "done" =>
            /\ imports[i].total = Len(file.rows)
            /\ imports[i].imported = Cardinality(Valid(file))
            /\ imports[i].invalid = imports[i].total - imports[i].imported
        /\ imports[i].status = "failed" /\ faults = 0 =>
            LET row == file.rows[Through(i) + 1] IN
            IsNumber(row.phone) /\ ~Fits(Number(row.phone), RowOf(row))

(***************************************************************************)
(* The rows an import has been through are contacts, each under its one    *)
(* number however it was spelled, and stay when the import fails later.    *)
(***************************************************************************)
ImportedKept ==
    \A i \in Imports : \A k \in 1..Through(i) :
        k \in Valid(imports[i].file) => Number(imports[i].file.rows[k].phone) \in DOMAIN contacts

(***************************************************************************)
(* A contact is never mixed from two rows: what is stored for a number is  *)
(* what one row of a file, or one creation, says of it.                    *)
(***************************************************************************)
RowsFromFiles ==
    \A p \in DOMAIN contacts :
        \/ \E i \in Imports : \E k \in Valid(imports[i].file) :
               LET row == imports[i].file.rows[k] IN
               Number(row.phone) = p /\ RowOf(row) = contacts[p]
        \/ creates > 0 /\ \E body \in Created : body.phone = p /\ Given(body) = contacts[p]

(***************************************************************************)
(* A file that is sent again, even while the first import runs, leaves     *)
(* what one import leaves, the last row of each number, once all are done. *)
(***************************************************************************)
RepeatChangesNothing ==
    LET started == {i \in Imports : imports[i].status # "new"} IN
    creates = 0 /\ started # {} /\ (\A i \in started : imports[i].status = "done") =>
        \A file \in {imports[i].file : i \in started} :
            (\A i \in started : imports[i].file = file) =>
                /\ DOMAIN contacts = Numbers(file)
                /\ \A p \in DOMAIN contacts : contacts[p] = RowOf(LastRow(file, p))
===============================================================================
