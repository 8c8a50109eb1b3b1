--------------------------- MODULE MC_ContactsImport ---------------------------
(* ContactsImport for TLC: a number spelled in two ways, another one, one  *)
(* that is too short, a wa_id that is too long for its column, values with *)
(* quotes and commas, and a body with no wa_id and an empty consent.       *)
EXTENDS ContactsImport, TLC

Row(phone, wa, consent) == [phone |-> phone, wa |-> wa, consent |-> consent]
Short == <<"1", "2">>
Plain == <<"1", "2", "1">>
Spelled == <<"+", "1", " ", "2", "-", "1">>

MCRows == {Row(Plain, <<>>, <<>>), Row(Spelled, <<"w", Quote, Comma>>, <<"out">>),
           Row(<<Quote>> \o Plain \o <<Comma, "2">>, <<>>, <<"out">>),
           Row(Short, <<"w">>, <<>>), Row(Plain, <<"w", "w", "w", "w">>, <<>>)}
MCCreated == {[phone |-> <<"+">> \o Plain, consent |-> <<>>]}
Symmetry == Permutations(Imports)
================================================================================
