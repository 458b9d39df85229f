------------------------------ MODULE Settings ------------------------------
(* The settings: settings/services.py, their pages and the choice of a     *)
(* theme in admin/routes.py, and the command seed-settings.                *)
(*                                                                         *)
(* A value is stored as text, shown decoded, and comes back as the text of *)
(* a form that may have been open for long, in several windows.            *)
(*                                                                         *)
(* Left out: descriptions, who changed a setting, the audit row (a commit  *)
(* of its own, after the setting's), and the cache of values read, which   *)
(* lasts for one request and which set_value empties.                      *)
EXTENDS FiniteSets

CONSTANTS
  Keys,      \* names of settings
  Theme,     \* "ui.theme", which any administrator sets
  Seeds,     \* the settings that the application brings along
  Tabs,      \* windows in which a form is open
  Types,     \* types in use
  Typed      \* bound: what is typed into a form

Blank == ""      \* an empty field
Quoted == {"'7'", "'true'", "'yes'"}   \* strings, as JSON writes them
Texts == {Blank, "0", "7", "7.0", "0.0", "0.00", "7.00", "yes", "true", "false", "True",
          "False", "null"} \cup Quoted
Null == "NULL"

SettingsAssumption ==
  /\ Types \subseteq {"string", "int", "bool", "json", "decimal"}
  /\ Theme \in Keys /\ Seeds \subseteq Keys /\ Typed \subseteq Texts
  /\ "string" \in Types

VARIABLES
  setting,   \* the rows
  page,      \* the form that each window shows
  sent       \* the last form that was sent as it had been shown

vars == <<setting, page, sent>>

Row == [type : Types, value : Texts \cup {Null}, secret : BOOLEAN]
NoRow == [type |-> "none"]
Exists(k) == setting[k] # NoRow

(* text: what the field holds; was: the value when it was shown; bare: it  *)
(* was a secret JSON string, which is revealed without its quotes.         *)
NoForm == [key |-> "none", text |-> Blank]
Form == [key : Keys, type : Types, secret : BOOLEAN, text : Texts, was : Texts]
NotSent == [expected |-> Blank, got |-> Blank, bare |-> FALSE]

Init ==
  /\ setting = [k \in Keys |-> NoRow]
  /\ page = [t \in Tabs |-> NoForm] /\ sent = NotSent

-----------------------------------------------------------------------------
(* _decode, as text: NULL is the empty value of the type.                  *)
Empty(type) == CASE type = "string" -> Blank [] type = "int" -> "0"
                 [] type = "bool" -> "false" [] type = "json" -> "null"
                 [] type = "decimal" -> "0.00"
Value(row) == IF row.value = Null THEN Empty(row.type) ELSE row.value

(* _coerce_form_value, then _encode: what is stored for a text, if it is a *)
(* value of the type.                                                      *)
Refused == "refused"
Numbers == [int     |-> {<<"0", "0">>, <<"7", "7">>, <<Blank, "0">>},
            json    |-> {<<"0", "0">>, <<"7", "7">>, <<"7.0", "7.0">>,
                         <<"7.00", "7.0">>, <<"0.0", "0.0">>, <<"0.00", "0.0">>,
                         <<"true", "true">>,
                         <<"false", "false">>, <<"null", Null>>, <<Blank, Null>>}
                        \cup {<<q, q>> : q \in Quoted},
            decimal |-> {<<"0", "0.00">>, <<"7", "7.00">>, <<"7.0", "7.00">>,
                         <<"7.00", "7.00">>, <<"0.0", "0.00">>, <<"0.00", "0.00">>}]

Saved(text, type) ==
  CASE type = "string" -> text
    [] type = "bool" -> IF text \in {"true", "True", "yes"} THEN "true" ELSE "false"
    [] OTHER -> IF \E p \in Numbers[type] : p[1] = text
                THEN (CHOOSE p \in Numbers[type] : p[1] = text)[2] ELSE Refused

(* An empty field for a secret: the value as get reads it, encoded again.  *)
Reread(row) ==
  IF row.value = Null /\ row.type # "json" THEN Empty(row.type) ELSE row.value

-----------------------------------------------------------------------------
(* set_value: the key's row is made or updated; the type may change.       *)
SetValue(k, type, value, secret) ==
  setting' = [setting EXCEPT ![k] = [type |-> type, value |-> value, secret |-> secret]]

(* settings_new: a key that exists is refused, and so is a bad value.      *)
NewSetting(k, type, text, secret) ==
  /\ ~Exists(k) /\ Saved(text, type) # Refused
  /\ SetValue(k, type, Saved(text, type), secret)
  /\ UNCHANGED <<page, sent>>

(* set_theme: whatever type the row had, it is a string afterwards.        *)
SetTheme(text) ==
  /\ SetValue(Theme, "string", text, Exists(Theme) /\ setting[Theme].secret)
  /\ UNCHANGED <<page, sent>>

(* ensure_seed_settings: rows that are missing.                            *)
Seed(default) ==
  /\ setting' = [k \in Keys |-> IF k \in Seeds /\ ~Exists(k) THEN default ELSE setting[k]]
  /\ UNCHANGED <<page, sent>>

(* settings_edit: a secret's field is empty (mask_for_display masks it).   *)
Show(t, k) ==
  /\ Exists(k)
  /\ page' = [page EXCEPT ![t] =
       [key |-> k, type |-> setting[k].type, secret |-> setting[k].secret,
        text |-> IF setting[k].secret THEN Blank ELSE Value(setting[k]),
        was |-> Value(setting[k])]]
  /\ UNCHANGED <<setting, sent>>

(* The value as Python writes it; None as nothing, a string bare.          *)
Written(row) ==
  IF row.type \in {"bool", "json"} THEN
    CASE Value(row) = "true" -> "True" [] Value(row) = "false" -> "False"
      [] Value(row) = "null" -> Blank
      [] Value(row) = "'7'" -> "7" [] Value(row) = "'true'" -> "true"
      [] Value(row) = "'yes'" -> "yes" [] OTHER -> Value(row)
  ELSE Value(row)

Reveal(t) ==
  /\ page[t] # NoForm /\ page[t].secret
  /\ LET row == setting[page[t].key] IN
       page' = [page EXCEPT ![t].text = Written(row), ![t].was = Value(row),
                            ![t].type = row.type]
  /\ UNCHANGED <<setting, sent>>

(* The form is sent with a text and a choice of secrecy; the row's own     *)
(* secrecy, not the form's, decides what an empty field means.             *)
Kept(row, text) == row.secret /\ text = Blank
Result(row, text) == IF Kept(row, text) THEN Reread(row) ELSE Saved(text, row.type)

Send(t, text, secret) ==
  LET f == page[t]
      row == setting[f.key]
      value == Result(row, text)
      new == [type |-> row.type, value |-> value, secret |-> secret]
  IN
  /\ f # NoForm /\ value # Refused
  /\ SetValue(f.key, row.type, value, secret)
  /\ sent' = IF text = f.text /\ row.secret = f.secret /\ row.type = f.type
             THEN [expected |-> IF Kept(row, text) THEN Value(row) ELSE f.was,
                   got |-> Value(new),
                   bare |-> /\ ~Kept(row, text)
                            /\ f.secret /\ f.type = "json" /\ f.was \in Quoted]
             ELSE NotSent
  /\ page' = [page EXCEPT ![t] = NoForm]

(* An error: the form is shown again.                                      *)
Leave(t) ==
  /\ page[t] # NoForm /\ page' = [page EXCEPT ![t] = NoForm]
  /\ UNCHANGED <<setting, sent>>

NewPage ==
  \E k \in Keys, type \in Types, text \in Typed, b \in BOOLEAN : NewSetting(k, type, text, b)
EditPage ==
  \E t \in Tabs :
    \/ \E k \in Keys : Show(t, k)
    \/ Reveal(t) \/ Leave(t)
    \/ \E text \in Typed \cup {page[t].text}, b \in BOOLEAN : Send(t, text, b)
Command ==
  \E type \in Types, text \in Typed :
    Saved(text, type) = text /\ Seed([type |-> type, value |-> text, secret |-> FALSE])

Next == NewPage \/ EditPage \/ Command \/ \E text \in Typed : SetTheme(text)

Spec == Init /\ [][Next]_vars

-----------------------------------------------------------------------------
SettingsTypeOK ==
  /\ setting \in [Keys -> Row \cup {NoRow}]
  /\ page \in [Tabs -> Form \cup {NoForm}]
  /\ sent \in [expected : Texts, got : Texts, bare : BOOLEAN]

(* A form that is sent as it was shown leaves the setting at the value it  *)
(* showed, and a secret whose field is left empty at the value it has,     *)
(* through storing, decoding, masking and revealing; but for a secret      *)
(* JSON string, which comes back as the number or the truth value that it  *)
(* spells (settings_edit, _coerce_form_value, _encode, _decode,            *)
(* mask_for_display).                                                      *)
SavedAsShown == sent.bare \/ sent.got = sent.expected
=============================================================================
