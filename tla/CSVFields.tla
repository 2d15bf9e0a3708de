------------------------------ MODULE CSVFields ------------------------------
(***************************************************************************)
(* The text of one row: CSVWriter::escape, the commas between the fields   *)
(* and the end of the line, against a reader of the format.                *)
(*                                                                         *)
(* A field is a sequence of characters.  Those that matter are the four    *)
(* which escape looks for; Other stands for the rest.                      *)
(***************************************************************************)
EXTENDS Integers, Sequences, FiniteSets, SequencesExt

CONSTANTS Comma, Quote, NewLine, Return, Other

Char == {Comma, Quote, NewLine, Return, Other}

ASSUME CSVFieldsAssumption == Cardinality(Char) = 5

-----------------------------------------------------------------------------
\* Mutant: a line break needs no quotes.
NeedsQuotingNoBreak(field) == \E k \in 1 .. Len(field) : field[k] \in {Comma, Quote}

NeedsQuoting(field) ==
  \E k \in 1 .. Len(field) : field[k] \in {Comma, Quote, NewLine, Return}

Doubled(field) ==
  FlattenSeq([k \in 1 .. Len(field) |->
                IF field[k] = Quote THEN <<Quote, Quote>> ELSE <<field[k]>>])

Escape(field) ==
  IF NeedsQuoting(field) THEN <<Quote>> \o Doubled(field) \o <<Quote>> ELSE field

\* The row, a sequence of fields, as it is in the file.
Line(row) ==
  FlattenSeq([k \in 1 .. Len(row) |->
                Escape(row[k]) \o IF k < Len(row) THEN <<Comma>> ELSE <<NewLine>>])

-----------------------------------------------------------------------------
(***************************************************************************)
(* A reader of RFC 4180.  Its state: the rows it has ended, the fields of  *)
(* the present row, the last of them unfinished, and whether it is outside *)
(* of quotes, inside, or behind a quote that ends them or is to be doubled.*)
(***************************************************************************)
Reader == [rows |-> <<>>, row |-> << <<>> >>, at |-> "outside"]

Add(r, c) ==
  [r EXCEPT !.row[Len(r.row)] = Append(@, c)]

EndField(r) == [r EXCEPT !.row = Append(@, <<>>), !.at = "outside"]

EndRow(r) == [rows |-> Append(r.rows, r.row), row |-> << <<>> >>, at |-> "outside"]

ReadChar(r, c) ==
  CASE r.at = "inside" /\ c # Quote -> Add(r, c)
    [] r.at = "inside" /\ c = Quote -> [r EXCEPT !.at = "behind"]
    [] r.at = "behind" /\ c = Quote -> [Add(r, c) EXCEPT !.at = "inside"]
    [] r.at = "outside" /\ c = Quote -> [r EXCEPT !.at = "inside"]
    [] r.at # "inside" /\ c = Comma -> EndField(r)
    [] r.at # "inside" /\ c \in {NewLine, Return} -> EndRow(r)
    [] OTHER -> Add(r, c)

Read(text) == FoldLeft(ReadChar, Reader, text)

=============================================================================
