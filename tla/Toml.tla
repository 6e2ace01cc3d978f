-------------------------------- MODULE Toml --------------------------------
(***************************************************************************)
(* How the server reads the file that describes a VM: the tokenizer, the   *)
(* parser, the dictionary and the constructor that looks its settings up   *)
(* (src/monitor/utils, src/monitor/libvirt/vm.cc).                         *)
(*                                                                         *)
(* A text is a sequence of symbols, each a delimiter or a piece of a word; *)
(* the pieces between two delimiters are one word.  A number is the word   *)
(* it is written with.                                                     *)
(***************************************************************************)
EXTENDS Naturals, Sequences, FiniteSets, TLC

LOCAL INSTANCE FiniteSetsExt
LOCAL INSTANCE SequencesExt

CONSTANT Digit   \* the pieces of words that are digits

Blank == {" ", "\t", "\n", "\r"}
Delimiter == {"[", "]", "{", "}", "=", ",", "'", "\"", "#"} \union Blank

Is(word, symbol) == word = <<symbol>>
OneOf(word, symbols) == \E s \in symbols : Is(word, s)
EndOfText == <<>>

-----------------------------------------------------------------------------
(* tokenizer *)

tokenizer(content) ==
  [content |-> Append(content, "\n"), cursor |-> 0, lastLocs |-> <<>>, doSkip |-> TRUE]

\* A word ends before the next delimiter; nothing is recorded at the end.
nextPure(tok) ==
  LET left == Len(tok.content) - tok.cursor
      stops == {n \in 0..left - 1 : tok.content[tok.cursor + n + 1] \in Delimiter}
      size == IF stops = {} THEN left ELSE Max({1, Min(stops)})
  IN IF left = 0 THEN [word |-> EndOfText, tok |-> tok]
     ELSE [word |-> SubSeq(tok.content, tok.cursor + 1, tok.cursor + size),
           tok |-> [tok EXCEPT !.cursor = @ + size,
                               !.lastLocs = Append(@, tok.cursor)]]

RECURSIVE comment(_)
comment(read) ==
  IF read.word = EndOfText \/ Is(read.word, "\n") THEN read.tok
  ELSE comment(nextPure(read.tok))

\* Mutant: a comment ends with its first word.
RECURSIVE nextEndsCommentEarly(_)
nextEndsCommentEarly(tok) ==
  LET read == nextPure(tok) IN
  IF Is(read.word, "#") THEN nextEndsCommentEarly(nextPure(read.tok).tok)
  ELSE IF tok.doSkip /\ OneOf(read.word, Blank) THEN nextEndsCommentEarly(read.tok)
  ELSE read

\* Comments are skipped everywhere, also between quotes; blanks only if told.
RECURSIVE next(_)
next(tok) ==
  LET read == nextPure(tok) IN
  IF Is(read.word, "#") THEN next(comment(read))
  ELSE IF tok.doSkip /\ OneOf(read.word, Blank) THEN next(read.tok)
  ELSE read

rewind(tok) ==
  [tok EXCEPT !.cursor = Last(tok.lastLocs), !.lastLocs = Front(@)]
skip(tok, enable) == [tok EXCEPT !.doSkip = enable]

-----------------------------------------------------------------------------
(* parser: a result, or the exception that ends it *)

Parsed(type, value, tok) ==
  [status |-> "parsed", value |-> [type |-> type, value |-> value], tok |-> tok]
Thrown(exception) == [status |-> exception]
Ok(result) == result.status = "parsed"

\* The longest prefix of the word that is a number, as stoi and stof take it.
numberPrefix(word, points) ==
  LET Point(i) == word[i] = "." /\ Cardinality({j \in 1..i : word[j] = "."}) <= points
      wrong == {i \in DOMAIN word : word[i] \notin Digit /\ ~ Point(i)}
  IN IF wrong = {} THEN word ELSE SubSeq(word, 1, Min(wrong) - 1)

ParsedNumber(type, read, points) ==
  LET number == numberPrefix(read.word, points)
  IN IF \A i \in DOMAIN number : number[i] = "." THEN Thrown("invalid_argument")
     ELSE Parsed(type, number, read.tok)

parse_int(tok) == ParsedNumber("long", next(tok), 0)
parse_float(tok) == ParsedNumber("float", next(tok), 1)

\* Mutant: the blanks of a string are skipped like all others.
RECURSIVE parse_string_skips(_, _, _)
parse_string_skips(tok, end, string) ==
  LET read == next(tok) IN
  IF read.word = EndOfText THEN Thrown("config_error")
  ELSE IF Is(read.word, end) THEN Parsed("string", string, skip(read.tok, TRUE))
  ELSE parse_string_skips(read.tok, end, string \o read.word)

RECURSIVE parse_string(_, _, _)
parse_string(tok, end, string) ==
  LET read == next(skip(tok, FALSE)) IN
  IF read.word = EndOfText THEN Thrown("config_error")
  ELSE IF Is(read.word, end) THEN Parsed("string", string, skip(read.tok, TRUE))
  ELSE parse_string(read.tok, end, string \o read.word)

RECURSIVE parse_value(_)
RECURSIVE parse_dict(_, _, _)
RECURSIVE parse_entry(_, _, _, _)
RECURSIVE parse_array(_, _)

\* The end of the text, or a section, ends a dictionary also before its "}".
parse_dict(tok, glob, dict) ==
  LET name == next(tok)
      equals == next(name.tok)
  IN IF name.word = EndOfText \/ Is(name.word, "[")
     THEN Parsed("dict", dict, rewind(name.tok))
     ELSE IF ~ Is(equals.word, "=") THEN Thrown("config_error")
     ELSE parse_entry(name.word, parse_value(equals.tok), glob, dict)

parse_entry(name, value, glob, dict) ==
  LET more == (name :> value.value) @@ dict
      separator == next(value.tok)
  IN IF ~ Ok(value) THEN value
     ELSE IF glob THEN parse_dict(value.tok, glob, more)
     ELSE IF Is(separator.word, "}") THEN Parsed("dict", more, separator.tok)
     ELSE IF Is(separator.word, ",") THEN parse_dict(separator.tok, glob, more)
     ELSE Thrown("config_error")

parse_array(tok, array) ==
  LET first == next(tok)
      value == parse_value(rewind(first.tok))
      separator == next(value.tok)
  IN IF Is(first.word, "]") THEN Parsed("array", array, first.tok)
     ELSE IF ~ Ok(value) THEN value
     ELSE IF Is(separator.word, "]")
     THEN Parsed("array", Append(array, value.value), separator.tok)
     ELSE IF Is(separator.word, ",")
     THEN parse_array(separator.tok, Append(array, value.value))
     ELSE Thrown("config_error")

parse_value(tok) ==
  LET begin == next(tok) IN
  CASE Is(begin.word, "{") -> parse_dict(begin.tok, FALSE, <<>>)
    [] Is(begin.word, "[") -> parse_array(begin.tok, <<>>)
    [] OneOf(begin.word, {"'", "\""}) -> parse_string(begin.tok, begin.word[1], <<>>)
    [] OneOf(begin.word, {"true", "false"}) -> Parsed("bool", begin.word, begin.tok)
    [] \E i \in DOMAIN begin.word : begin.word[i] = "." -> parse_float(rewind(begin.tok))
    [] OTHER -> parse_int(rewind(begin.tok))

RECURSIVE parse_sections(_, _)
RECURSIVE parse_section(_, _, _)
parse_sections(tok, dict) ==
  LET open == next(tok)
      name == next(open.tok)
      close == next(name.tok)
  IN IF open.word = EndOfText THEN Parsed("dict", dict, tok)
     ELSE IF ~ Is(open.word, "[") \/ ~ Is(close.word, "]") THEN Thrown("config_error")
     ELSE parse_section(name.word, parse_dict(close.tok, TRUE, <<>>), dict)

parse_section(name, section, dict) ==
  IF ~ Ok(section) THEN section
  ELSE parse_sections(section.tok, (name :> section.value) @@ dict)

parse(content) == parse_sections(tokenizer(content), <<>>)

-----------------------------------------------------------------------------
(* dict and the constructor of LibvirtVM *)

has(dict, name, types) == name \in DOMAIN dict /\ dict[name].type \in types

\* A setting that is there has to be of its type.
fits(dict, name, types) == name \in DOMAIN dict => has(dict, name, types)

\* get_int of a float drops what follows the point.
whole(number) ==
  LET points == {i \in DOMAIN number : number[i] = "."}
  IN IF points = {} THEN number ELSE SubSeq(number, 1, Min(points) - 1)

getOr(dict, name, default) ==
  IF name \in DOMAIN dict THEN dict[name].value ELSE default
getOr_int(dict, name, default) == whole(getOr(dict, name, default))

Number == {"long", "float"}

complete(dict) ==
  /\ has(dict, <<"name">>, {"string"}) /\ has(dict, <<"image">>, {"string"})
  /\ fits(dict, <<"user">>, {"string"}) /\ fits(dict, <<"ssh_key">>, {"string"})
  /\ \A n \in {"disk", "vcpus", "memory", "frequency", "memorySLA"} :
       fits(dict, <<n>>, Number)

Settings(dict) ==
  [user      |-> getOr(dict, <<"user">>, <<"phil">>),
   image     |-> dict[<<"image">>].value,
   disk      |-> getOr_int(dict, <<"disk">>, <<"10000">>),
   vcpus     |-> getOr_int(dict, <<"vcpus">>, <<"1">>),
   memory    |-> getOr_int(dict, <<"memory">>, <<"2048">>),
   frequency |-> getOr_int(dict, <<"frequency">>, <<"1000">>),
   memorySLA |-> getOr(dict, <<"memorySLA">>, <<"0", ".", "5">>),
   ssh_key   |-> getOr(dict, <<"ssh_key">>, <<>>)]

\* "vm" with its settings; "refused", an exception that treatProvision catches;
\* or the exception that parse has thrown.
construct(cfg) ==
  LET inner == cfg.value.value[<<"vm">>].value
  IN IF ~ Ok(cfg) THEN [status |-> cfg.status]
     ELSE IF has(cfg.value.value, <<"vm">>, {"dict"}) /\ complete(inner)
     THEN [status |-> "vm", name |-> inner[<<"name">>].value,
           settings |-> Settings(inner)]
     ELSE [status |-> "refused"]

\* What a text makes of a VM.
LibvirtVM(content) == construct(parse(content))
=============================================================================
