------------------------------- MODULE XmlRpc -------------------------------
(***************************************************************************)
(* The XML-RPC codec (internal/rpc/xmlrpc): the parser of calls, a machine *)
(* driven by the tokens of the XML decoder, and the encoder of values.     *)
(*                                                                         *)
(* A text is a sequence of atoms; " " stands for white space.  A value has *)
(* a kind, a text (scalars), elements (arrays) and members (structs).      *)
(***************************************************************************)
EXTENDS Integers, Sequences, FiniteSets, SequencesExt

CONSTANTS Values     \* the values a client may send as parameters

VARIABLES sent,      \* the parameter that was sent, between two strings
          input,     \* the tokens still to be read
          p,         \* the parser
          out        \* what DecodeCall returned: "none", "ok" or "error"

xmlVars == <<sent, input, p, out>>

Scalar(kind, text) == [kind |-> kind, text |-> text, elems |-> <<>>, members |-> {}]

Array(elems) == [kind |-> "array", text |-> <<>>, elems |-> elems, members |-> {}]

Struct(members) == [kind |-> "struct", text |-> <<>>, elems |-> <<>>, members |-> members]

Nil == Scalar("nil", <<>>)

Open(n) == [tok |-> "start", is |-> n]
Close(n) == [tok |-> "end", is |-> n]
Text(t) == [tok |-> "chars", is |-> t]

(* One token for each atom of a text; decoders may split character data.   *)
Chars(text) == [i \in DOMAIN text |-> Text(text[i])]

In(n, toks) == <<Open(n)>> \o toks \o <<Close(n)>>

(* writeValue and encodeValue; a client may also leave the type out.       *)
RECURSIVE writeValue(_)
encodeValue(v) ==
  CASE v.kind = "array" ->
         In("array", In("data", FlattenSeq([i \in DOMAIN v.elems |-> writeValue(v.elems[i])])))
    [] v.kind = "struct" ->
         LET ms == SetToSeq(v.members)
         IN  In("struct", FlattenSeq([i \in DOMAIN ms |->
               In("member", In("name", Chars(<<ms[i][1]>>)) \o writeValue(ms[i][2]))]))
    [] v.kind = "untyped" -> Chars(v.text)
    [] OTHER -> In(v.kind, Chars(v.text))

writeValue(v) == In("value", encodeValue(v))

(* Space between two tags, as an indented request has it.                  *)
Indented(toks) ==
  FlattenSeq([i \in DOMAIN toks |->
    IF i < Len(toks) /\ toks[i].tok # "chars" /\ toks[i + 1].tok # "chars"
       /\ ~(toks[i].tok = "start" /\ toks[i + 1].tok = "end")
    THEN <<toks[i], Text(" ")>> ELSE <<toks[i]>>])

Request(root, v) ==
  In(root, In("methodName", Chars(<<"m">>))
           \o In("params", In("param", writeValue(Scalar("string", <<"first">>)))
                           \o In("param", writeValue(v))
                           \o In("param", writeValue(Scalar("string", <<"last">>)))))

(* p.reset                                                                 *)
reset ==
  [seen |-> FALSE, method |-> <<>>, params |-> <<>>, stack |-> <<>>, names |-> <<>>,
   buf |-> <<>>, collecting |-> FALSE]

XmlInit ==
  /\ sent \in Values
  /\ \E root \in {"methodCall", "other"}, pretty \in BOOLEAN :
       input = (IF pretty THEN Indented(Request(root, sent)) ELSE Request(root, sent))
  /\ p = reset
  /\ out = "none"

Collect(q) == [q EXCEPT !.collecting = TRUE, !.buf = <<>>]

pushValue(q) == Collect([q EXCEPT !.stack = Append(@, Scalar("", <<>>))])

\* mutant of setTypeTag: the text before the tag is kept
TypeTagKeepsText(q, kind, collects) ==
  [q EXCEPT !.stack = IF @ = <<>> THEN @
                      ELSE Append(Front(@), [Last(@) EXCEPT !.kind = kind]),
            !.collecting = collects]

setTypeTag(q, kind, collects) ==
  [q EXCEPT !.stack = IF @ = <<>> THEN @
                      ELSE Append(Front(@), [kind |-> kind, text |-> <<>>,
                             elems |-> IF kind = "array" THEN <<>> ELSE Last(@).elems,
                             members |-> IF kind = "struct" THEN {} ELSE Last(@).members]),
            !.collecting = collects,
            !.buf = IF collects THEN <<>> ELSE @]

TrimSpace(text) == SelectSeq(text, LAMBDA a : a # " ")

Digits == {<<"1">>, <<"2">>}

finalize(vc, buf) ==
  CASE vc.kind \in {"string", "double", "dateTime.iso8601"} -> Scalar("string", buf)
    [] vc.kind = "" -> IF buf = <<>> THEN Nil ELSE Scalar("string", buf)
    [] vc.kind = "int" ->
         IF TrimSpace(buf) \in Digits THEN Scalar("int", TrimSpace(buf)) ELSE Nil
    [] vc.kind = "boolean" ->
         Scalar("boolean", IF TrimSpace(buf) = <<"1">> THEN <<"1">> ELSE <<"0">>)
    [] vc.kind = "base64" ->
         Scalar("string", IF TrimSpace(buf) = <<"eA==">> THEN <<"x">> ELSE <<>>)
    [] vc.kind \in {"struct", "array"} -> vc
    [] OTHER -> Nil

(* A value goes to the array or the struct around it, or is a parameter.   *)
Put(m, name, val) == {e \in m : e[1] # name} \cup {<<name, val>>}

popValue(q) ==
  LET val == finalize(Last(q.stack), q.buf)
      rest == Front(q.stack)
      name == IF q.names = <<>> THEN <<>> ELSE Last(q.names)
      parent == Last(rest)
      grown == CASE parent.kind = "array" -> [parent EXCEPT !.elems = Append(@, val)]
                 [] parent.kind = "struct" -> [parent EXCEPT !.members = Put(@, name, val)]
                 [] OTHER -> parent
  IN  IF q.stack = <<>> THEN [q EXCEPT !.collecting = FALSE]
      ELSE IF rest = <<>>
      THEN [q EXCEPT !.collecting = FALSE, !.stack = <<>>, !.params = Append(@, val)]
      ELSE [q EXCEPT !.collecting = FALSE, !.stack = Append(Front(rest), grown)]

StartElement(q, n) ==
  CASE n = "methodCall" -> [q EXCEPT !.seen = TRUE]
    [] n \in {"methodName", "name"} -> Collect(q)
    [] n = "value" -> pushValue(q)
    [] n \in {"string", "double", "dateTime.iso8601", "boolean", "base64"} ->
         setTypeTag(q, n, TRUE)
    [] n \in {"i4", "int"} -> setTypeTag(q, "int", TRUE)
    [] n \in {"struct", "array", "nil"} -> setTypeTag(q, n, FALSE)
    [] n = "member" -> [q EXCEPT !.names = Append(@, <<>>)]
    [] OTHER -> q

EndElement(q, n) ==
  CASE n = "methodName" -> [q EXCEPT !.collecting = FALSE, !.method = q.buf]
    [] n = "value" -> popValue(q)
    [] n = "name" ->
         [q EXCEPT !.collecting = FALSE,
                   !.names = IF @ = <<>> THEN @ ELSE Append(Front(@), q.buf)]
    [] n \in {"string", "double", "dateTime.iso8601", "i4", "int", "boolean", "base64"} ->
         [q EXCEPT !.collecting = FALSE]
    [] n = "member" -> [q EXCEPT !.names = IF @ = <<>> THEN @ ELSE Front(@)]
    [] OTHER -> q

Token ==
  LET t == Head(input)
  IN  /\ out = "none" /\ input # <<>>
      /\ p' = CASE t.tok = "start" -> StartElement(p, t.is)
                [] t.tok = "end" -> EndElement(p, t.is)
                [] t.tok = "chars" ->
                     IF p.collecting THEN [p EXCEPT !.buf = Append(@, t.is)] ELSE p
      /\ input' = Tail(input)
      /\ UNCHANGED <<sent, out>>

(* The XML decoder refuses the rest of the body; an empty Call is returned *)
(* with the error.                                                         *)
ParseError ==
  /\ out = "none" /\ input # <<>>
  /\ out' = "error"
  /\ p' = reset /\ input' = <<>>
  /\ UNCHANGED sent

EOF ==
  /\ out = "none" /\ input = <<>>
  /\ out' = IF p.seen THEN "ok" ELSE "error"
  /\ UNCHANGED <<sent, input, p>>

XmlNext == Token \/ ParseError \/ EOF

XmlSpec == XmlInit /\ [][XmlNext]_xmlVars

-----------------------------------------------------------------------------
(* What a value that is sent means to the methods.                         *)
RECURSIVE Meaning(_)
Meaning(v) ==
  CASE v.kind = "array" -> Array([i \in DOMAIN v.elems |-> Meaning(v.elems[i])])
    [] v.kind = "struct" -> Struct({<<<<m[1]>>, Meaning(m[2])>> : m \in v.members})
    [] v.kind = "untyped" -> IF v.text = <<>> THEN Nil ELSE Scalar("string", v.text)
    [] v.kind = "double" -> Scalar("string", v.text)
    [] v.kind = "i4" -> Scalar("int", v.text)
    [] v.kind = "base64" -> Scalar("string", <<"x">>)
    [] OTHER -> v

(* A call that is accepted has the parameters that were sent, whatever     *)
(* their nesting and with or without space between the tags; a request     *)
(* that is not a methodCall is refused.  A value without a type and a text *)
(* is nil (parser.parse, setTypeTag, popValue, finalize).                  *)
CallRoundTrip ==
  out = "ok" =>
    /\ p.method = <<"m">>
    /\ p.params = <<Scalar("string", <<"first">>), Meaning(sent), Scalar("string", <<"last">>)>>
    /\ p.stack = <<>> /\ p.names = <<>>
=============================================================================
