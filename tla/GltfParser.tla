---------------------------- MODULE GltfParser ----------------------------
(***************************************************************************)
(* The parser of glTF files (GLTF::init and the parse functions of         *)
(* sg/src/DataGLTF.cxx).  The functions call each other as the file nests  *)
(* objects and arrays: `stack' has what is active, innermost last, and a   *)
(* step handles one symbol.  What separates values is not checked, and     *)
(* properties come in any order.                                           *)
(***************************************************************************)
EXTENDS GltfSchema, SequencesExt

CONSTANTS
  Documents,  \* the files
  Text(_)     \* the symbols that a file is written with

ASSUME TextAssumption == \A d \in Documents : Text(d) \in Seq(Symbols)

VARIABLES
  doc,     \* the file
  text,    \* its symbols
  pos,     \* how many of them were read
  cut,     \* the file proved to end before its last symbol
  stack,   \* the active calls
  gltf,    \* what was read
  status   \* "reading", "done", "thrown", or "endless": next never returns

vars == <<doc, text, pos, cut, stack, gltf, status>>

-----------------------------------------------------------------------------
Is(sym, c) == sym = Op(c)

(* Mutant of Stops: the end of the file is skipped too.                    *)
StopsAtErrors(sym) == sym.type = "Err"

(* What loops that skip symbols have to stop at.                           *)
Stops(sym) == sym.type \in {"End", "Err"}

(* What a number's text converts to: integers lose the fraction.           *)
Converted(num, float) ==
  IF float THEN num ELSE IF num >= 0 THEN num \div 2 ELSE -((-num) \div 2)

-----------------------------------------------------------------------------
(* Calls.  A call knows the member of its caller that it fills, `place',   *)
(* and has read `val' of it.                                               *)

ObjectCall(kind, place, val) ==
  [call |-> IF kind = "Dictionary" THEN "dictionary" ELSE "object",
   kind |-> kind, place |-> place, val |-> val, at |-> "first", key |-> ""]

ConsumeCall == [call |-> "consume", at |-> "colon", op |-> "", n |-> 0]

Value(type, place) == [call |-> "value", type |-> type, place |-> place]

CallFor(field, place, val) ==
  CASE field.reader = "object" -> ObjectCall(field.kind, place, val)
    [] field.reader = "objects" ->
         [call |-> "objects", kind |-> field.kind, place |-> place,
          val |-> val]
    [] field.reader = "numbers" ->
         [call |-> "numbers", float |-> field.float, place |-> place,
          val |-> IF field.clear THEN <<>> ELSE val]
    [] field.reader = "number" ->
         [call |-> "value", type |-> "Num", place |-> place,
          float |-> field.float]
    [] field.reader = "str" -> Value("Str", place)
    [] field.reader = "bool" -> Value("Bool", place)

Top == Last(stack)
Callers == Front(stack)
Become(call) == stack' = Append(Callers, call) /\ UNCHANGED <<gltf, status>>
Call(call) == stack' = Append(stack, call) /\ UNCHANGED <<gltf, status>>
Stay == UNCHANGED <<stack, gltf, status>>
Throw == status' = "thrown" /\ UNCHANGED <<stack, gltf>>

(* The call returns, having read val.                                      *)
Return(val) ==
  LET caller == Last(Callers)
  IN  IF Callers = <<>>
      THEN stack' = <<>> /\ gltf' = val /\ status' = "done"
      ELSE /\ stack' = Append(Front(Callers),
                         IF caller.call = "objects"
                         THEN [caller EXCEPT !.val = Append(@, val)]
                         ELSE [caller EXCEPT !.val[Top.place] = val])
           /\ UNCHANGED <<gltf, status>>

(* The call returns, having read nothing that is kept.                     *)
Leave == stack' = Callers /\ UNCHANGED <<gltf, status>>

-----------------------------------------------------------------------------
(* What each function does with the next symbol.                           *)

(* The handler of a kind of object, past its opening brace.                *)
InObject(sym) ==
  /\ Top.call = "object"
  /\ CASE sym.type = "Str" ->
            IF Knows(Top.kind, sym.tok)
            THEN LET place == Place(Top.kind, sym.tok)
                 IN  Call(CallFor(Fields[Top.kind][sym.tok], place,
                                  Top.val[place]))
            ELSE Call(ConsumeCall)
       [] Is(sym, "}") ->
            IF Top.kind # "Node" THEN Return(Top.val)
            ELSE IF SizesRight(Top.val)
            THEN Return([Top.val EXCEPT !.transform = TransformOf(Top.val)])
            ELSE Throw
       [] sym.type = "Op" /\ ~Is(sym, "}") -> Stay
       [] OTHER -> Throw

(* parseObjectArray: every opening brace begins an element.                *)
InObjects(sym) ==
  /\ Top.call = "objects"
  /\ CASE Is(sym, "{") -> Call(ObjectCall(Top.kind, "", ElementInit[Top.kind]))
       [] Is(sym, "]") -> Return(Top.val)
       [] sym.type = "Op" /\ ~Is(sym, "{") /\ ~Is(sym, "]") -> Stay
       [] OTHER -> Throw

(* parseNumArray.                                                          *)
InNumbers(sym) ==
  /\ Top.call = "numbers"
  /\ CASE sym.type = "Num" ->
            Become([Top EXCEPT
                      !.val = Append(@, Converted(sym.num, Top.float))])
       [] Is(sym, "]") -> Return(Top.val)
       [] sym.type = "Op" /\ ~Is(sym, "]") -> Stay
       [] OTHER -> Throw

(* parseNum, parseStr and parseBool skip what is not of their type.        *)
InValue(sym) ==
  /\ Top.call = "value"
  /\ CASE sym.type = Top.type ->
            Return(CASE sym.type = "Num" -> Converted(sym.num, Top.float)
                     [] sym.type = "Str" -> sym.tok
                     [] sym.type = "Bool" -> sym.bool)
       [] Stops(sym) -> Throw
       [] OTHER -> Stay

(* parseDictionary: pairs of a string and a number.                        *)
KeyRead(sym) == [Top EXCEPT !.at = "colon", !.key = sym.tok]

InDictionary(sym) ==
  /\ Top.call = "dictionary"
  /\ CASE Top.at = "first" ->
            IF sym.type = "Str" THEN Become(KeyRead(sym))
            ELSE IF Stops(sym) THEN Throw ELSE Stay
       [] Top.at = "colon" ->
            IF Is(sym, ":") THEN Become([Top EXCEPT !.at = "number"])
            ELSE Throw
       [] Top.at = "number" ->
            IF sym.type = "Num"
            THEN Become([Top EXCEPT !.at = "next",
                   !.val = Append(@, <<Top.key, Converted(sym.num, FALSE)>>)])
            ELSE IF Stops(sym) THEN Throw ELSE Stay
       [] Top.at = "next" ->
            IF Is(sym, "}") THEN Return(Top.val)
            ELSE IF sym.type = "Op" THEN Become([Top EXCEPT !.at = "key"])
            ELSE Throw
       [] Top.at = "key" ->
            IF sym.type = "Str" THEN Become(KeyRead(sym))
            ELSE Throw

Closing(op) == IF op = "{" THEN "}" ELSE "]"

(* consumeProperty: of the brackets, only those of the kind that opened    *)
(* the value are counted.                                                  *)
InConsume(sym) ==
  /\ Top.call = "consume"
  /\ CASE Top.at = "colon" ->
            IF Is(sym, ":") THEN Become([Top EXCEPT !.at = "value"]) ELSE Throw
       [] Top.at = "value" ->
            IF sym.type \in {"Str", "Num", "Bool", "Null"} THEN Leave
            ELSE IF Is(sym, "{") \/ Is(sym, "[")
            THEN Become([Top EXCEPT !.at = "nested", !.op = sym.tok, !.n = 1])
            ELSE Throw
       [] Top.at = "nested" ->
            IF Is(sym, Top.op) THEN Become([Top EXCEPT !.n = @ + 1])
            ELSE IF Is(sym, Closing(Top.op))
            THEN IF Top.n = 1 THEN Leave ELSE Become([Top EXCEPT !.n = @ - 1])
            ELSE IF Stops(sym) THEN Throw ELSE Stay

-----------------------------------------------------------------------------
Init ==
  /\ doc \in Documents
  /\ text = Text(doc) \o <<Err>>  \* what follows is not part of it
  /\ pos = 0
  /\ cut = FALSE
  /\ stack = <<>>
  /\ gltf = FileInit
  /\ status = "reading"

(* The first symbol has to open an object, the file's.                     *)
Open(sym) ==
  /\ pos = 0
  /\ IF Is(sym, "{") THEN Call(ObjectCall("File", "", FileInit)) ELSE Throw

Handle(sym) ==
  /\ pos > 0
  /\ \/ InObject(sym)
     \/ InObjects(sym)
     \/ InNumbers(sym)
     \/ InValue(sym)
     \/ InDictionary(sym)
     \/ InConsume(sym)

(* The file may end anywhere: between symbols, or within one.              *)
EndsWithin(types) == pos < Len(text) /\ ~cut /\ text[pos + 1].type \in types

(* What Symbol::next takes the end of the file for: a string has no end.   *)
Endings == {End} \cup IF EndsWithin({"Str"}) THEN {Err} ELSE {}

(* Symbol::next.  Where the file ends within a number or a literal there   *)
(* is no next character, and the last one is taken for it, for ever.       *)
Read ==
  /\ status = "reading"
  /\ \/ /\ pos < Len(text) /\ ~cut
        /\ Open(text[pos + 1]) \/ Handle(text[pos + 1])
        /\ pos' = pos + 1
        /\ UNCHANGED cut
     \/ /\ \E sym \in Endings : Open(sym) \/ Handle(sym)
        /\ cut' = TRUE
        /\ UNCHANGED pos
     \/ /\ EndsWithin({"Num", "Bool", "Null"})
        /\ status' = "endless"
        /\ cut' = TRUE
        /\ UNCHANGED <<pos, stack, gltf>>
  /\ UNCHANGED <<doc, text>>
=============================================================================
