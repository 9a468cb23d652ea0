--------------------------- MODULE GltfDocument ---------------------------
(***************************************************************************)
(* glTF files, as the format defines them and not as the code reads them:  *)
(* JSON values, the symbols that write them, the objects they stand for,   *)
(* and what reading them has to give.                                      *)
(***************************************************************************)
EXTENDS GltfLoader

Number(n) == [json |-> "number", num |-> n]   \* in halves
String(s) == [json |-> "string", str |-> s]
Boolean(b) == [json |-> "bool", bool |-> b]
Nothing == [json |-> "null"]
Escaped == [json |-> "escaped"]  \* a string with an escape such as \n
JArray(items) == [json |-> "array", items |-> items]
JObject(members) == [json |-> "object", members |-> members]

-----------------------------------------------------------------------------
(* Symbols.                                                                *)

Separated(texts) ==
  IF texts = <<>> THEN <<>>
  ELSE texts[1] \o FlattenSeq([k \in 1..(Len(texts) - 1) |->
                                 <<Op(",")>> \o texts[k + 1]])

RECURSIVE Written(_)
Written(j) ==
  CASE j.json = "number" -> <<NumOf(j.num)>>
    [] j.json = "string" -> <<StrOf(j.str)>>
    [] j.json = "bool" -> <<BoolOf(j.bool)>>
    [] j.json = "null" -> <<Null>>
    [] j.json = "escaped" -> <<Err>>
    [] j.json = "array" ->
         <<Op("[")>>
         \o Separated([k \in DOMAIN j.items |-> Written(j.items[k])])
         \o <<Op("]")>>
    [] j.json = "object" ->
         <<Op("{")>>
         \o Separated([k \in DOMAIN j.members |->
              <<StrOf(j.members[k][1]), Op(":")>> \o Written(j.members[k][2])])
         \o <<Op("}")>>

-----------------------------------------------------------------------------
(* What a file stands for.                                                 *)

Whole(num) == num \div 2

Gives(members, name) == \E k \in DOMAIN members : members[k][1] = name
Member(members, name) ==
  members[CHOOSE k \in DOMAIN members : members[k][1] = name][2]
Floating(members, name) ==
  LET items == Member(members, name).items
  IN  [k \in DOMAIN items |-> items[k].num]

(* A node's transform is its matrix, or its translation, rotation and      *)
(* scale, each of which may be missing.                                    *)
Transform(members) ==
  LET part(name, none) ==
        IF Gives(members, name) THEN Floating(members, name) ELSE none
  IN  IF Gives(members, "matrix") THEN Floating(members, "matrix")
      ELSE part("translation", <<0, 0, 0>>)
           \o part("rotation", <<0, 0, 0, One>>)
           \o part("scale", <<One, One, One>>)

(* A value read for a property, and an object of a kind that had `from'    *)
(* before it was read.                                                     *)
RECURSIVE ObjectOf(_, _, _)
ValueOf(field, j, from) ==
  CASE field.reader = "number" -> IF field.float THEN j.num ELSE Whole(j.num)
    [] field.reader = "numbers" ->
         [k \in DOMAIN j.items |->
            IF field.float THEN j.items[k].num ELSE Whole(j.items[k].num)]
    [] field.reader = "str" -> j.str
    [] field.reader = "bool" -> j.bool
    [] field.reader = "object" -> ObjectOf(field.kind, j.members, from)
    [] field.reader = "objects" ->
         [k \in DOMAIN j.items |->
            ObjectOf(field.kind, j.items[k].members, ElementInit[field.kind])]
ObjectOf(kind, members, from) ==
  IF kind = "Dictionary"
  THEN [k \in DOMAIN members |-> <<members[k][1], Whole(members[k][2].num)>>]
  ELSE LET read == FoldLeft(
             LAMBDA obj, m :
               IF ~Knows(kind, m[1]) THEN obj
               ELSE LET place == Place(kind, m[1])
                    IN  [obj EXCEPT ![place] =
                           ValueOf(Fields[kind][m[1]], m[2], obj[place])],
             from, members)
       IN  IF kind = "Node" THEN [read EXCEPT !.transform = Transform(members)]
           ELSE read

Meaning(file) == ObjectOf("File", file.members, FileInit)

-----------------------------------------------------------------------------
(* Properties of the reader.                                               *)

(* Symbols that the reader refuses, and nodes whose arrays have not the    *)
(* sizes that their names call for.                                        *)
Sizes == [translation |-> 3, rotation |-> 4, scale |-> 3, matrix |-> 16]
IllSized(members) ==
  \E name \in DOMAIN Sizes :
    /\ Gives(members, name)
    /\ name = "matrix" \/ ~Gives(members, "matrix")
    /\ Len(Floating(members, name)) # Sizes[name]
Unreadable ==
  \/ Contains(Written(doc), Err)
  \/ /\ Gives(doc.members, "nodes")
     /\ \E k \in DOMAIN Member(doc.members, "nodes").items :
          IllSized(Member(doc.members, "nodes").items[k].members)

(* What GLTF::init reads is what the file says, whatever the order of its  *)
(* properties and whatever properties it does not know nest, and it reads  *)
(* the file to its end and no further (a .glb file goes on).               *)
ReadsWhatIsWritten ==
  status = "done" => /\ pos = Len(Written(doc))
                     /\ gltf = Meaning(doc)

(* A file is refused only if it is not complete or has what is not         *)
(* supported, and such a file is never taken for a good one.               *)
RefusesOnlyBadFiles ==
  /\ status = "thrown" => cut \/ Unreadable
  /\ status = "done" => ~cut /\ ~Unreadable
  /\ load = "thrown" => doc \notin Supported
  /\ status = "done" /\ doc \in Supported => Valid(gltf)
=============================================================================
