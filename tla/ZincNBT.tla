------------------------------ MODULE ZincNBT ------------------------------
(***************************************************************************)
(* NBTElement: a tree of tagged values, written for the network or not, in *)
(* a big-endian buffer or a little-endian one.                             *)
(*                                                                         *)
(* An element is [type, tag, value, children].  Its settings say whether   *)
(* the header is left out (inArray), whether the element is for the        *)
(* network, and a type that stands over its own (End: none).               *)
(***************************************************************************)
EXTENDS ZincNumbers

Types == <<"Byte", "Short", "Int", "Long", "Float", "Double",
           "ByteArray", "String", "List", "Compound", "IntArray", "LongArray">>
TypeId(type) == IF type = "End" THEN 0 ELSE CHOOSE i \in DOMAIN Types : Types[i] = type
TypeOf(id) == IF id = 0 THEN "End" ELSE Types[id]

Settings(inArray, network, type) == [inArray |-> inArray, network |-> network, type |-> type]
ForNetwork == Settings(FALSE, TRUE, "End")

\* The factories.
Scalar(type, tag, value) == [type |-> type, tag |-> tag, value |-> value, children |-> <<>>]
Parent(type, tag, children) == [type |-> type, tag |-> tag, value |-> 0, children |-> children]
NoElement == Scalar("End", <<>>, 0)

Concat(seqs) ==
  LET upTo[n \in 0 .. Len(seqs)] == IF n = 0 THEN <<>> ELSE upTo[n - 1] \o seqs[n] IN upTo[Len(seqs)]

----------------------------------------------------------------------------
(* "short" is the network form of a little-endian buffer: VarInts and the strings *)
(* of writeString.                                                                *)

writeInt(v, kind, short) == IF short THEN writeZigZagVarNumeric(v) ELSE writeNumeric(kind, v)
readInt(kind, short, in, p) == IF short THEN readZigZagVarNumeric(in, p) ELSE readNumeric(kind, in, p)
writeText(s, short, bigEndian) ==
  IF short THEN writeString(s) ELSE writeShort(Len(s), bigEndian) \o s
readText(short, bigEndian, in, p) ==
  IF short THEN readString(in, p)
  ELSE Then(readShort(in, p, bigEndian), LAMBDA n, q : readByteArray(n, in, q))

Kind(type) ==
  CASE type = "Byte" -> "b" [] type \in {"Int", "IntArray"} -> "i32" [] type \in {"Long", "LongArray"} -> "i64"
    [] type = "Float" -> "f32" [] type = "Double" -> "f64" [] type = "ByteArray" -> "b"
Varying == {"Int", "Long"}

\* The header: type, and a tag unless it is empty and a big-endian buffer's for the network.
encodeHeader(e, type, s, bigEndian) ==
  IF s.inArray THEN <<>>
  ELSE << Octet(TypeId(type)) >> \o
       (IF type = "End" \/ (bigEndian /\ s.network /\ e.tag = <<>>) THEN <<>>
        ELSE writeText(e.tag, ~bigEndian /\ s.network, bigEndian))

RECURSIVE encode(_, _, _)
\* A list of several types is written as an empty one; neither a list's elements nor a
\* compound's are for the network.
encodeList(e, short, bigEndian) ==
  LET type == e.children[1].type
      mixed == \E i \in DOMAIN e.children : e.children[i].type # type
  IN IF e.children = <<>> \/ mixed THEN << Octet(0) >> \o writeInt(0, "i32", short)
     ELSE << Octet(TypeId(type)) >> \o writeInt(Len(e.children), "i32", short) \o
          Concat([i \in DOMAIN e.children |-> encode(e.children[i], Settings(TRUE, FALSE, type), bigEndian)])
encodeCompound(e, bigEndian) ==
  Concat([i \in DOMAIN e.children |-> encode(e.children[i], Settings(FALSE, FALSE, "End"), bigEndian)])
    \o << Octet(0) >>
encode(e, s, bigEndian) ==
  LET type == IF s.type # "End" THEN s.type ELSE e.type
      short == ~bigEndian /\ s.network
  IN encodeHeader(e, type, s, bigEndian) \o
     CASE type = "End" -> <<>>
       [] type \in {"Byte", "Float", "Double"} -> writeNumeric(Kind(type), e.value)
       [] type = "Short" -> writeShort(e.value, bigEndian)
       [] type \in Varying -> writeInt(e.value, Kind(type), short)
       [] type \in {"ByteArray", "IntArray", "LongArray"} ->
            writeInt(Len(e.value), "i32", short) \o [i \in DOMAIN e.value |-> <<Kind(type), e.value[i]>>]
       [] type = "String" -> writeText(e.value, short, bigEndian)
       [] type = "List" -> encodeList(e, short, bigEndian)
       [] type = "Compound" -> encodeCompound(e, bigEndian)

----------------------------------------------------------------------------
readMany(kind, n, in, p) ==
  LET cell(i) == readNumeric(kind, in, p + i - 1)
  IN IF n >= 0 /\ \A i \in 1 .. n : cell(i).ok
     THEN Found([i \in 1 .. n |-> cell(i).v], p + n) ELSE Astray

\* A big-endian buffer's tag is not looked for when the element is for the network.
decodeTag(type, s, bigEndian, in, p) ==
  IF s.inArray \/ type = "End" \/ (bigEndian /\ s.network) THEN Found(<<>>, p)
  ELSE readText(~bigEndian /\ s.network, bigEndian, in, p)

RECURSIVE decode(_, _, _, _), decodeElements(_, _, _, _, _), decodeChildren(_, _, _, _)
\* Children are for the network as their parent is, in a little-endian buffer.
decodeElements(n, s, bigEndian, in, p) ==
  IF n <= 0 THEN Found(<<>>, p)
  ELSE Then(decode(s, bigEndian, in, p), LAMBDA e, q :
         Map(decodeElements(n - 1, s, bigEndian, in, q), LAMBDA rest : <<e>> \o rest))
decodeList(s, bigEndian, in, p) ==
  Then(readNumeric("b", in, p), LAMBDA id, q :
    Then(readInt("i32", ~bigEndian /\ s.network, in, q), LAMBDA n, r :
      IF id \notin 0 .. Len(Types) THEN Astray
      ELSE decodeElements(IF id = 0 THEN 0 ELSE n, Settings(TRUE, ~bigEndian /\ s.network, TypeOf(id)),
                          bigEndian, in, r)))
\* To the zero byte, or to the end of what was written.
decodeChildren(s, bigEndian, in, p) ==
  IF p > Len(in) \/ in[p] = Blank THEN Found(<<>>, p)
  ELSE IF in[p] = Octet(0) THEN Found(<<>>, p + 1)
  ELSE Then(decode(s, bigEndian, in, p), LAMBDA e, q :
         Map(decodeChildren(s, bigEndian, in, q), LAMBDA rest : <<e>> \o rest))
decodeBody(type, tag, s, bigEndian, in, p) ==
  LET short == ~bigEndian /\ s.network
      scalar(r) == Map(r, LAMBDA v : Scalar(type, tag, v))
      parent(r) == Map(r, LAMBDA c : Parent(type, tag, c))
  IN CASE type = "End" -> Found(Scalar("End", tag, 0), p)
       [] type \in {"Byte", "Float", "Double"} -> scalar(readNumeric(Kind(type), in, p))
       [] type = "Short" -> scalar(Map(readShort(in, p, bigEndian), LAMBDA v : Wrapped(v, 4 * Base * Base)))
       [] type \in Varying -> scalar(readInt(Kind(type), short, in, p))
       [] type \in {"ByteArray", "IntArray", "LongArray"} ->
            scalar(Then(readInt("i32", short, in, p), LAMBDA n, q : readMany(Kind(type), n, in, q)))
       [] type = "String" -> scalar(readText(short, bigEndian, in, p))
       [] type = "List" -> parent(decodeList(s, bigEndian, in, p))
       [] type = "Compound" -> parent(decodeChildren(Settings(FALSE, short, "End"), bigEndian, in, p))
decode(s, bigEndian, in, p) ==
  Then(IF s.inArray THEN Found(TypeId(s.type), p) ELSE readNumeric("b", in, p), LAMBDA id, q :
    IF id \notin 0 .. Len(Types) THEN Astray
    ELSE Then(decodeTag(TypeOf(id), s, bigEndian, in, q), LAMBDA tag, r :
           decodeBody(TypeOf(id), tag, s, bigEndian, in, r)))

\* ByteBuffer's own entries: the root is for the network.
writeNBTElement(e, bigEndian) == encode(e, ForNetwork, bigEndian)
readNBTElement(bigEndian, in, p) == decode(ForNetwork, bigEndian, in, p)

----------------------------------------------------------------------------
\* operator==: types, values and children, but no tags.
RECURSIVE sameElement(_, _)
sameElement(e, f) ==
  /\ e.type = f.type /\ e.value = f.value
  /\ Len(e.children) = Len(f.children)
  /\ \A i \in DOMAIN e.children : sameElement(e.children[i], f.children[i])

\* toJSON(), as far as two of its results differ: the tags of compounds, no other tags,
\* and of numbers whether they are a byte's true or false or have a fraction.
RECURSIVE toJSON(_)
toJSON(e) ==
  CASE e.type = "Compound" ->
         <<"object", [i \in DOMAIN e.children |-> <<e.children[i].tag, toJSON(e.children[i])>>]>>
    [] e.type = "List" -> <<"array", [i \in DOMAIN e.children |-> toJSON(e.children[i])]>>
    [] e.type \in {"ByteArray", "IntArray", "LongArray"} ->
         <<"array", [i \in DOMAIN e.value |-> <<"number", e.value[i]>>]>>
    [] e.type = "String" -> <<"string", e.value>>
    [] e.type = "Byte" /\ e.value \in {0, 1} -> <<"bool", e.value>>
    [] e.type \in {"Float", "Double"} -> <<"fraction", e.value>>
    [] e.type = "End" -> <<"nothing", 0>>
    [] OTHER -> <<"number", e.value>>

============================================================================
