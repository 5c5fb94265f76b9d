----------------------------- MODULE ZincCodecs -----------------------------
(***************************************************************************)
(* A ByteBuffer in use: records of the game's types are written to it and  *)
(* read back in the order they were written, while the buffer gives blocks *)
(* back or not, is moved and is cleared.  A BitSet is built up beside it,  *)
(* which can be written like any record.  Or it is numbers and strings of  *)
(* any kinds that are written, one behind the other (ZincNumberStream).    *)
(*                                                                         *)
(* "outcome" is what became of the record read last: the same value, some  *)
(* other value, or the reader went astray - it took something of another   *)
(* kind than was there, or ended where the record does not.  Nothing is    *)
(* followed after that.                                                    *)
(***************************************************************************)
EXTENDS ZincWire, ZincNumberStream, ZincBits

CONSTANTS
  Samples,      \* name of a type -> values that are written
  MaxRecords    \* bound: records written in a run

VARIABLES
  written,      \* records in the buffer: <<name, value>>
  writes,       \* history: how many there have been
  outcome,
  env

vars == <<numbersVars, written, writes, outcome, env, bits, members>>
numbered == <<bigEndian, numbers, numberWrites, numberRead>>
queued == <<written, writes, outcome, env, bits, members>>

\* The formats of a type: what its writer and its reader do.
Formats ==
  [Vector3 |-> <<writeVector3, readVector3>>, Vector2 |-> <<writeVector2, readVector2>>,
   BlockCoordinates |-> <<writeBlockCoordinates, readBlockCoordinates>>,
   PlayerLocation |-> <<writePlayerLocation, readPlayerLocation>>,
   IDSet |-> <<writeIDSet, readIDSet>>, SoundEvent |-> <<writeSoundEvent, readSoundEvent>>,
   TeleportFlags |-> <<writeTeleportFlags, readTeleportFlags>>,
   FlaggedXorY |-> <<writeXorY(TRUE, Var, Byte8), readXorY(Var, Byte8)>>,
   XorY |-> <<writeXorY(FALSE, Var, Byte8), readXorY(Var, Byte8)>>,
   NBT |-> <<Nbt, Nbt>>, Text |-> <<Text, Text>>, Document |-> <<Nbt, Text>>,
   BitSet |-> <<Bitset, Bitset>>, FixedBitSet |-> <<FixedBitset(0), FixedBitset(0)>>,
   EnumSet |-> <<EnumSet(0), EnumSet(0)>>,
   ChatType |-> <<writeChatType, readChatType>>, LightData |-> <<writeLightData, readLightData>>,
   ChunkData |-> <<writeChunkData, readChunkData>>,
   PartialDataComponentMatcher |-> <<writePartialDataComponentMatcher, readPartialDataComponentMatcher>>,
   Property |-> <<writeProperty, readProperty>>,
   FireworkExplosion |-> <<writeFireworkExplosion, readFireworkExplosion>>,
   PotionEffect |-> <<writePotionEffect, readPotionEffect>>,
   TrimMaterial |-> <<writeTrimMaterial, readTrimMaterial>>,
   TrimPattern |-> <<writeTrimPattern, readTrimPattern>>,
   Instrument |-> <<writeInstrument, readInstrument>>, JukeBox |-> <<writeJukeBox, readJukeBox>>,
   ConsumeEffect |-> <<writeConsumeEffect, readConsumeEffect>>,
   SlotDisplay |-> <<writeSlotDisplay, readSlotDisplay>>,
   RecipeDisplay |-> <<writeRecipeDisplay, readRecipeDisplay>>,
   Registry |-> <<getNetworkRegistry, getNetworkRegistry>>,
   Slot |-> <<toBytes_Slot>>, HashedSlot |-> <<toBytesHashed>>, BlockPredicate |-> <<toBytes_BlockPredicate>>]

Encoded(name, v, big) == write(Formats[name][1], v, big)
EncodedHere(name, v) == Encoded(name, v, env.bigEndian)
\* The bytes of a fixed bit set are as many as the reader knows there are.
ReaderOf(name, v) ==
  CASE name = "FixedBitSet" -> FixedBitset(Len(toByteArray(v)))
    [] name = "EnumSet" -> EnumSet(Len(toByteArray(Among(v))))
    [] OTHER -> Formats[name][2]

\* What a document says is said again by what was made of it.
RECURSIVE Says(_, _)
Says(e, f) ==
  /\ e.type = f.type /\ e.value = f.value
  /\ e.type = "Compound" => \A i \in DOMAIN e.children : \E j \in DOMAIN f.children :
       e.children[i].tag = f.children[j].tag /\ Says(e.children[i], f.children[j])
  /\ e.type = "List" => /\ Len(e.children) = Len(f.children)
                        /\ \A i \in DOMAIN e.children : Says(e.children[i], f.children[i])

\* The types compared by their operator==: NBTElement, TextComponent and BitSet, and
\* those that hold a text.
Alike(name, v, w) ==
  CASE name = "NBT" -> sameElement(v, w)
    [] name = "Text" -> sameText(v, w)
    [] name = "Document" -> Says(v, encodeText(w))
    [] name \in {"BitSet", "FixedBitSet"} -> equal(v, w)
    [] name = "EnumSet" -> {v[i] : i \in DOMAIN v} = {w[i] : i \in DOMAIN w}
    [] name \in {"LightData", "TrimMaterial", "TrimPattern", "Instrument", "JukeBox"} ->
         EncodedHere(name, v) = EncodedHere(name, w)
    [] OTHER -> v = w

----------------------------------------------------------------------------
NoOutcome == [name |-> "none", value |-> 0, result |-> "same", took |-> 0, last |-> TRUE]
Ready == ~overrun /\ outcome.result # "astray"

Init ==
  /\ NumbersInit
  /\ written = <<>> /\ writes = 0 /\ outcome = NoOutcome
  /\ env \in [bigEndian : {bigEndian}, rightToLeft : BOOLEAN]
  /\ BitsInit

WriteRecord(name, v) ==
  /\ Ready
  /\ writes < MaxRecords
  /\ \A i \in DOMAIN written : written[i][1] = name
  /\ outcome.name \in {"none", name}
  /\ Write(EncodedHere(name, v))
  /\ written' = Append(written, <<name, v>>) /\ writes' = writes + 1
  /\ UNCHANGED <<outcome, env, bits, members>>

\* What a reader makes of the record at the front.
Reading ==
  read(ReaderOf(written[1][1], written[1][2]), [none |-> 0], env, buffer.cells, buffer.reader + 1)
Result(r) ==
  IF ~r.ok \/ r.at - 1 - buffer.reader # Len(EncodedHere(written[1][1], written[1][2])) THEN "astray"
  ELSE IF Alike(written[1][1], written[1][2], r.v) THEN "same" ELSE "other"
ReadRecord ==
  /\ Ready
  /\ written # <<>> /\ Len(Formats[written[1][1]]) = 2
  /\ \E r \in {Reading} :
       /\ IF r.ok THEN Read(r.at - 1 - buffer.reader) ELSE UNCHANGED bufferVars
       /\ outcome' = [name |-> written[1][1], value |-> written[1][2], result |-> Result(r),
                      took |-> r.at - 1 - buffer.reader, last |-> Len(written) = 1]
  /\ written' = Tail(written)
  /\ UNCHANGED <<writes, env, bits, members>>

ClearBuffer == Ready /\ clear /\ written' = <<>> /\ UNCHANGED <<writes, outcome, env, bits, members>>
ToggleRecycle == Ready /\ toggleBlockRecycle /\ UNCHANGED queued
MoveBuffer == Ready /\ Move /\ UNCHANGED queued

\* The BitSet changes before anything is written.
Building == buffer = EmptyBuffer /\ writes = 0
BuildBits ==
  /\ Building /\ BitsNext
  /\ UNCHANGED <<buffer, got, overrun, written, writes, outcome, env>>
WriteBits(name) == WriteRecord(name, bits)

\* The other records are written beside a BitSet nobody has touched.
RecordsNext ==
  \/ /\ bits = EmptyBitSet /\ writes < MaxRecords
     /\ \E samples \in {Samples} : \E name \in DOMAIN samples : \E v \in samples[name] : WriteRecord(name, v)
  \/ \E name \in {"BitSet", "FixedBitSet"} : bits # EmptyBitSet /\ WriteBits(name)
  \/ ReadRecord
  \/ ClearBuffer \/ ToggleRecycle \/ MoveBuffer
  \/ BuildBits

\* Numbers are written alone.
Next ==
  \/ numberWrites = 0 /\ RecordsNext /\ UNCHANGED numbered
  \/ writes = 0 /\ bits = EmptyBitSet /\ NumbersNext /\ UNCHANGED queued
Spec == Init /\ [][Next]_vars

----------------------------------------------------------------------------
(* Properties. *)

Worst(fates) ==
  IF "astray" \in fates THEN "astray" ELSE IF "other" \in fates THEN "other" ELSE "same"

\* What an element of a little-endian buffer's network form may have inside: nothing
\* whose form differs, as its children are written in the other one.
Unvaried == {"Byte", "Short", "Float", "Double", "End"}
Mixed(e) == e.type = "List" /\ \E i \in DOMAIN e.children : e.children[i].type # e.children[1].type
ReadsLittle(e) ==
  CASE e.type = "Compound" -> e.children = <<>>
    [] e.type = "List" -> Mixed(e) \/ \A i \in DOMAIN e.children :
         e.children[i].type \in Unvaried \/ (e.children[i].type = "Compound" /\ e.children[i].children = <<>>)
    [] OTHER -> TRUE
RECURSIVE TreeFate(_)
TreeFate(e) ==
  IF Mixed(e) \/ (e.type = "List" /\ e.children # <<>> /\ e.children[1].type = "End") THEN "other"
  ELSE IF e.type = "Compound" /\ \E i \in DOMAIN e.children : e.children[i].type = "End" THEN "astray"
  ELSE Worst({TreeFate(e.children[i]) : i \in DOMAIN e.children})
NbtFate(e) ==
  IF IF env.bigEndian THEN e.tag # <<>> /\ e.type # "End" ELSE ~ReadsLittle(e) THEN "astray" ELSE TreeFate(e)

\* What decode() keeps of a text that has its type written, as encode() always has.
PlainClick(c) == Or(c.given[ClickAction[Or(c.action, "suggest_command")][1]],
                    ClickAction[Or(c.action, "suggest_command")][2])
                   = ClickAction[Or(c.action, "suggest_command")][2]
PlainHover(h) ==
  /\ Or(h.action, "show_text") = "show_text" => h.value = <<>>
  /\ Or(h.action, "show_text") = "show_item" => Or(h.item, NoItem) = NoItem
  /\ Or(h.action, "show_text") = "show_entity" => Or(h.entity, NoEntity) = NoEntity
RECURSIVE TextKept(_)
TextKept(t) ==
  /\ KindOf(t) = "text" /\ Or(t.content["text"], <<>>) = <<>>
  /\ \A i \in DOMAIN t.click : PlainClick(t.click[i])
  /\ \A i \in DOMAIN t.hover : PlainHover(t.hover[i])
  /\ \A i \in DOMAIN t.extra : TextKept(t.extra[i])
TextFate(t) == IF ~env.bigEndian THEN "astray" ELSE IF TextKept(t) THEN "same" ELSE "other"

\* Written in a buffer of its own, an element is taken apart in the other form: its tag, or
\* what it holds, for the length of a tag.  Only an End, a string whose length is one byte
\* of a VarInt and, with nothing behind it, an empty compound look the same in both.
OwnNbtFate(e) ==
  IF env.bigEndian \/ e.type = "End" THEN NbtFate(e)
  ELSE IF /\ e.tag = <<>>
          /\ \/ e.type = "String" /\ Len(e.value) < Base
             \/ e.type = "Compound" /\ e.children = <<>> /\ outcome.last
  THEN "same" ELSE "astray"

\* There, a number is written big-endian, and in a little-endian buffer it is another one
\* unless its bytes are the same from both ends.
Turned(kind, v) == Ordered(kind, v, env.bigEndian) # v
OwnFate(kind, values) == IF \E v \in values : Turned(kind, v) THEN "other" ELSE "same"
ValuesOf(s) == {s[i] : i \in DOMAIN s}

\* A member that is not the default's and that the format, a record's, leaves out.
Omits(format, v) ==
  \E name \in DOMAIN v :
    /\ v[name] # format[2][name]
    /\ \A i \in DOMAIN format[3] : format[3][i][1] # name \/ ~Present(format[3][i], v)

SoundFate(s) == IF s.range = <<>> THEN "astray" ELSE "same"
OwnSoundFate(s) == Worst({SoundFate(s), OwnFate("f32", ValuesOf(s.range))})
IDSetFate(s) ==
  IF s.type < 0 \/ (s.type > 0 /\ Len(s.ids) # s.type - 1) THEN "astray"
  ELSE IF Omits(writeIDSet, s) THEN "other" ELSE "same"
RECURSIVE DisplayFate(_)
DisplayFate(d) ==
  LET children == Worst({DisplayFate(d.children[i]) : i \in DOMAIN d.children})
      wrong(n) == Len(d.children) # n
  IN Worst({IF Omits(writeSlotDisplay[2], d) THEN "other" ELSE "same",
            CASE d.type = "item_stack" -> "astray"
              [] d.type = "smithing_trim" -> IF wrong(3) THEN "other" ELSE children
              [] d.type = "with_remainder" -> IF wrong(2) THEN "other" ELSE children
              [] d.type = "composite" -> children
              [] OTHER -> "same"})

Fate(name, v) ==
  CASE name \in {"Vector3", "BlockCoordinates"} -> IF env.rightToLeft /\ v.x # v.z THEN "other" ELSE "same"
    [] name = "Vector2" -> IF env.rightToLeft /\ v.x # v.y THEN "other" ELSE "same"
    [] name = "PlayerLocation" ->
         IF env.rightToLeft THEN "astray"
         ELSE IF \A angle \in {v.pitch, v.headYaw, v.yaw} : angle % 2 = 0 /\ angle \in -(2 ^ OctetBits) .. 2 ^ OctetBits - 1
         THEN "same" ELSE "other"
    [] name = "IDSet" -> IDSetFate(v)
    [] name = "SoundEvent" -> SoundFate(v)
    [] name = "FlaggedXorY" -> IF Len(v.x) = Len(v.y) THEN "astray" ELSE "same"
    [] name = "XorY" -> IF v.x # <<>> /\ getVarNumericLength(v.x[1]) = 2 THEN "other" ELSE "astray"
    [] name = "NBT" -> NbtFate(v)
    [] name \in {"FixedBitSet"} -> IF v.highest # NPOS /\ v.highest % OctetBits = 0 THEN "other" ELSE "same"
    [] name = "EnumSet" -> IF v # <<>> /\ GreatestOf({v[i] : i \in DOMAIN v}) % OctetBits = 0 THEN "other" ELSE "same"
    [] name = "ChatType" -> Worst({NbtFate(v.style), NbtFate(v.narrationStyle),
                                   IF v.parameters = v.narrationParameters THEN "same" ELSE "other"})
    [] name = "ChunkData" -> Worst(UNION {{NbtFate(b.data), IF b.at.x < Nibble /\ b.at.z < Nibble THEN "same" ELSE "other"} :
                                          b \in {v.blockEntities[i] : i \in DOMAIN v.blockEntities}})
    [] name = "LightData" ->
         Worst({OwnFate("u64", ValuesOf(toLongArray(mask))) : mask \in {v.sky, v.block, v.emptySky, v.emptyBlock}})
    [] name = "PartialDataComponentMatcher" -> OwnNbtFate(v.predicate)
    [] name = "Property" -> IF Omits(writeProperty[2], v) THEN "other" ELSE "same"
    [] name = "FireworkExplosion" ->
         IF v.shape \in DOMAIN Shapes THEN OwnFate("i32", ValuesOf(v.colors \o v.fadeColors)) ELSE "other"
    [] name = "TrimMaterial" -> IF \E i \in DOMAIN v.overrides : Len(v.overrides[i]) # 2 THEN "astray"
                                ELSE TextFate(v.description)
    [] name = "TrimPattern" -> TextFate(v.description)
    [] name \in {"Instrument", "JukeBox"} ->
         Worst({TextFate(v.description), IF v.soundEvent.id = 0 THEN OwnSoundFate(v.soundEvent.value) ELSE "same"})
    [] name = "ConsumeEffect" ->
         Worst({IF Omits(writeConsumeEffect[2], v) THEN "other" ELSE "same",
                CASE v.type = "apply_effects" -> "astray"
                  [] v.type = "remove_effects" -> IDSetFate(v.effectsRemove)
                  [] v.type = "teleport_randomly" -> OwnFate("f32", {v.diameter})
                  [] v.type = "play_sound" -> OwnSoundFate(v.sound)
                  [] OTHER -> "same"})
    [] name = "SlotDisplay" -> DisplayFate(v)
    [] name = "RecipeDisplay" ->
         LET wrong == \/ v.type \in {"furnace", "stonecutter"} /\ Len(v.ingredients) # 1
                      \/ v.type = "smithing" /\ Len(v.ingredients) # 3
         IN Worst({IF wrong \/ Omits(writeRecipeDisplay[2], v) THEN "other" ELSE "same",
                   OwnFate("f32", {v.experience}), DisplayFate(v.result), DisplayFate(v.craftingStation)} \cup
                  (IF v.type = "furnace" THEN {DisplayFate(v.fuel)} ELSE {}) \cup
                  (IF wrong THEN {} ELSE {DisplayFate(v.ingredients[i]) : i \in DOMAIN v.ingredients}))
    [] name = "Registry" -> Worst(UNION {{NbtFate(d[i]) : i \in DOMAIN d} :
                                         d \in {v.entries[i].data : i \in DOMAIN v.entries}})
    [] OTHER -> "same"

\* A record comes back as it was written, whatever is in front of it in the buffer and
\* wherever the blocks' boundaries are - except where the writer and the reader in
\* ByteBuffer.cpp, GameTypes.cpp, Recipe.cpp and DefaultRegistries.cpp disagree, which is
\* in the cases of Fate and in no others: a field one of them leaves out, an order of
\* evaluation, NBT in two forms, and the numbers of a toBytes() in a buffer that is not
\* big-endian as its own is.
ReadBack ==
  outcome.name \notin {"none", "Text", "Document"}
    => outcome.result = Fate(outcome.name, outcome.value)

\* A text read back is the text written - operator== says so - exactly if it is an empty
\* text with styles and such texts appended; the content of every other kind, and what a
\* click or hover event is about, is lost as the reader only looks at them when the type
\* or the action is missing, which the writer never leaves out.  A document without a
\* type keeps its text, but nothing of the text inside a hover event.
TextSurvives ==
  CASE outcome.name = "Text" -> outcome.result = TextFate(outcome.value)
    [] outcome.name = "Document" /\ env.bigEndian ->
         outcome.result = "same" <=>
           /\ \A kind \in {Meant(outcome.value, KindOfTag)} : kind \in {<<>>, word("text")}
           /\ ~Has(outcome.value, "type")
           /\ ~Has(Child(outcome.value, "hover_event"), "value")
    [] OTHER -> TRUE

\* A component's bytes as a polynomial: those of its bits that are set, the first one the
\* highest, the first word of them inverted, with room for a word behind them.
Generator == {Cardinality(Register)} \cup {Cardinality(Register) - 1 - j : j \in Polynomial}
Framed(data) ==
  LET length == OctetBits * Len(data)
      sent == {i \in 0 .. length - 1 : i % OctetBits \in BitsOf(data[i \div OctetBits + 1][2], OctetBits)}
  IN SymDiff({length - 1 - i + Cardinality(Register) : i \in sent}, {length + j : j \in Register})
RECURSIVE IsMultiple(_)
IsMultiple(p) ==
  \/ p = {}
  \/ \E over \in {GreatestOf(p) - Cardinality(Register)} :
       over >= 0 /\ IsMultiple(SymDiff(p, {e + over : e \in Generator}))

\* The bytes of two hashed slots are the same, and their peer takes the one for the other,
\* exactly if nothing differs but what their components hold, and that by a multiple of
\* the polynomial: crc32, byte by byte with a table that is filled elsewhere, is the
\* remainder of a division.
HashTells ==
  Len(written) = 2 /\ written[1][1] = "HashedSlot"
    => \E v \in {written[1][2]}, w \in {written[2][2]} :
         EncodedHere("HashedSlot", v) = EncodedHere("HashedSlot", w)
           <=> \/ v.itemCount <= 0 /\ w.itemCount <= 0
               \/ /\ v.itemCount > 0
                  /\ [v EXCEPT !.add = <<>>] = [w EXCEPT !.add = <<>>]
                  /\ Len(v.add) = Len(w.add)
                  /\ \A i \in DOMAIN v.add :
                       /\ v.add[i].type = w.add[i].type
                       /\ IsMultiple(SymDiff(Framed(v.add[i].dataAndType), Framed(w.add[i].dataAndType)))
=============================================================================
