----------------------------- MODULE ZincTypes -----------------------------
(***************************************************************************)
(* The game's data types in a ByteBuffer: for each what its toBytes() or   *)
(* writer writes, and what its reader reads.                               *)
(*                                                                         *)
(* Both are given as formats, which write and read put to work.  A record  *)
(* is a sequence of fields <<name, format, on, values>>: the field is      *)
(* there when the field "on" of the same record has one of the values (on  *)
(* = "": always).  What a reader leaves out keeps the default of the type, *)
(* which is 0 for a member no constructor sets.                            *)
(*                                                                         *)
(* What a type's toBytes() or a registry's writer writes, it writes into a *)
(* buffer of its own (Own) and the bytes are copied from there.            *)
(***************************************************************************)
EXTENDS ZincText, ZincBitSet

CONSTANT MaxInt      \* the largest count and number that occurs

Num(kind) == <<"number", kind>>
Byte8 == Num("b")
Int32 == Num("i32")
Long64 == Num("i64")
Float32 == Num("f32")
Short == <<"short">>
Var == <<"var">>
Str == <<"string">>
Ident == <<"identifier">>
Bytes == <<"bytes">>               \* with their number before them
Raw == <<"raw">>                   \* without; no reader reads them
Nbt == <<"nbt">>
Text == <<"text">>
Bitset == <<"bitset">>
FixedBitset(n) == <<"fixed", n>>   \* n: how many bytes the reader takes
EnumSet(n) == <<"enums", n>>
XZ_ == <<"xz">>
Angle == <<"angle">>
Flags == <<"flags">>
Checksum == <<"checksum">>
Size == <<"size">>                 \* of a field, without the field
Has_ == <<"has">>                  \* whether an optional field is there, without it
OrZero(f) == <<"orzero", f>>       \* the optional field, or 0
Array(f) == <<"array", f>>         \* with its length before it
Each(f) == <<"each", f>>           \* without
Times(f, on, less) == <<"times", f, on, less>>    \* as many as field "on" says, less so many
Exactly(n, f, default) == <<"exactly", n, f, default>>
Pairs(f) == <<"pairs", f>>
Optional(f) == <<"optional", f>>
Key(ids, default) == <<"key", ids, default>>
Ref(name) == <<"ref", name>>
Own(f) == <<"own", f>>             \* by toBytes(): into a buffer of its own, which is big-endian
Either(flagged, x, y) == <<"either", flagged, x, y>>
Record(default, fields) == <<"record", default, fields>>
Arguments(default, fields) == <<"arguments", default, fields>>   \* of one call: read in either order
F(name, f) == <<name, f, "", {}>>
If(name, f, on, values) == <<name, f, on, values>>
Positive == 1 .. MaxInt

----------------------------------------------------------------------------
(* Small types. *)

NoVector == [x |-> 0, y |-> 0, z |-> 0]
Vector3 == <<F("x", Float32), F("y", Float32), F("z", Float32)>>
writeVector3 == Record(NoVector, Vector3)
readVector3 == Arguments(NoVector, Vector3)
writeVector2 == Record([x |-> 0, y |-> 0], <<F("x", Float32), F("y", Float32)>>)
readVector2 == Arguments([x |-> 0, y |-> 0], <<F("x", Float32), F("y", Float32)>>)
Coordinates == <<F("x", Var), F("y", Var), F("z", Var)>>
writeBlockCoordinates == Record(NoVector, Coordinates)
readBlockCoordinates == Arguments(NoVector, Coordinates)

\* An angle is counted in halves of the steps of 1 / 0.71 degrees a byte has.
NoLocation == [position |-> NoVector, pitch |-> 0, headYaw |-> 0, yaw |-> 0]
writePlayerLocation ==
  Record(NoLocation, <<F("position", writeVector3), F("pitch", Angle), F("headYaw", Angle), F("yaw", Angle)>>)
readPlayerLocation ==
  Arguments(NoLocation, <<F("position", readVector3), F("pitch", Angle), F("headYaw", Angle), F("yaw", Angle)>>)

NoIDSet == [type |-> -1, identifier |-> <<Colon>>, ids |-> <<>>]
IDs(ids) == [NoIDSet EXCEPT !.type = Len(ids) + 1, !.ids = ids]
writeIDSet ==
  Record(NoIDSet, <<F("type", Var), If("identifier", Ident, "type", {0}),
                    If("ids", Each(Var), "type", (-MaxInt .. MaxInt) \ {0})>>)
readIDSet ==
  Record(NoIDSet, <<F("type", Var), If("ids", Times(Var, "type", 1), "type", (-MaxInt .. MaxInt) \ {0}),
                    If("identifier", Ident, "type", {0})>>)

NoSound == [identifier |-> <<Colon>>, range |-> <<>>]
writeSoundEventFlagged ==  \* mutant: the range is only written when there is one
  Record(NoSound, <<F("identifier", Ident), F("range", Optional(Float32))>>)
writeSoundEvent ==
  Record(NoSound, <<F("identifier", Ident), F("range", Has_), F("range", OrZero(Float32))>>)
readSoundEvent == Record(NoSound, <<F("identifier", Ident), F("range", Optional(Float32))>>)

IDorX(x, absent) == Record([id |-> -1, value |-> absent], <<F("id", Var), If("value", x, "id", {0})>>)

\* A teleport's flags are a set of their numbers.
writeTeleportFlags == Flags
readTeleportFlags == Flags

\* One of two; with the member functions as arguments the flag is not written.
NoEither == [x |-> <<>>, y |-> <<>>]
writeXorY(flagged, x, y) == Either(flagged, x, y)
readXorY(x, y) == Either(TRUE, x, y)

----------------------------------------------------------------------------
(* Chat types, slots, chunks. *)

NoChat == [key |-> <<>>, parameters |-> <<>>, style |-> NoElement,
           narrationKey |-> <<>>, narrationParameters |-> <<>>, narrationStyle |-> NoElement]
\* The chat's parameters are written for the narration too.
writeChatType ==
  Record(NoChat, <<F("key", Str), F("parameters", Array(Var)), F("style", Nbt),
                   F("narrationKey", Str), F("parameters", Array(Var)), F("narrationStyle", Nbt)>>)
readChatType ==
  Record(NoChat, <<F("key", Str), F("parameters", Array(Var)), F("style", Nbt),
                   F("narrationKey", Str), F("narrationParameters", Array(Var)), F("narrationStyle", Nbt)>>)

NoSlot == [itemId |-> -1, itemCount |-> 0, add |-> <<>>, remove |-> <<>>]
Component(type, data) == [type |-> type, dataAndType |-> data]
toBytes_Slot ==
  Own(Record(NoSlot, <<F("itemCount", Var)>> \o
        LET some(name, f) == If(name, f, "itemCount", Positive)
        IN <<some("itemId", Var), some("add", Size), some("remove", Size),
             some("add", Each(Record(Component(0, <<>>), <<F("dataAndType", Raw)>>))), some("remove", Each(Var))>>))
\* The components' checksums instead of what they hold.
toBytesHashed ==
  Own(Record(NoSlot, <<F("itemCount", <<"positive">>)>> \o
        LET some(name, f) == If(name, f, "itemCount", Positive)
        IN <<some("itemId", Var), some("itemCount", Var),
             some("add", Array(Record(Component(0, <<>>), <<F("type", Var), F("dataAndType", Checksum)>>))),
             some("remove", Array(Var))>>))

LightData ==
  <<F("sky", Bitset), F("block", Bitset), F("emptySky", Bitset), F("emptyBlock", Bitset),
    F("skyArrays", Array(Bytes)), F("blockArrays", Array(Bytes))>>
NoLight == [sky |-> EmptyBitSet, block |-> EmptyBitSet, emptySky |-> EmptyBitSet, emptyBlock |-> EmptyBitSet,
            skyArrays |-> <<>>, blockArrays |-> <<>>]
writeLightData == Own(Record(NoLight, LightData))
readLightData == Record(NoLight, LightData)

\* x and z of a block entity share a byte, half of it each.
NoBlockEntity == [at |-> [x |-> 0, z |-> 0], y |-> 0, type |-> 0, data |-> NoElement]
BlockEntity == Record(NoBlockEntity, <<F("at", XZ_), F("y", Short), F("type", Var), F("data", Nbt)>>)
HeightMap == Record([type |-> 0, data |-> <<>>], <<F("type", Var), F("data", Array(Long64))>>)
NoChunk == [heightMaps |-> <<>>, data |-> <<>>, blockEntities |-> <<>>]
writeChunkData ==
  Record(NoChunk, <<F("heightMaps", Array(HeightMap)), F("data", Bytes), F("blockEntities", Array(BlockEntity))>>)
readChunkData ==
  Record(NoChunk, <<F("heightMaps", Array(HeightMap)), F("data", Bytes), F("blockEntities", Array(BlockEntity))>>)

----------------------------------------------------------------------------
(* GameTypes *)

NoMatcher == [type |-> -1, predicate |-> NoElement]
writePartialDataComponentMatcher == Own(Record(NoMatcher, <<F("type", Var), F("predicate", Nbt)>>))
readPartialDataComponentMatcher == Record(NoMatcher, <<F("type", Var), F("predicate", Nbt)>>)

NoProperty == [name |-> <<>>, isExact |-> 0, exactValue |-> <<>>, minValue |-> <<>>, maxValue |-> <<>>]
\* The constructors; the one with a range makes an exact property of it too.
ExactProperty(name, value) == [NoProperty EXCEPT !.name = name, !.isExact = 1, !.exactValue = value]
RangeProperty(name, min, max) ==
  [NoProperty EXCEPT !.name = name, !.isExact = 1, !.minValue = min, !.maxValue = max]
PropertyFields ==
  <<F("name", Str), F("isExact", Byte8), If("exactValue", Str, "isExact", Positive),
    If("minValue", Str, "isExact", {0}), If("maxValue", Str, "isExact", {0})>>
writeProperty == Own(Record(NoProperty, PropertyFields))
readProperty == Record(NoProperty, PropertyFields)

\* The registry's ids; an unknown shape is written as 0, an unknown id read as small.
Shapes == [small |-> 0, large |-> 1, star |-> 2, creeper |-> 3, burst |-> 4]
NoFirework == [shape |-> "unknown", colors |-> <<>>, fadeColors |-> <<>>, hasTrail |-> 0, hasTwinkle |-> 0]
FireworkFields ==
  <<F("shape", Key(Shapes, "small")), F("colors", Array(Int32)), F("fadeColors", Array(Int32)),
    F("hasTrail", Byte8), F("hasTwinkle", Byte8)>>
writeFireworkExplosion == Own(Record(NoFirework, FireworkFields))
readFireworkExplosion == Record(NoFirework, FireworkFields)

NoDetail == [amplifier |-> 1, duration |-> 30, ambient |-> 0, showParticles |-> 0, showIcon |-> 0, hiddenEffect |-> <<>>]
DetailFields ==
  <<F("amplifier", Var), F("duration", Var), F("ambient", Byte8), F("showParticles", Byte8), F("showIcon", Byte8),
    F("hiddenEffect", Optional(Ref("PotionEffectDetail")))>>
writePotionEffectDetail == Own(Record(NoDetail, DetailFields))
readPotionEffectDetail == Record(NoDetail, DetailFields)
NoEffect == [type |-> -1, detail |-> NoDetail]
writePotionEffect == Own(Record(NoEffect, <<F("type", Var), F("detail", Ref("PotionEffectDetail"))>>))
readPotionEffect == Record(NoEffect, <<F("type", Var), F("detail", Ref("PotionEffectDetail"))>>)

\* All overrides are counted, and those that are not pairs are then not written.
NoMaterial == [suffix |-> <<>>, overrides |-> <<>>, description |-> EmptyText]
writeTrimMaterial ==
  Own(Record(NoMaterial, <<F("suffix", Str), F("overrides", Size), F("overrides", Pairs(<<Ident, Str>>)),
                           F("description", Text)>>))
readTrimMaterial ==
  Record(NoMaterial, <<F("suffix", Str), F("overrides", Array(<<"pair", <<Ident, Str>> >>)), F("description", Text)>>)
NoPattern == [asset |-> <<>>, templateItem |-> -1, description |-> EmptyText, decal |-> 0]
PatternFields == <<F("asset", Str), F("templateItem", Var), F("description", Text), F("decal", Byte8)>>
writeTrimPattern == Own(Record(NoPattern, PatternFields))
readTrimPattern == Record(NoPattern, PatternFields)

NoInstrument == [soundEvent |-> [id |-> -1, value |-> NoSound], soundRange |-> -1, range |-> -1, description |-> EmptyText]
writeInstrument ==
  Own(Record(NoInstrument, <<F("soundEvent", IDorX(writeSoundEvent, NoSound)), F("soundRange", Float32),
                             F("range", Float32), F("description", Text)>>))
readInstrument ==
  Record(NoInstrument, <<F("soundEvent", IDorX(readSoundEvent, NoSound)), F("soundRange", Float32),
                         F("range", Float32), F("description", Text)>>)
NoJukeBox == [soundEvent |-> [id |-> -1, value |-> NoSound], description |-> EmptyText, duration |-> -1, output |-> -1]
writeJukeBox ==
  Own(Record(NoJukeBox, <<F("soundEvent", IDorX(writeSoundEvent, NoSound)), F("description", Text),
                          F("duration", Float32), F("output", Var)>>))
readJukeBox ==
  Record(NoJukeBox, <<F("soundEvent", IDorX(readSoundEvent, NoSound)), F("description", Text),
                      F("duration", Float32), F("output", Var)>>)

NoPredicate == [blocks |-> <<>>, properties |-> <<>>, nbt |-> <<>>, components |-> <<>>, partial |-> <<>>]
toBytes_BlockPredicate ==
  Own(Record(NoPredicate, <<F("blocks", Optional(writeIDSet)), F("properties", Optional(Array(writeProperty))),
                            F("nbt", Optional(Nbt)), F("components", Array(Raw)),
                            F("partial", Array(writePartialDataComponentMatcher))>>))

----------------------------------------------------------------------------
(* Types whose registry says what is behind their id. *)

ConsumeEffects ==
  [apply_effects |-> 0, remove_effects |-> 1, clear_effects |-> 2, teleport_randomly |-> 3, play_sound |-> 4]
NoConsumeEffect == [type |-> "clear_effects", effects |-> <<>>, probability |-> 0, effectsRemove |-> NoIDSet,
                    diameter |-> 0, sound |-> NoSound]
ConsumeEffectWriters ==
  <<If("effects", Each(writePotionEffect), "type", {"apply_effects"}),
    If("probability", Float32, "type", {"apply_effects"}),
    If("effectsRemove", writeIDSet, "type", {"remove_effects"}),
    If("diameter", Float32, "type", {"teleport_randomly"}),
    If("sound", writeSoundEvent, "type", {"play_sound"})>>
ConsumeEffectReaders ==
  <<If("effectsRemove", readIDSet, "type", {"remove_effects"}),
    If("diameter", Float32, "type", {"teleport_randomly"}),
    If("sound", readSoundEvent, "type", {"play_sound"})>>
writeConsumeEffect ==
  Own(Record(NoConsumeEffect, <<F("type", Key(ConsumeEffects, "clear_effects"))>> \o ConsumeEffectWriters))
readConsumeEffect ==
  Record(NoConsumeEffect, <<F("type", Key(ConsumeEffects, "clear_effects"))>> \o ConsumeEffectReaders)

SlotDisplays == [empty |-> 0, any_fuel |-> 1, item |-> 2, item_stack |-> 3, tag |-> 4,
                 smithing_trim |-> 5, with_remainder |-> 6, composite |-> 7]
NoDisplay == [type |-> "empty", itemType |-> 0, itemStack |-> NoSlot, tag |-> <<Colon>>, children |-> <<>>]
SlotDisplayWriters ==
  <<If("itemType", Var, "type", {"item"}), If("itemStack", toBytes_Slot, "type", {"item_stack"}),
    If("tag", Ident, "type", {"tag"}),
    If("children", Exactly(3, Ref("SlotDisplay"), NoDisplay), "type", {"smithing_trim"}),
    If("children", Exactly(2, Ref("SlotDisplay"), NoDisplay), "type", {"with_remainder"}),
    If("children", Array(Ref("SlotDisplay")), "type", {"composite"})>>
SlotDisplayReaders ==
  <<If("itemType", Var, "type", {"item"}), If("tag", Ident, "type", {"tag"}),
    If("children", Exactly(3, Ref("SlotDisplay"), NoDisplay), "type", {"smithing_trim"}),
    If("children", Exactly(2, Ref("SlotDisplay"), NoDisplay), "type", {"with_remainder"}),
    If("children", Array(Ref("SlotDisplay")), "type", {"composite"})>>
writeSlotDisplay == Own(Record(NoDisplay, <<F("type", Key(SlotDisplays, "empty"))>> \o SlotDisplayWriters))
readSlotDisplay == Record(NoDisplay, <<F("type", Key(SlotDisplays, "empty"))>> \o SlotDisplayReaders)

RecipeDisplays == [crafting_shapeless |-> 0, crafting_shaped |-> 1, furnace |-> 2, stonecutter |-> 3, smithing |-> 4]
NoRecipe == [type |-> "crafting_shapeless", width |-> 0, height |-> 0, ingredients |-> <<>>, fuel |-> NoDisplay,
             result |-> NoDisplay, craftingStation |-> NoDisplay, cookingTime |-> 0, experience |-> 0]
RecipeDisplayWriters ==
  LET Display == Ref("SlotDisplay")
  IN <<If("width", Var, "type", {"crafting_shaped"}), If("height", Var, "type", {"crafting_shaped"}),
       If("ingredients", Array(Display), "type", {"crafting_shapeless", "crafting_shaped"}),
       If("ingredients", Exactly(1, Display, NoDisplay), "type", {"furnace", "stonecutter"}),
       If("ingredients", Exactly(3, Display, NoDisplay), "type", {"smithing"}),
       If("fuel", Display, "type", {"furnace"}),
       F("result", Display), F("craftingStation", Display),
       If("cookingTime", Var, "type", {"furnace"}), If("experience", Float32, "type", {"furnace"})>>
RecipeDisplayReaders == RecipeDisplayWriters   \* field for field
writeRecipeDisplay == Own(Record(NoRecipe, <<F("type", Key(RecipeDisplays, "crafting_shapeless"))>> \o RecipeDisplayWriters))
readRecipeDisplay == Record(NoRecipe, <<F("type", Key(RecipeDisplays, "crafting_shapeless"))>> \o RecipeDisplayReaders)

\* What a configuring client is sent of a registry: names, each with its data or none.
Registry(data) ==
  Record([name |-> <<>>, entries |-> <<>>],
         <<F("name", Ident), F("entries", Array(Record([key |-> <<>>, data |-> <<>>],
            <<F("key", Str), F("data", Optional(data))>>)))>>)
getNetworkRegistry == Registry(Nbt)
============================================================================
