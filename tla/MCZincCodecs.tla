--------------------------- MODULE MCZincCodecs ---------------------------
(***************************************************************************)
(* A model-checking instance of ZincCodecs: for every type the values that *)
(* take its writer and its reader through each of their branches.          *)
(***************************************************************************)
EXTENDS ZincCodecs

a == word("a")
b == word("b")
id == word("zinc") \o <<Colon>> \o a
other == word("zinc") \o <<Colon>> \o b

\* NBT elements.
E(type, tag, value) == Scalar(type, tag, value)
Listed(elements) == Parent("List", <<>>, elements)
Of(tag, elements) == Parent("Compound", tag, elements)
Leaves == {E("Byte", <<>>, 1), E("Short", <<>>, -3), E("Int", <<>>, -9), E("Long", <<>>, 20),
           E("Float", <<>>, 2), E("Double", <<>>, 2), E("String", <<>>, a), E("ByteArray", <<>>, <<1, 2>>),
           E("IntArray", <<>>, <<3>>), E("LongArray", <<>>, <<>>)}
Lists == {Listed(<<>>), Listed(<<E("Byte", <<>>, 1), E("Byte", <<>>, 0)>>),
          Listed(<<E("Int", <<>>, 1), E("String", <<>>, a)>>), Listed(<<E("Int", <<>>, 1)>>),
          Listed(<<NoElement>>), Listed(<<Of(<<>>, <<>>)>>), Listed(<<Of(<<>>, <<E("Int", a, 1)>>)>>)}
Named(e) == [e EXCEPT !.tag = a]
Elements ==
  {NoElement, Of(<<>>, <<>>), Of(a, <<E("Int", b, 1)>>), Of(<<>>, <<NoElement>>),
   Of(<<>>, <<Of(a, <<E("String", b, b)>>), E("Byte", b, 0)>>)}
  \cup Leaves \cup {E("Int", a, 1)} \cup Lists
  \cup {Of(<<>>, <<Named(e)>>) : e \in Leaves \cup Lists}

\* Texts: every kind, style, event and text inside another.
Plain == [EmptyText EXCEPT !.type = <<"text">>]
Styled == [Plain EXCEPT !.style["color"] = <<a>>, !.style["bold"] = <<1>>, !.style["italic"] = <<0>>]
Said == textBuilder("text", a)
Clicking(c) == [Plain EXCEPT !.click = <<c>>]
Hovering(h) == [Plain EXCEPT !.hover = <<h>>]
Item == [NoItem EXCEPT !.id = id, !.count = <<2>>]
Being == [NoEntity EXCEPT !.id = id, !.name = <<Said>>]
Texts ==
  {EmptyText, Plain, Styled, Said, append(Styled, Styled), append(Plain, Said),
   append(Plain, append(Plain, Plain)),
   textBuilder("translatable", [NoTranslatable EXCEPT !.translate = a, !.with = <<Said>>]),
   textBuilder("score", [NoScore EXCEPT !.name = a]), textBuilder("selector", NoSelector),
   textBuilder("keybind", a), textBuilder("nbt", nbtBuilder("entity", a, b)),
   [EmptyText EXCEPT !.content["keybind"] = <<b>>],
   Clicking(clickBuilder("open_url", a)), Clicking(clickBuilder("change_page", 3)),
   Clicking(clickBuilder("change_page", 0)), Clicking(clickBuilder("run_command", a)), Clicking(NoClick),
   Hovering(NoHover), Hovering(showText(Said)), Hovering(showItem(Item)), Hovering(showItem(NoItem)),
   Hovering(showEntity(Being)), Hovering(showEntity(NoEntity))}

\* Documents a peer or a file holds, without the type encode() always writes.
Documents ==
  {Of(<<>>, <<S("text", a)>>), Of(<<>>, <<S("text", a), E("Byte", word("bold"), 1)>>),
   Of(<<>>, <<S("text", a), S("type", word("text"))>>),
   Of(<<>>, <<S("keybind", a)>>), Of(<<>>, <<S("translate", a)>>),
   Of(<<>>, <<S("text", a), Of(word("click_event"), <<S("url", a)>>)>>),
   Of(<<>>, <<S("text", a), Of(word("hover_event"), <<Of(word("value"), <<S("text", b)>>)>>)>>),
   Of(<<>>, <<S("text", a), Parent("List", word("extra"), <<Of(<<>>, <<S("text", b)>>)>>)>>)}

Facing(pitch, headYaw, yaw) ==
  [NoLocation EXCEPT !.position.x = 6, !.pitch = pitch, !.headYaw = headYaw, !.yaw = yaw]
\* The last three are what setIDs, setIdentifier and setType leave when they follow each other.
Sets == {NoIDSet, IDs(<<>>), IDs(<<4, 9>>), [NoIDSet EXCEPT !.type = 0, !.identifier = id],
         [IDs(<<4>>) EXCEPT !.type = 0, !.identifier = id], [IDs(<<4>>) EXCEPT !.identifier = id],
         [IDs(<<4>>) EXCEPT !.type = 3]}
Ranged == [identifier |-> id, range |-> <<5>>]
Unranged == [identifier |-> id, range |-> <<>>]
OneBit(pos) == set(EmptyBitSet, pos)

Exact == ExactProperty(a, b)
Range_ == RangeProperty(a, a, b)
Between == [Range_ EXCEPT !.isExact = 0]
Detail == [NoDetail EXCEPT !.hiddenEffect = <<NoDetail>>]
Potion == [type |-> 3, detail |-> Detail]
Data(n, last) == [i \in 1 .. n |-> Octet(IF i = n THEN last ELSE 4)]
\* With the checksums of Data(5, 5) and of Data(1, 5).
Collisions == {<<Octet(5), Octet(5), Octet(12), Octet(4), Octet(4)>>, <<Octet(12), Octet(4), Octet(0), Octet(11)>>}
Full == [itemId |-> 1, itemCount |-> 2, add |-> <<Component(4, <<Octet(4)>>)>>, remove |-> <<7>>]
Shown(type) == [NoDisplay EXCEPT !.type = type]
Inside(type, displays) == [NoDisplay EXCEPT !.type = type, !.children = displays]
Oak == [Shown("item") EXCEPT !.itemType = 9]
Logs == [Shown("tag") EXCEPT !.tag = id]
Displays ==
  {NoDisplay, Shown("any_fuel"), Oak, Logs, [Shown("item_stack") EXCEPT !.itemStack = Full],
   Inside("smithing_trim", <<Oak, Logs, NoDisplay>>), Inside("smithing_trim", <<Oak>>),
   Inside("with_remainder", <<Oak, Logs>>), Inside("with_remainder", <<>>),
   Inside("composite", <<Oak, Inside("composite", <<Logs>>)>>),
   Inside("composite", <<Shown("item_stack")>>), [Oak EXCEPT !.tag = id],
   [Inside("composite", <<Oak, Shown("item_stack")>>) EXCEPT !.itemType = 1]}
Recipe(type, n) ==
  [NoRecipe EXCEPT !.type = type, !.ingredients = [i \in 1 .. n |-> Oak], !.result = Logs,
   !.fuel = IF type = "furnace" THEN Shown("any_fuel") ELSE NoDisplay,
   !.width = IF type = "crafting_shaped" THEN 1 ELSE 0, !.cookingTime = IF type = "furnace" THEN 9 ELSE 0]
Recipes ==
  {Recipe("crafting_shapeless", 2), Recipe("crafting_shaped", 1), Recipe("furnace", 1), Recipe("furnace", 2),
   Recipe("stonecutter", 1), Recipe("stonecutter", 0), Recipe("smithing", 3), Recipe("smithing", 2),
   [Recipe("crafting_shapeless", 0) EXCEPT !.result = [Shown("item_stack") EXCEPT !.itemStack = Full]],
   [Recipe("furnace", 1) EXCEPT !.experience = 3], [Recipe("smithing", 3) EXCEPT !.cookingTime = 9],
   [Recipe("furnace", 1) EXCEPT !.fuel = Inside("with_remainder", <<>>)]}

Chat(parameters, narration, style) ==
  [key |-> a, parameters |-> parameters, style |-> style,
   narrationKey |-> b, narrationParameters |-> narration, narrationStyle |-> Of(<<>>, <<>>)]
Chunk(x, data) ==
  [heightMaps |-> <<[type |-> 1, data |-> <<5, 6>>]>>, data |-> <<Octet(1)>>,
   blockEntities |-> <<[at |-> [x |-> x, z |-> 2], y |-> -1, type |-> 3, data |-> data]>>]
Tune(sound, description) ==
  [NoJukeBox EXCEPT !.soundEvent = sound, !.description = description, !.duration = 6, !.output = 8]
Horn(sound) == [NoInstrument EXCEPT !.soundEvent = sound, !.soundRange = 6, !.range = 7]
Predicate(properties) == [NoPredicate EXCEPT !.blocks = <<IDs(<<4>>)>>, !.properties = properties]

Values ==
  [Vector3 |-> {[x |-> 1, y |-> 2, z |-> 3], [x |-> 4, y |-> 5, z |-> 4]},
   Vector2 |-> {[x |-> 1, y |-> 2], [x |-> 3, y |-> 3]},
   BlockCoordinates |-> {[x |-> -1, y |-> 8, z |-> 3], NoVector},
   PlayerLocation |-> {Facing(2, -16, 14), Facing(0, 0, 3), Facing(0, 20, 0)},
   IDSet |-> Sets, SoundEvent |-> {Ranged, Unranged}, TeleportFlags |-> {{}, {0, 5}, {1, 8}},
   FlaggedXorY |-> {NoEither, [x |-> <<9>>, y |-> <<>>], [x |-> <<>>, y |-> <<1>>], [x |-> <<9>>, y |-> <<1>>]},
   XorY |-> {[x |-> <<9>>, y |-> <<>>], [x |-> <<>>, y |-> <<1>>]},
   NBT |-> Elements, Text |-> Texts, Document |-> Documents,
   EnumSet |-> {<<>>, <<0>>, <<1>>, <<2, 4>>, <<3, 5, 1>>},
   ChatType |-> {Chat(<<1>>, <<1>>, NoElement), Chat(<<1>>, <<2, 3>>, NoElement), Chat(<<>>, <<>>, Of(a, <<>>))},
   LightData |-> {[NoLight EXCEPT !.sky = OneBit(9), !.skyArrays = <<<<Octet(1), Octet(2)>>, <<>>>>],
                  [NoLight EXCEPT !.emptyBlock = set(OneBit(0), 3), !.blockArrays = <<<<Octet(3)>>>>],
                  [NoLight EXCEPT !.block = set(OneBit(0), 4), !.emptySky = set(OneBit(11), 15)]},
   ChunkData |-> {NoChunk, Chunk(1, Of(<<>>, <<E("Int", a, 1)>>)), Chunk(Nibble, NoElement), Chunk(1, Of(a, <<>>))},
   PartialDataComponentMatcher |-> 
     {[type |-> 1, predicate |-> e] :
        e \in {NoElement, E("String", <<>>, Data(7, 4)), E("String", <<>>, Data(8, 4)), Of(<<>>, <<>>), Of(a, <<>>), Of(<<>>, <<E("Byte", <<>>, 0)>>)}
              \cup {E("Int", <<>>, -9), E("IntArray", <<>>, <<3>>)}},
   Property |-> {NoProperty, Exact, Range_, Between},
   FireworkExplosion |-> {NoFirework, [NoFirework EXCEPT !.shape = "star", !.colors = <<6>>, !.hasTrail = 1],
                          [NoFirework EXCEPT !.shape = "burst", !.colors = <<0, -1>>],
                          [NoFirework EXCEPT !.shape = "large", !.fadeColors = <<0, 7>>],
                          [NoFirework EXCEPT !.shape = "small"]},
   PotionEffect |-> {NoEffect, Potion},
   TrimMaterial |-> {NoMaterial, [NoMaterial EXCEPT !.overrides = <<<<id, a>>, <<other, b>>>>],
                     [NoMaterial EXCEPT !.overrides = <<<<id>>>>], [NoMaterial EXCEPT !.description = Said]},
   TrimPattern |-> {[NoPattern EXCEPT !.asset = a, !.templateItem = 5, !.description = Styled],
                    [NoPattern EXCEPT !.description = Said]},
   Instrument |-> {Horn([id |-> 3, value |-> NoSound]), Horn([id |-> 0, value |-> Ranged]),
                   Horn([id |-> 0, value |-> Unranged])},
   JukeBox |-> {Tune([id |-> 3, value |-> NoSound], Plain), Tune([id |-> 0, value |-> Ranged], Said)},
   ConsumeEffect |-> {NoConsumeEffect, [NoConsumeEffect EXCEPT !.diameter = 4], [NoConsumeEffect EXCEPT !.type = "apply_effects", !.effects = <<Potion>>],
                      [NoConsumeEffect EXCEPT !.type = "teleport_randomly", !.diameter = 4],
                      [NoConsumeEffect EXCEPT !.type = "play_sound", !.sound = Ranged],
                      [NoConsumeEffect EXCEPT !.type = "play_sound", !.sound = Unranged]}
                     \cup {[NoConsumeEffect EXCEPT !.type = "remove_effects", !.effectsRemove = s] : s \in Sets},
   SlotDisplay |-> Displays, RecipeDisplay |-> Recipes,
   Registry |-> {[name |-> id, entries |-> <<[key |-> a, data |-> <<>>], [key |-> b, data |-> <<Of(<<>>, <<S("a", a)>>)>>]>>],
                 [name |-> other, entries |-> <<>>]},
   Slot |-> {NoSlot, Full, [Full EXCEPT !.remove = <<>>]},
   HashedSlot |-> {NoSlot, [NoSlot EXCEPT !.itemId = 1], Full, [Full EXCEPT !.remove = <<8>>],
                   [Full EXCEPT !.remove = <<>>], [Full EXCEPT !.add = <<Component(5, Data(1, 5))>>]}
                  \cup {[Full EXCEPT !.add = <<Component(4, data)>>] :
                          data \in {Data(1, 5), Data(2, 5), Data(5, 5), Data(5, 6)} \cup Collisions},
   BlockPredicate |-> {NoPredicate, Predicate(<<>>), Predicate(<< <<Exact>> >>), Predicate(<< <<Range_>> >>)}]

\* Numbers at the ends of a VarInt's byte and of its type, positions that fit and that
\* do not.
At(x, y, z) == [x |-> x, y |-> y, z |-> z]
Single ==
  [VarInt |-> {-64, -1, 7, 8, 63}, ZigZag |-> {-64, -1, 63},
   Position |-> {At(-4, 1, 3), At(4, -2, -5)},
   Short |-> {-128, 127}, UnsignedShort |-> {200}, String |-> {<<>>, <<Octet(8), Blank>>}]

\* Everything these values and the bit sets are written as.
CellsOf(name) ==
  LET format == Formats[name][1]
  IN UNION {{s[i] : i \in DOMAIN s} : s \in {write(format, v, big) : v \in Values[name], big \in BOOLEAN}}
Cells ==
  {Blank} \cup (UNION {CellsOf(name) : name \in DOMAIN Values}) \cup {Octet(n) : n \in 0 .. 15}
    \cup {writePosition(at)[1] : at \in Single["Position"]}
    \cup {<<"u64", word_>> : word_ \in SUBSET (0 .. WordBits - 1)}

OtherBits == {OneBit(3), set(OneBit(4), 8)}
============================================================================
