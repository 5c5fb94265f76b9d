------------------------------ MODULE ZincText ------------------------------
(***************************************************************************)
(* TextComponent: text with styles, events and further texts, written as   *)
(* an NBT compound.                                                        *)
(*                                                                         *)
(* What is optional is a sequence of at most one value.  A text has one    *)
(* optional content per kind; the kind written is its type or, when that   *)
(* is not set, the first kind it has content of.                           *)
(***************************************************************************)
EXTENDS ZincNBT

word(x) == << <<"c", x>> >>
Or(optional, default) == IF optional = <<>> THEN default ELSE optional[1]
FirstIn(order, P(_), default) ==
  IF \E i \in DOMAIN order : P(order[i])
  THEN order[CHOOSE i \in DOMAIN order : P(order[i]) /\ \A j \in 1 .. i - 1 : ~P(order[j])] ELSE default

Kinds == <<"text", "translatable", "score", "selector", "keybind", "nbt">>
Sources == <<"block", "entity", "storage">>
StyleTags == <<"color", "font", "bold", "italic", "underlined", "strikethrough", "obfuscated", "insertion">>
StringStyles == {"color", "font", "insertion"}

NoContent == [k \in {Kinds[i] : i \in DOMAIN Kinds} |-> <<>>]
EmptyText == [type |-> <<>>, content |-> NoContent, extra |-> <<>>,
              style |-> [s \in {StyleTags[i] : i \in DOMAIN StyleTags} |-> <<>>],
              click |-> <<>>, hover |-> <<>>]
S(tag, value) == Scalar("String", word(tag), value)
DEFAULT_SEPARATOR ==
  Parent("Compound", <<>>, <<S("type", word("text")), S("color", word("gray")), S("text", word(", "))>>)

NoTranslatable == [translate |-> <<>>, fallback |-> <<>>, with |-> <<>>]
NoScore == [name |-> <<>>, objective |-> <<>>]
NoSelector == [selector |-> <<>>, separator |-> <<DEFAULT_SEPARATOR>>]
NoNBT == [source |-> <<>>, from |-> [s \in {Sources[i] : i \in DOMAIN Sources} |-> <<>>], nbt |-> <<>>,
          interpret |-> <<0>>, separator |-> <<DEFAULT_SEPARATOR>>]

\* The field an action of a click event writes, and what it writes when there is none.
ClickFields == <<"url", "path", "page", "value", "command">>
ClickAction == [open_url |-> <<"url", word("www.example.com")>>, open_file |-> <<"path", <<>> >>,
                run_command |-> <<"command", word("/say hi")>>, suggest_command |-> <<"command", word("/say hi")>>,
                change_page |-> <<"page", 0>>, copy_to_clipboard |-> <<"value", <<>> >>]
ActionOfField == [url |-> "open_url", path |-> "open_file", page |-> "change_page",
                  value |-> "copy_to_clipboard", command |-> "suggest_command"]
NoClick == [action |-> <<>>, given |-> [f \in DOMAIN ActionOfField |-> <<>>]]
NoItem == [id |-> <<>>, count |-> <<>>, components |-> <<>>]
NoEntity == [id |-> <<>>, name |-> <<>>, uuid |-> <<>>]
NoHover == [action |-> <<>>, value |-> <<>>, item |-> <<>>, entity |-> <<>>]

\* TextComponentBuilder and the builders of its parts: the part, and the type or action with it.
textBuilder(kind, value) == [EmptyText EXCEPT !.type = <<kind>>, !.content[kind] = <<value>>]
nbtBuilder(source, nbt, value) == [NoNBT EXCEPT !.source = <<source>>, !.from[source] = <<value>>, !.nbt = nbt]
clickBuilder(action, value) == [NoClick EXCEPT !.action = <<action>>, !.given[ClickAction[action][1]] = <<value>>]
showText(text) == [NoHover EXCEPT !.action = <<"show_text">>, !.value = <<text>>]
showItem(item) == [NoHover EXCEPT !.action = <<"show_item">>, !.item = <<item>>]
showEntity(entity) == [NoHover EXCEPT !.action = <<"show_entity">>, !.entity = <<entity>>]
append(t, text) == [t EXCEPT !.extra = Append(@, text)]

----------------------------------------------------------------------------
(* encode() *)

KindOf(t) == Or(t.type, FirstIn(Kinds, LAMBDA k : t.content[k] # <<>>, "text"))
Optionally(type, tag, optional) == [i \in DOMAIN optional |-> Scalar(type, word(tag), optional[i])]
encodeSeparator(separator) ==
  << Parent("Compound", word("separator"), Or(separator, DEFAULT_SEPARATOR).children) >>

RECURSIVE encodeText(_)
encodeAll(tag, texts) ==
  IF texts = <<>> THEN <<>>
  ELSE << Parent("List", word(tag), [i \in DOMAIN texts |-> encodeText(texts[i])]) >>
encodeNBT(n) ==
  LET source == Or(n.source, FirstIn(Sources, LAMBDA s : n.from[s] # <<>>, "block"))
  IN <<S("source", word(source)), S(source, Or(n.from[source], <<>>)), S("nbt", n.nbt)>>
       \o Optionally("Byte", "interpret", n.interpret) \o encodeSeparator(n.separator)
encodeContent(t) ==
  LET kind == KindOf(t)
      of(default) == Or(t.content[kind], default)
  IN <<S("type", word(kind))>> \o
     CASE kind = "text" -> <<S("text", of(<<>>))>>
       [] kind = "translatable" ->
            <<S("translate", of(NoTranslatable).translate),
              S("fallback", Or(of(NoTranslatable).fallback, word("nil")))>>
              \o encodeAll("with", of(NoTranslatable).with)
       [] kind = "score" ->
            << Parent("Compound", word("score"),
                      <<S("name", of(NoScore).name), S("objective", of(NoScore).objective)>>) >>
       [] kind = "selector" ->
            <<S("selector", of(NoSelector).selector)>> \o encodeSeparator(of(NoSelector).separator)
       [] kind = "keybind" -> <<S("keybind", of(word("key.inventory")))>>
       [] kind = "nbt" -> encodeNBT(of(NoNBT))
encodeStyle(t) ==
  Concat([i \in DOMAIN StyleTags |->
    Optionally(IF StyleTags[i] \in StringStyles THEN "String" ELSE "Byte", StyleTags[i], t.style[StyleTags[i]])])
encodeClick(c) ==
  LET field == FirstIn(ClickFields, LAMBDA f : f # "command" /\ c.given[f] # <<>>, "command")
      action == Or(c.action, ActionOfField[field])
      kept == ClickAction[action]
  IN Parent("Compound", word("click_event"),
       <<S("action", word(action)),
         Scalar(IF kept[1] = "page" THEN "Int" ELSE "String", word(kept[1]), Or(c.given[kept[1]], kept[2]))>>)
encodeNested(tag, texts) ==
  IF texts = <<>> THEN <<>> ELSE << [encodeText(texts[1]) EXCEPT !.tag = word(tag)] >>
encodeHover(h) ==
  LET action == Or(h.action, IF h.item # <<>> THEN "show_item" ELSE IF h.entity # <<>> THEN "show_entity"
                             ELSE "show_text")
      item == Or(h.item, NoItem)
      entity == Or(h.entity, NoEntity)
  IN Parent("Compound", word("hover_event"), <<S("action", word(action))>> \o
       CASE action = "show_text" ->
              IF h.value = <<>> THEN <<S("value", <<>>)>> ELSE encodeNested("value", h.value)
         [] action = "show_item" ->
              <<S("id", item.id)>> \o Optionally("Int", "count", item.count) \o
              (IF item.components = <<>> THEN <<>> ELSE << Parent("List", word("components"), item.components) >>)
         [] action = "show_entity" ->
              <<S("id", entity.id)>> \o encodeNested("name", entity.name)
                \o Optionally("String", "uuid", entity.uuid))
encodeText(t) ==
  Parent("Compound", <<>>,
    encodeContent(t) \o encodeAll("extra", t.extra) \o encodeStyle(t)
      \o [i \in DOMAIN t.click |-> encodeClick(t.click[i])] \o [i \in DOMAIN t.hover |-> encodeHover(t.hover[i])])

\* encodeJSON(), which operator== compares: the text without its extra texts, then each of those.
RECURSIVE encodeJSON(_)
encodeJSON(t) ==
  << toJSON(encodeText([t EXCEPT !.extra = <<>>])) >> \o Concat([i \in DOMAIN t.extra |-> encodeJSON(t.extra[i])])
sameText(t, u) == encodeJSON(t) = encodeJSON(u)

----------------------------------------------------------------------------
(* decode().  The last child with a tag counts; a member of another type is empty. *)

Tagged(e, tag) == {i \in DOMAIN e.children : e.children[i].tag = word(tag)}
Has(e, tag) == Tagged(e, tag) # {}
Child(e, tag) ==
  IF Has(e, tag) THEN e.children[CHOOSE i \in Tagged(e, tag) : \A j \in Tagged(e, tag) : j <= i] ELSE NoElement
str(e) == IF e.type = "String" THEN e.value ELSE <<>>
num(e, type) == IF e.type = type THEN e.value ELSE 0
Strings(e, tag) == IF Has(e, tag) THEN <<str(Child(e, tag))>> ELSE <<>>
Numbers(e, tag, type) == IF Has(e, tag) THEN <<num(Child(e, tag), type)>> ELSE <<>>
\* The name of the last child among those the table has names for.
Meant(e, table) ==
  LET known(i) == {f \in DOMAIN table : e.children[i].tag = word(f)}
      which == {i \in DOMAIN e.children : known(i) # {}}
      last == CHOOSE i \in which : \A j \in which : j <= i
  IN IF which = {} THEN <<>> ELSE word(table[CHOOSE f \in known(last) : TRUE])

KindOfTag == [text |-> "text", source |-> "nbt", nbt |-> "nbt", block |-> "nbt", entity |-> "nbt", storage |-> "nbt",
              interpret |-> "nbt", score |-> "score", selector |-> "selector", keybind |-> "keybind",
              translate |-> "translatable", fallback |-> "translatable", with |-> "translatable"]

decodeClick(e) ==
  LET action == str(Child(e, "action"))
      meant == IF action = <<>> THEN Meant(e, ActionOfField) ELSE action
  IN [action |-> IF \E a \in DOMAIN ClickAction : meant = word(a) THEN <<meant[1][2]>> ELSE <<>>,
      given |-> [f \in DOMAIN ActionOfField |->
                   IF action # <<>> THEN <<>>
                   ELSE IF f = "page" THEN Numbers(e, f, "Int") ELSE Strings(e, f)]]

\* A text inside another goes through a buffer of its own, where it is written and read
\* for the network: without a tag it comes back, with one its children are lost.
RECURSIVE decodeText(_)
nested(e) ==
  LET r == readNBTElement(TRUE, writeNBTElement(e, TRUE), 1)
  IN IF r.ok THEN decodeText(r.v) ELSE EmptyText
nestedAll(e) == [i \in DOMAIN e.children |-> nested(e.children[i])]

ActionOfHover == [value |-> "show_text", components |-> "show_item", count |-> "show_item",
                  uuid |-> "show_entity", name |-> "show_entity"]
decodeHover(e) ==
  LET action == str(Child(e, "action"))
      meant == IF action = <<>> THEN Meant(e, ActionOfHover) ELSE action
      inner == IF action = <<>> THEN e ELSE NoElement
      one(tag) == IF Has(inner, tag) THEN <<nested(Child(inner, tag))>> ELSE <<>>
  IN [action |-> IF meant \in {word("show_text"), word("show_item"), word("show_entity")}
                 THEN <<meant[1][2]>> ELSE <<>>,
      value |-> one("value"),
      item |-> IF meant = word("show_item")
               THEN <<[id |-> str(Child(inner, "id")), count |-> Numbers(inner, "count", "Int"),
                       components |-> Child(inner, "components").children]>> ELSE <<>>,
      entity |-> IF meant = word("show_entity")
                 THEN <<[id |-> str(Child(inner, "id")), name |-> one("name"), uuid |-> Strings(inner, "uuid")]>>
                 ELSE <<>>]

\* The content is only looked at when no type is written; whatever it is, the type
\* becomes Text.
decodeContent(e, kind) ==
  [text |-> Strings(e, "text"),
   keybind |-> Strings(e, "keybind"),
   translatable |-> IF kind # word("translatable") THEN <<>>
     ELSE <<[translate |-> str(Child(e, "translate")), fallback |-> Strings(e, "fallback"),
             with |-> nestedAll(Child(e, "with"))]>>,
   score |-> IF kind # word("score") THEN <<>>
     ELSE <<[name |-> str(Child(Child(e, "score"), "name")),
             objective |-> str(Child(Child(e, "score"), "objective"))]>>,
   selector |-> IF kind # word("selector") THEN <<>>
     ELSE <<[selector |-> str(Child(e, "selector")), separator |-> <<Child(e, "separator")>>]>>,
   nbt |-> IF kind # word("nbt") THEN <<>>
     ELSE <<[source |-> IF \E i \in DOMAIN Sources : str(Child(e, "source")) = word(Sources[i])
                        THEN <<str(Child(e, "source"))[1][2]>> ELSE <<>>,
             from |-> [s \in DOMAIN NoNBT.from |-> Strings(e, s)], nbt |-> str(Child(e, "nbt")),
             interpret |-> IF Has(e, "interpret") THEN Numbers(e, "interpret", "Byte") ELSE <<0>>,
             separator |-> <<Child(e, "separator")>>]>>]
decodeStyleInt(e) ==  \* mutant: what is true or false is looked for as an int
  [s \in DOMAIN EmptyText.style |->
     IF s \in StringStyles THEN Strings(e, s) ELSE Numbers(e, s, "Int")]
decodeStyle(e) ==
  [s \in DOMAIN EmptyText.style |->
     IF s \in StringStyles THEN Strings(e, s) ELSE Numbers(e, s, "Byte")]
decodeText(e) ==
  LET written == str(Child(e, "type"))
      kind == IF written = <<>> THEN Meant(e, KindOfTag) ELSE written
  IN [type |-> IF \E i \in DOMAIN Kinds : kind = word(Kinds[i]) THEN <<"text">> ELSE <<>>,
      content |-> decodeContent(IF written = <<>> THEN e ELSE NoElement, kind),
      extra |-> nestedAll(Child(e, "extra")),
      style |-> decodeStyle(e),
      click |-> IF Has(e, "click_event") THEN <<decodeClick(Child(e, "click_event"))>> ELSE <<>>,
      hover |-> IF Has(e, "hover_event") THEN <<decodeHover(Child(e, "hover_event"))>> ELSE <<>>]

writeTextComponent(t, bigEndian) == writeNBTElement(encodeText(t), bigEndian)
readTextComponent(bigEndian, in, p) == Map(readNBTElement(bigEndian, in, p), decodeText)
=============================================================================
