-------------------------------- MODULE Values --------------------------------
(***************************************************************************)
(* What the words of a register mean: Decode makes a value of them,        *)
(* processValues and wireValue what the web UI and the broker are shown,   *)
(* PseudoRegisters and evcc's Derive what follows from several registers,  *)
(* and WriteRegisterByMQTT the word a payload stands for.  One group of    *)
(* registers is polled, possibly in part, and written.                     *)
(*                                                                         *)
(* Words are WordBits wide, an `int' IntBits (twice a word on the 32-bit   *)
(* builds), a float64 has Mantissa significant bits and is kept as a       *)
(* multiple of 1/One.  BYTE, DAT and STR, which are only laid out as text, *)
(* are left out; a list of fault names is a set.                           *)
(***************************************************************************)
EXTENDS Integers, FiniteSets, SequencesExt

CONSTANTS
    Groups,     \* groups to poll: [kind, regs, words]
    Payloads,   \* numbers and texts a user writes
    WordBits,   \* bits of a register word (16)
    IntBits,    \* bits of the host's int (32 or 64)
    LongBits,   \* bits of an int64 (64)
    Mantissa,   \* significant bits of a float64 (53)
    ScaleBits,  \* bits of the catalog's largest scale (10 for 1000)
    MaxLogged   \* maxUnmappedLogged (256)

ASSUME ConstAssumption ==
    /\ {WordBits, IntBits, LongBits, Mantissa, ScaleBits} \subseteq Nat \ {0}
    /\ IntBits >= 2 * WordBits /\ LongBits >= IntBits /\ LongBits > 2 * WordBits
    /\ Mantissa > 2 * WordBits /\ Mantissa + 2 * WordBits + ScaleBits >= LongBits
    /\ MaxLogged \in Nat

\* Exponents above the grid that a decoded or accepted value can have.
TopExponent == 2 * WordBits + ScaleBits

\* Powers of two; the provers know no law of ^.  TwoTo tabulates them for TLC.
Doubled[n \in 0..(Mantissa + TopExponent)] == IF n = 0 THEN 1 ELSE 2 * Doubled[n - 1]
TwoTo == [n \in 0..(Mantissa + TopExponent) |-> Doubled[n]]

\* The float grid: fine enough for a full mantissa of the smallest fraction.
One == TwoTo[Mantissa + ScaleBits]
MaxWord == TwoTo[WordBits] - 1

VARIABLES
    group,         \* the group under observation
    words,         \* the registers of the inverter
    raw,           \* the last ReadGroup, without what was not read
    unmappedSeen,  \* Coordinator.unmappedSeen
    asked          \* history: the last number accepted, with its register

vars == <<group, words, raw, unmappedSeen, asked>>

NotAsked == [key |-> "none", n |-> 0, d |-> 1]

Regs == group.regs

-----------------------------------------------------------------------------
(* Machine numbers *)

\* Two's complement of v in `bits' bits.
Wrap(v, bits) ==
    LET u == v % (TwoTo[bits]) IN IF u >= TwoTo[bits - 1] THEN u - TwoTo[bits] ELSE u

\* n / d to the nearest integer, ties to even.
Nearest(n, d) ==
    LET q == n \div d
        r == 2 * (n % d)
    IN IF r < d \/ (r = d /\ q % 2 = 0) THEN q ELSE q + 1

\* n / d grid units fit the mantissa in units of TwoTo[e].
Fits(n, d, e) == n < TwoTo[Mantissa + e] * d

\* The least exponent that fits; the top one serves whatever is larger.
Exponent(n, d) ==
    CHOOSE e \in 0..TopExponent :
        /\ Fits(n, d, e) \/ e = TopExponent
        /\ e = 0 \/ ~Fits(n, d, e - 1)

\* The float next to n / d grid units, n not negative and d positive.
RoundPositive(n, d) ==
    LET e == Exponent(n, d) IN Nearest(n, d * TwoTo[e]) * TwoTo[e]

Float(n, d) == IF n < 0 THEN -RoundPositive(-n, d) ELSE RoundPositive(n, d)

-----------------------------------------------------------------------------
(* Decode *)

Unsigned(ws) == FoldLeft(LAMBDA acc, w : acc * TwoTo[WordBits] + w, 0, ws)

Bits(code) == {i \in 0..(4 * WordBits) : (code \div TwoTo[i]) % 2 = 1}

\* MUTANT: a counter of two words is held in an int, which is no wider.
IntegerInt32(reg, ws) ==
    CASE reg.type = "U16" -> [t |-> "int", v |-> Head(ws)]
      [] reg.type = "S16" -> [t |-> "int", v |-> Wrap(Head(ws), WordBits)]
      [] reg.type = "U32" -> [t |-> "int", v |-> Wrap(Unsigned(ws), IntBits)]
      [] reg.type = "S32" -> [t |-> "int", v |-> Wrap(Unsigned(ws), 2 * WordBits)]

\* An unsigned counter of two words is an int64, whatever the host.
Integer(reg, ws) ==
    CASE reg.type = "U16" -> [t |-> "int", v |-> Head(ws)]
      [] reg.type = "S16" -> [t |-> "int", v |-> Wrap(Head(ws), WordBits)]
      [] reg.type = "U32" -> [t |-> "int64", v |-> Wrap(Unsigned(ws), LongBits)]
      [] reg.type = "S32" -> [t |-> "int", v |-> Wrap(Unsigned(ws), 2 * WordBits)]

\* A scaled integer becomes a float; a bit field is the set of its bits, the
\* first word the most significant.
Decode(reg, ws) ==
    IF reg.type = "BIT"
    THEN [t |-> "bits", set |-> Bits(Unsigned(ws))]
    ELSE IF reg.scale > 1
         THEN [t |-> "float", m |-> Float(Integer(reg, ws).v * One, reg.scale)]
         ELSE Integer(reg, ws)

-----------------------------------------------------------------------------
(* Labels *)

\* MUTANT: the keys of the items are taken for bit numbers.
MaskShifted(code) == IF code > 0 THEN {code} ELSE {}

\* The keys of the items of a bit field are masks; 0 is not one.
Mask(code) == Bits(code)

\* toInt: a conversion to the host's int.
ToInt(val) ==
    CASE val.t = "int" -> val.v
      [] val.t = "int64" -> Wrap(val.v, IntBits)
      [] val.t = "float" -> IF val.m < 0 THEN -((-val.m) \div One) ELSE val.m \div One

\* decodeCode: the labels shown, and what has none.
DecodeCode(val, items) ==
    IF val.t = "bits"
    THEN LET hit == {c \in DOMAIN items : Mask(c) \cap val.set # {}}
         IN [labels |-> IF val.set = {} THEN {"OK"}
                        ELSE IF hit = {} THEN {"Unknown"}
                        ELSE {items[c] : c \in hit},
             unmapped |-> val.set \ UNION {Mask(c) : c \in hit}]
    ELSE IF ToInt(val) \in DOMAIN items
         THEN [labels |-> {items[ToInt(val)]}, unmapped |-> {}]
         ELSE [labels |-> {"Unknown"}, unmapped |-> {ToInt(val)}]

Mapped(reg) == DOMAIN reg.items # {}

\* LocalizedValueItems in German, falling back code by code.
Localized(reg) ==
    [c \in DOMAIN reg.items |->
        IF c \in DOMAIN reg.itemsDE THEN reg.itemsDE[c] ELSE reg.items[c]]

Label(val, items) == [t |-> "label", labels |-> DecodeCode(val, items).labels]

\* Register.Round: to the register's decimals and back to a float.
Decimals(reg, m) ==
    LET unit == 10 ^ reg.precision
        pos(x) == Float(Nearest(x * unit, One) * One, unit)
    IN IF m < 0 THEN -pos(-m) ELSE pos(m)

\* processOne: what the web UI shows.
Processed(reg, val) == IF Mapped(reg) THEN Label(val, Localized(reg)) ELSE val

\* wireValue: what the broker is sent.
Wire(reg, val) ==
    CASE Mapped(reg) -> Label(val, reg.items)
      [] ~Mapped(reg) /\ reg.switch -> [t |-> "bool", on |-> val.v = 1]
      [] ~Mapped(reg) /\ ~reg.switch /\ val.t = "float" ->
            [t |-> "float", m |-> Decimals(reg, val.m)]
      [] OTHER -> val

-----------------------------------------------------------------------------
(* Derived values *)

Positive(n) == IF n < 0 THEN 0 ELSE n

\* 100 * (1 - part / whole), at least 0, as a fraction; 0 of nothing.
Rate(part, whole) ==
    IF whole > 0 THEN <<Positive(100 * (whole - part)), whole>> ELSE <<0, 1>>

\* MUTANT: a register that was not read counts as 0.
PseudosGuess(data) ==
    LET v(k) == IF k \in DOMAIN data THEN data[k].v ELSE 0
        consumption == Positive(v("pv") + v("purchase") + v("discharge")
                                    - v("feed") - v("charge"))
    IN IF group.kind = "base"
       THEN {<<"consumption", <<Positive(v("inverter") - v("grid_power")), 1>> >>}
       ELSE IF group.kind = "period"
            THEN {<<"consumption", <<consumption, 1>> >>,
                  <<"autarky", Rate(v("purchase"), consumption)>>,
                  <<"own", Rate(v("feed"), v("pv"))>>}
            ELSE {}

\* PseudoRegisters: each formula needs every input it reads.
Pseudos(data) ==
    LET have(ks) == ks \subseteq DOMAIN data
        v(k) == data[k].v
        consumption == Positive(v("pv") + v("purchase") + v("discharge")
                                    - v("feed") - v("charge"))
        All == {"pv", "purchase", "discharge", "feed", "charge"}
    IN CASE group.kind = "base" /\ have({"inverter", "grid_power"}) ->
              {<<"consumption", <<Positive(v("inverter") - v("grid_power")), 1>> >>}
         [] group.kind = "period" ->
              (IF have(All)
               THEN {<<"consumption", <<consumption, 1>> >>,
                     <<"autarky", Rate(v("purchase"), consumption)>>}
               ELSE {})
              \cup (IF have({"pv", "feed"}) THEN {<<"own", Rate(v("feed"), v("pv"))>>} ELSE {})
         [] OTHER -> {}

\* evcc.Derive: grid power is negated, the other items keep their sign.
Derive(data) ==
    {<<k, IF k = "grid_power" THEN -data[k].v ELSE data[k].v>> :
        k \in DOMAIN data \cap {"grid_power", "pv"}}

-----------------------------------------------------------------------------
(* Writing *)

\* MUTANT: the product is checked, which may have wrapped.
ScaleIntProduct(i, scale) ==
    LET p == Wrap(i * scale, LongBits)
    IN IF i < 0 \/ p < 0 \/ p > MaxWord THEN {} ELSE {p}

\* The bound is checked before the product, which could wrap.
ScaleInt(i, scale) ==
    IF i < 0 \/ i > MaxWord \div scale THEN {} ELSE {Wrap(i * scale, LongBits)}

\* A float is scaled, checked and truncated.
ScaleFloat(m, scale) ==
    LET scaled == Float(m * scale, 1)
    IN IF scaled < 0 \/ scaled > MaxWord * One THEN {} ELSE {scaled \div One}

\* MUTANT: the reverse of Decode forgets the scale of a float.
ParseWriteValueUnscaled(p, scale) ==
    CASE p.t = "int" -> ScaleInt(p.n, scale)
      [] p.t = "decimal" -> ScaleFloat(Float(p.n * One, p.d), 1)
      [] p.t = "float" -> ScaleFloat(p.m, 1)
      [] p.t \in {"text", "bool"} -> {}

\* ParseWriteValue: the word written, none if the payload is refused.
ParseWriteValue(p, scale) ==
    CASE p.t = "int" -> ScaleInt(p.n, scale)
      [] p.t = "decimal" -> ScaleFloat(Float(p.n * One, p.d), scale)
      [] p.t = "float" -> ScaleFloat(p.m, scale)
      [] p.t \in {"text", "bool"} -> {}

CodesOf(label, items) == {c \in DOMAIN items : items[c] = label}

\* CodeForLabel: a label of either language, English first.  Of two codes
\* with one label the map's order picks one.
CodeForLabel(reg, p) ==
    IF p.t # "text" THEN {}
    ELSE IF CodesOf(p.text, reg.items) # {} THEN CodesOf(p.text, reg.items)
    ELSE CodesOf(p.text, reg.itemsDE)

\* WriteRegisterByMQTT, up to the wire.
Written(reg, p) ==
    IF ~reg.writable THEN {}
    ELSE IF CodeForLabel(reg, p) # {} THEN CodeForLabel(reg, p) \cap 0..MaxWord
    ELSE ParseWriteValue(p, reg.scale)

\* setValue: what a published command becomes before it is queued - a token or
\* a label of either language its token, a truth value of a switch its payload
\* - and everything else itself.  Case is left out.
SetValue(reg, p) ==
    LET tokens == {reg.items[c] : c \in CodesOf(p.text, reg.items)}
        labels == {reg.items[c] : c \in CodesOf(p.text, Localized(reg))}
    IN IF Mapped(reg) /\ p.t = "text" /\ tokens \cup labels # {}
       THEN [t |-> "text", text |-> CHOOSE x \in tokens \cup labels : tokens # {} => x \in tokens]
       ELSE IF ~Mapped(reg) /\ reg.switch /\ p.t = "bool"
            THEN [t |-> "int", n |-> IF p.on THEN 1 ELSE 0, d |-> 1]
            ELSE p

\* The payload that a shown value spells: a whole float looks like an integer,
\* any other one is spelled so that it parses to itself.
Spelled(val) ==
    CASE val.t \in {"int", "int64"} -> [t |-> "int", n |-> val.v, d |-> 1]
      [] val.t = "float" /\ val.m % One = 0 -> [t |-> "int", n |-> val.m \div One, d |-> 1]
      [] val.t = "float" /\ val.m % One # 0 -> [t |-> "float", m |-> val.m]
      [] val.t = "label" /\ Cardinality(val.labels) = 1 ->
            [t |-> "text", text |-> CHOOSE l \in val.labels : TRUE]
      [] val.t = "bool" -> val
      [] OTHER -> [t |-> "text", text |-> "several"]

-----------------------------------------------------------------------------
(* Home Assistant's side of the document *)

\* The label of a token in one language.
LabelIn(reg, token, lang) ==
    LET c == CHOOSE c \in DOMAIN reg.items : reg.items[c] = token
    IN IF lang = "de" THEN Localized(reg)[c] ELSE token

Tokens(reg) == {reg.items[c] : c \in DOMAIN reg.items}

\* ValueItemsEnum: what a select offers.
Options(reg, lang) == {LabelIn(reg, t, lang) : t \in Tokens(reg)}

\* EnumValueTemplate: the option a published token is shown as, none ("None",
\* unknown) for anything else.
EnumValueTemplate(reg, lang, val) ==
    {LabelIn(reg, t, lang) : t \in val.labels \cap Tokens(reg)}

\* BitFieldValueTemplate: every name mapped on its own, others kept.
BitFieldValueTemplate(reg, lang, val) ==
    IF val.labels = {"Unknown"} THEN {}
    ELSE {IF l \in Tokens(reg) THEN LabelIn(reg, l, lang) ELSE l : l \in val.labels}

\* The library's command template: the token of a picked option.
Picked(reg, lang, option) ==
    {[t |-> "text", text |-> t] : t \in {t \in Tokens(reg) : LabelIn(reg, t, lang) = option}}

\* numberBounds, of a register that is not a percentage.
NumberBounds(reg) == [lo |-> 0, hi |-> Float(MaxWord * One, reg.scale)]

-----------------------------------------------------------------------------
(* The catalog *)

\* Words a numeric register takes.
Size(type) == IF type \in {"U16", "S16"} THEN 1 ELSE 2

\* A group is read into as many words as its registers have; two bits with one
\* token have one label, and no token is what a fault field shows of itself.
ASSUME GroupsAssumption ==
    \A g \in Groups :
        /\ \A ws \in g.words : DOMAIN ws = DOMAIN g.regs
        /\ \A k \in DOMAIN g.regs :
            LET reg == g.regs[k] IN
            /\ reg.type \in {"U16", "S16", "U32", "S32", "BIT"}
            /\ reg.scale \in 1..TwoTo[ScaleBits]
            /\ \A ws \in g.words : /\ ws[k] \in Seq(0..MaxWord)
                                   /\ reg.type # "BIT" => Len(ws[k]) = Size(reg.type)
            /\ \A c \in DOMAIN reg.items : reg.items[c] \notin {"OK", "Unknown"}
            /\ \A c, d \in DOMAIN reg.items :
                reg.items[c] = reg.items[d] => Localized(reg)[c] = Localized(reg)[d]

\* A scale of at most two bits, as 1 and 10 are: a word divided by one and
\* multiplied again is itself (by 100 it need not be: 0.29 * 100 < 29).
TwoBits(scale) == \E i, j \in 0..ScaleBits : scale \in {TwoTo[i], TwoTo[i] + TwoTo[j]}

\* What the shipped catalog keeps to: a writable register is an unsigned word,
\* a number shown with all its decimals, a list of distinct labels, or a switch.
ASSUME WritableAssumption ==
    \A g \in Groups : \A k \in DOMAIN g.regs :
        LET reg == g.regs[k] IN
        reg.writable =>
            /\ reg.type = "U16" /\ TwoBits(reg.scale)
            /\ reg.scale > 1 =>
                /\ ~Mapped(reg) /\ ~reg.switch
                /\ 10 ^ reg.precision \in Nat \ {0} /\ 10 ^ reg.precision % reg.scale = 0
                /\ TwoTo[WordBits + 1] * 10 ^ reg.precision < TwoTo[Mantissa]
            /\ DOMAIN reg.items \subseteq 0..MaxWord
            /\ \A c \in DOMAIN reg.itemsDE : reg.itemsDE[c] # "Unknown"
            /\ \A c \in DOMAIN reg.items, d \in DOMAIN reg.items \cup DOMAIN reg.itemsDE :
                \/ c = d
                \/ /\ d \in DOMAIN reg.items => reg.items[c] # reg.items[d]
                   /\ d \in DOMAIN reg.itemsDE => reg.items[c] # reg.itemsDE[d]
            /\ \A c, d \in DOMAIN reg.itemsDE : reg.itemsDE[c] = reg.itemsDE[d] => c = d

ASSUME PayloadsAssumption ==
    \A p \in Payloads :
        /\ p.t \in {"int", "decimal", "text", "bool"}
        /\ p.t \in {"int", "decimal"} => p.n \in Int /\ p.d \in Nat \ {0}
        /\ p.t = "int" => p.d = 1

-----------------------------------------------------------------------------
Init ==
    /\ group \in Groups
    /\ words \in group.words
    /\ raw = <<>>
    /\ unmappedSeen = {}
    /\ asked = NotAsked

\* The inverter has other values.
Change ==
    /\ words' \in group.words
    /\ Cardinality({k \in DOMAIN words : words'[k] # words[k]}) = 1
    /\ asked' = NotAsked
    /\ UNCHANGED <<group, raw, unmappedSeen>>

\* noteUnmapped, key by key in the order of a map, until the set is full.
NoteUnmapped(new) ==
    \E add \in SUBSET (new \ unmappedSeen) :
        /\ Cardinality(unmappedSeen \cup add) <= MaxLogged
        /\ add # new \ unmappedSeen => Cardinality(unmappedSeen \cup add) = MaxLogged
        /\ unmappedSeen' = unmappedSeen \cup add

\* publishGroupOnce: the registers of some windows are read, decoded and shown.
Poll ==
    \E got \in SUBSET DOMAIN Regs :
        /\ raw' = [k \in got |-> Decode(Regs[k], words[k])]
        /\ NoteUnmapped({<<k, raw'[k]>> : k \in {k \in got :
              Mapped(Regs[k]) /\ DecodeCode(raw'[k], Regs[k].items).unmapped # {}}})
        /\ UNCHANGED <<group, words, asked>>

\* What can be typed, and what the UI and the broker show; the UI writes it as
\* it is, a published command comes through setValue.
Offered(k) ==
    Payloads \cup (IF k \in DOMAIN raw
                   THEN {Spelled(Wire(Regs[k], raw[k])), Spelled(Processed(Regs[k], raw[k]))}
                   ELSE {})

Write(k) ==
    \E p \in Offered(k) : \E q \in {p, SetValue(Regs[k], p)} : \E code \in Written(Regs[k], q) :
        /\ words' = [words EXCEPT ![k] = <<code>>]
        /\ asked' = IF p.t \in {"int", "decimal"}
                    THEN [key |-> k, n |-> p.n, d |-> p.d] ELSE NotAsked
        /\ UNCHANGED <<group, raw, unmappedSeen>>

Next ==
    \/ Change
    \/ Poll
    \/ \E k \in DOMAIN Regs : Write(k)

Spec == Init /\ [][Next]_vars

-----------------------------------------------------------------------------
(* Properties *)

Abs(n) == IF n < 0 THEN -n ELSE n

\* What was read is what the inverter still holds.
Fresh(k) == raw[k] = Decode(Regs[k], words[k])

\* A decoded integer is congruent to its words and in the range of its type,
\* on 32-bit hosts too; a scaled one is off by less than half a unit.
Faithful ==
    \A k \in DOMAIN raw : Regs[k].type # "BIT" /\ Fresh(k) =>
        LET bits == WordBits * Len(words[k])
            low == IF Regs[k].type \in {"S16", "S32"} THEN -(TwoTo[bits - 1]) ELSE 0
            same(v) == /\ v % TwoTo[bits] = Unsigned(words[k])
                       /\ v \in low..(low + TwoTo[bits] - 1)
        IN IF raw[k].t = "float"
           THEN \E v \in low..(low + TwoTo[bits] - 1) :
                    same(v) /\ 2 * Abs(raw[k].m * Regs[k].scale - v * One) < One
           ELSE same(raw[k].v)

Known(shown) == shown.t # "label" \/ shown.labels # {"Unknown"}

\* Writing back what is shown changes nothing, whoever shows it: the web UI, in
\* either language; a client of the broker; Home Assistant, whose select offers
\* the option it shows, if it shows one, and whose number takes the published
\* value, keeps it within its bounds and can be moved to either bound.  What
\* has no label is refused; a switch that holds neither of its payloads is
\* shown as off.
WriteBack ==
    \A k \in DOMAIN raw : Regs[k].writable /\ Fresh(k) =>
        LET reg == Regs[k]
            wire == Wire(reg, raw[k])
            web == Processed(reg, raw[k])
            held(shown) == IF Known(shown) THEN {Head(words[k])} ELSE {}
            bounds == NumberBounds(reg)
        IN /\ Written(reg, Spelled(web)) = held(web)
           /\ (wire.t = "bool" => Head(words[k]) \in 0..1) =>
                Written(reg, SetValue(reg, Spelled(wire))) = held(wire)
           /\ Mapped(reg) => \A lang \in {"en", "de"} :
                LET option == EnumValueTemplate(reg, lang, wire) IN
                /\ option \subseteq Options(reg, lang)
                /\ option = {} <=> ~Known(wire)
                /\ UNION {Written(reg, SetValue(reg, p)) :
                            p \in UNION {Picked(reg, lang, o) : o \in option}} = held(wire)
           /\ wire.t = "float" =>
                /\ wire.m \in bounds.lo..bounds.hi
                /\ ScaleFloat(bounds.hi, reg.scale) = {MaxWord}

\* A number that is accepted is the number the register then holds, to less
\* than one unit of its resolution: nothing wraps.
NeverWraps ==
    asked # NotAsked =>
        Abs(Head(words[asked.key]) * asked.d - asked.n * Regs[asked.key].scale) < asked.d

\* What is shown of a code: the label it has, or Unknown, once it is logged.
CodeShown(k) ==
    LET labels == Wire(Regs[k], raw[k]).labels
        code == ToInt(raw[k])
    IN IF code \in DOMAIN Regs[k].items THEN labels = {Regs[k].items[code]}
       ELSE /\ labels = {"Unknown"}
            /\ <<k, raw[k]>> \in unmappedSeen \/ Cardinality(unmappedSeen) = MaxLogged

\* No fault is hidden: each bit set, and each code, is shown under its label or
\* has been logged, unless the log is full; no label is shown without cause, and
\* OK only for a field without bits; Home Assistant shows the same faults in
\* either language.
NothingHidden ==
    /\ \A k \in DOMAIN raw : Mapped(Regs[k]) /\ raw[k].t # "bits" => CodeShown(k)
    /\ \A k \in DOMAIN raw : Mapped(Regs[k]) /\ raw[k].t = "bits" =>
        LET labels == Wire(Regs[k], raw[k]).labels
            items == Regs[k].items
            named == {i \in raw[k].set : \E c \in DOMAIN items :
                        items[c] \in labels /\ (c \div TwoTo[i]) % 2 = 1}
        IN /\ "OK" \in labels <=> raw[k].set = {}
           /\ \/ named = raw[k].set
              \/ <<k, raw[k]>> \in unmappedSeen
              \/ Cardinality(unmappedSeen) = MaxLogged
           /\ \A l \in labels \ {"OK", "Unknown"} : \E i \in named, c \in DOMAIN items :
                items[c] = l /\ (c \div TwoTo[i]) % 2 = 1
           /\ \A lang \in {"en", "de"} :
                BitFieldValueTemplate(Regs[k], lang, Wire(Regs[k], raw[k])) =
                    CASE labels = {"OK"}      -> {"OK"}
                      [] labels = {"Unknown"} -> {}
                      [] OTHER -> DecodeCode(raw[k], IF lang = "de" THEN Localized(Regs[k])
                                                     ELSE items).labels

\* A partial read derives nothing that the full read would not derive alike.
NoGuess ==
    DOMAIN raw # {} /\ (\A k \in DOMAIN raw : Fresh(k)) =>
        LET full == [k \in DOMAIN Regs |-> Decode(Regs[k], words[k])]
        IN  Pseudos(raw) \subseteq Pseudos(full) /\ Derive(raw) \subseteq Derive(full)
=============================================================================
