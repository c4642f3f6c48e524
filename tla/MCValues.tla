------------------------------- MODULE MCValues -------------------------------
EXTENDS Values, TLC

Reg(type) ==
    [type |-> type, scale |-> 1, precision |-> 1, items |-> <<>>, itemsDE |-> <<>>,
     switch |-> FALSE, writable |-> FALSE]

Full == 0..MaxWord
Edges == {0, 1, TwoTo[WordBits - 1] - 1, TwoTo[WordBits - 1], MaxWord}

Single(reg, inputs) ==
    [kind |-> "single", regs |-> [x |-> reg], words |-> [{"x"} -> inputs]]

Words1(ws) == {<<w>> : w \in ws}
Words2(hs, ls) == {<<h, l>> : h \in hs, l \in ls}

\* Every integer type, plain and scaled.
Numbers ==
    {Single([Reg(type) EXCEPT !.scale = scale], Words1(Full)) :
        type \in {"U16", "S16"}, scale \in {1, 10}}
    \cup {Single([Reg(type) EXCEPT !.scale = scale], Words2(Edges, Edges)) :
            type \in {"U32", "S32"}, scale \in {1, 10}}

\* Two-word fault field: two single masks, a double one, one in the upper word,
\* and bits without a name.
Faults ==
    Single([Reg("BIT") EXCEPT
              !.items = (0 :> "none" @@ 1 :> "a" @@ 2 :> "b" @@ 24 :> "c" @@ 32 :> "d"),
              !.itemsDE = (1 :> "A" @@ 24 :> "C")],
           Words2({0, 1, 2}, {0, 1, 2, 4, 5, 8, 26}))

\* What the catalog has of writable registers: a scaled limit, an operation
\* mode, and a switch.
Writables ==
    {Single([Reg("U16") EXCEPT !.scale = scale, !.writable = TRUE], Words1(Full)) :
        scale \in {1, 10}}
    \cup {
     Single([Reg("U16") EXCEPT !.writable = TRUE,
               !.items = (1 :> "general" @@ 2 :> "economic" @@ 9 :> "off grid"),
               !.itemsDE = (1 :> "Allgemein" @@ 2 :> "Sparen")],
            Words1({1, 2, 3, 9})),
     Single([Reg("U16") EXCEPT !.writable = TRUE, !.switch = TRUE], Words1(0..1))}

Base ==
    [kind |-> "base", regs |-> [k \in {"inverter", "grid_power", "pv"} |-> Reg("S16")],
     words |-> [{"inverter", "grid_power", "pv"} -> {<<w>> : w \in {0, 1, 3, MaxWord}}]]

Period ==
    [kind |-> "period",
     regs |-> [k \in {"pv", "purchase", "discharge", "feed", "charge"} |-> Reg("U16")],
     words |-> {[pv |-> <<a>>, purchase |-> <<b>>, discharge |-> <<c>>, feed |-> <<d>>,
                 charge |-> <<e>>] : a, c, d, e \in 0..1, b \in 0..2}]

AllGroups == Numbers \cup Writables \cup {Faults, Base, Period}

\* Integers around every bound, one whose product wraps into range, tenths and
\* half tenths, labels of both languages.
AllPayloads ==
    {[t |-> "int", n |-> i, d |-> 1] : i \in {-1, 0, 1, 2, 3, 4, 31, 32, 410}}
    \cup {[t |-> "decimal", n |-> i, d |-> 20] : i \in {-1, 1, 5, 57, 58, 61, 62, 63, 640}}
    \cup {[t |-> "text", text |-> l] : l \in {"general", "Sparen", "nonsense"}}
    \cup {[t |-> "bool", on |-> b] : b \in BOOLEAN}
=============================================================================
