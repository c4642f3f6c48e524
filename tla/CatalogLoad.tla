------------------------------ MODULE CatalogLoad ------------------------------
(***************************************************************************)
(* The register catalog: parse reads registers.yaml entry by entry, skips  *)
(* what it cannot use and indexes the rest three ways - in file order, by  *)
(* YAML key and by Modbus address.  Polls go through the group lists,      *)
(* writes through FindByMQTT, so the loader must leave exactly one         *)
(* register behind every address and every MQTT key.                       *)
(*                                                                         *)
(* A YAML key is a record: a numeral in the address range (padded with     *)
(* zeros or not), a numeral beyond it, or a name.  An entry comes decoded, *)
(* with its defaults; what it spells wrongly is told apart only by where   *)
(* parse notices it.                                                       *)
(***************************************************************************)
EXTENDS Naturals, Sequences

CONSTANTS
    Files,         \* the catalogs to load: sequences of entries
    MaxReadWords,  \* maxReadWords (125)
    AddressSpace   \* number of Modbus addresses (0x10000)

Elements(s) == {s[i] : i \in DOMAIN s}

\* All that stands in some catalog.
AnyEntry == UNION {Elements(f) : f \in Files}

ASSUME ConstAssumption ==
    /\ Files \subseteq Seq(AnyEntry)
    /\ \A e \in AnyEntry :
        /\ e.key.kind = "modbus" => e.key.addr \in 0..(AddressSpace - 1)
        /\ e.length \in Nat
    /\ MaxReadWords \in Nat \ {0}
    /\ AddressSpace \in Nat \ {0}

VARIABLES
    file,      \* the entries still to read
    read,      \* history: those already read
    all,       \* Map.All
    byKey,     \* Map.ByKey, as the set of its registers
    byAddr,    \* Map.ByAddr
    groups,    \* Map.Groups
    seenAddr,  \* seenAddr
    seenMQTT,  \* seenMQTT
    verdicts,  \* history: what became of each entry read
    refused    \* parse returned an error

indexes == <<all, byKey, byAddr, groups>>
vars == <<file, read, indexes, seenAddr, seenMQTT, verdicts, refused>>

Init ==
    /\ file \in Files
    /\ read = <<>>
    /\ all = <<>> /\ byKey = {} /\ byAddr = {} /\ groups = <<>>
    /\ seenAddr = {} /\ seenMQTT = {}
    /\ verdicts = <<>>
    /\ refused = FALSE

-----------------------------------------------------------------------------
(* validateEntry *)

\* The fewest and the most words a data type can be declared with; BYTE knows
\* three layouts.
TypeLength(e) ==
    CASE e.type \in {"U32", "S32", "I32"} -> e.length >= 2
      [] e.type = "DAT" -> e.length >= 3
      [] e.type = "BYTE" -> e.length \in {1, 2, 4}
      [] e.type = "BIT" -> e.length <= 4
      [] e.type \in {"U16", "S16", "I16", "STR"} -> TRUE
      [] OTHER -> FALSE

\* parse: the key is a numeral in the address range.
HasAddress(e) == e.key.kind = "modbus"

\* IsModbus: what readers and writers take for a register of the inverter.  A
\* zero is one only where it is spelled "0".
Modbus(e) == HasAddress(e) /\ (e.key.addr # 0 \/ ~e.key.padded)

\* `scaled': scale and precision are in range.
ValidateEntry(e) ==
    /\ e.length >= 1
    /\ HasAddress(e) => e.length <= MaxReadWords /\ e.key.addr + e.length <= AddressSpace
    /\ e.scaled
    /\ TypeLength(e)

-----------------------------------------------------------------------------
(* parse *)

AddressTaken(e) == HasAddress(e) /\ e.key.addr \in seenAddr

\* What parse can find wrong with an entry, in the order it looks.
Complaints(e) ==
    << [verdict |-> "duplicate key",     found |-> \E r \in byKey : r.key = e.key],
       [verdict |-> "no name",           found |-> e.name = ""],
       [verdict |-> "address range",     found |-> e.key.kind = "overflow"],
       [verdict |-> "invalid",           found |-> ~ValidateEntry(e)],
       [verdict |-> "duplicate address", found |-> AddressTaken(e)],
       [verdict |-> "renamed group",     found |-> e.group = "now-base"],
       [verdict |-> "unsafe topic",      found |-> e.unsafe],
       [verdict |-> "duplicate mqtt",    found |-> e.mqtt # "" /\ e.mqtt \in seenMQTT] >>

FirstFound(c) ==
    {i \in DOMAIN c : c[i].found /\ \A j \in 1..(i - 1) : ~c[j].found}

Verdict(e) ==
    LET c == Complaints(e) IN
    IF FirstFound(c) = {} THEN "kept"
    ELSE c[CHOOSE i \in FirstFound(c) : TRUE].verdict

\* The address counts as taken once the entry has come past that check, also
\* when it is skipped after all.
TakesAddress(e, v) ==
    HasAddress(e) /\ v \in {"renamed group", "unsafe topic", "duplicate mqtt", "kept"}

\* MUTANT: the write path sees every definition.
AddAlways(e, v) ==
    IF v \in {"kept", "duplicate mqtt"}
    THEN /\ all' = Append(all, e)
         /\ byKey' = byKey \cup {e}
         /\ byAddr' = IF HasAddress(e) THEN byAddr \cup {e} ELSE byAddr
         /\ groups' = IF e.group = "" \/ e.group \in Elements(groups)
                      THEN groups ELSE Append(groups, e.group)
         /\ seenMQTT' = IF e.mqtt = "" THEN seenMQTT ELSE seenMQTT \cup {e.mqtt}
    ELSE UNCHANGED <<indexes, seenMQTT>>

\* MUTANT: a skipped entry claims its MQTT key.
AddMarksKey(e, v) ==
    /\ IF v = "kept"
       THEN /\ all' = Append(all, e)
            /\ byKey' = byKey \cup {e}
            /\ byAddr' = IF HasAddress(e) THEN byAddr \cup {e} ELSE byAddr
            /\ groups' = IF e.group = "" \/ e.group \in Elements(groups)
                         THEN groups ELSE Append(groups, e.group)
       ELSE UNCHANGED indexes
    /\ seenMQTT' = IF e.mqtt = "" THEN seenMQTT ELSE seenMQTT \cup {e.mqtt}

\* The entry enters the indexes, or none of them.
Add(e, v) ==
    IF v = "kept"
    THEN /\ all' = Append(all, e)
         /\ byKey' = byKey \cup {e}
         /\ byAddr' = IF HasAddress(e) THEN byAddr \cup {e} ELSE byAddr
         /\ groups' = IF e.group = "" \/ e.group \in Elements(groups)
                      THEN groups ELSE Append(groups, e.group)
         /\ seenMQTT' = IF e.mqtt = "" THEN seenMQTT ELSE seenMQTT \cup {e.mqtt}
    ELSE UNCHANGED <<indexes, seenMQTT>>

\* One round of parse's loop.
Parse ==
    /\ file # <<>> /\ ~refused
    /\ LET e == Head(file)
           v == Verdict(e)
       IN /\ Add(e, v)
          /\ seenAddr' = IF TakesAddress(e, v) THEN seenAddr \cup {e.key.addr}
                         ELSE seenAddr
          /\ verdicts' = Append(verdicts, v)
          /\ refused' = (v = "renamed group")
          /\ read' = Append(read, e)
    /\ file' = Tail(file)

Next == Parse

Spec == Init /\ [][Next]_vars /\ WF_vars(Parse)

-----------------------------------------------------------------------------
(* Lookups *)

\* Map.FindByMQTT: the first register with the key, as a set.
FindByMQTT(name) ==
    {all[i] : i \in {j \in DOMAIN all : all[j].mqtt = name
                        /\ \A k \in 1..(j - 1) : all[k].mqtt # name}}

\* Map.ByGroup: nothing that follows depends on the order.
ByGroup(g) == {r \in Elements(all) : r.group = g}

-----------------------------------------------------------------------------
(* Properties *)

\* A poll publishes a register under the key a command for it is sent to: what
\* FindByMQTT returns for a polled register's key is that register.  The three
\* indexes hold the same registers, and no two of them share a YAML key, a
\* Modbus address in whatever spelling, or an MQTT key, so that the poll and
\* the write path never disagree which register they talk about.
WritesWhereItReads ==
    /\ byKey = Elements(all)
    /\ byAddr = {r \in byKey : HasAddress(r)}
    /\ \A i, j \in DOMAIN all : i # j =>
        /\ all[i].key # all[j].key
        /\ HasAddress(all[i]) /\ HasAddress(all[j]) => all[i].key.addr # all[j].key.addr
    /\ \A g \in Elements(groups) : \A r \in ByGroup(g) :
        r.mqtt # "" => FindByMQTT(r.mqtt) = {r}

Usable(e) ==
    e.name # "" /\ e.key.kind # "overflow" /\ ValidateEntry(e) /\ ~e.unsafe

SameAddress(e, f) == HasAddress(e) /\ HasAddress(f) /\ e.key.addr = f.key.addr

Collide(e, f) ==
    \/ e.key = f.key
    \/ SameAddress(e, f)
    \/ e.mqtt # "" /\ e.mqtt = f.mqtt

\* The first definition wins: no usable entry is lost to anything but an
\* earlier entry, with its key, its address or its MQTT key, that was kept -
\* or that had its address and was skipped after the loader noted that.
FirstWins ==
    \A j \in DOMAIN read :
        Usable(read[j]) /\ verdicts[j] # "kept" /\ ~refused =>
            \/ \E i \in 1..(j - 1) :
                \/ Collide(read[i], read[j]) /\ verdicts[i] = "kept"
                \/ SameAddress(read[i], read[j]) /\ TakesAddress(read[i], verdicts[i])
=============================================================================
