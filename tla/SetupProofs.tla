------------------------------ MODULE SetupProofs ------------------------------
(***************************************************************************)
(* Proofs about module Setup: the configuration, the catalog, the reader   *)
(* and the document, for every set of sources and catalogs.                *)
(*                                                                         *)
(* Each of Config, CatalogLoad and ReadGroup has an inductive invariant of *)
(* its own, which only its own steps disturb; the reader's rests on the    *)
(* catalog's, and that no division of a group needs fewer reads on both.   *)
(* What Document states follows from the catalog's invariant without any   *)
(* step of its own.                                                        *)
(***************************************************************************)
EXTENDS Setup, SequenceTheorems, FunctionTheorems, FiniteSetTheorems, TLAPS

-----------------------------------------------------------------------------
(* The configuration *)

\* What the file and the environment say together.
Merged ==
    [s \in DOMAIN source.env \cup DOMAIN source.file |->
        IF Has(source.env, s) THEN Overridden(s, source.env[s]) ELSE source.file[s]]

\* What a key says, before defaults.
BoundTo(k) ==
    IF Has(Merged, <<k, "tag">>) THEN Decoded(k, Merged[<<k, "tag">>]) ELSE Zero(k)

TLSKeys == {"MQTT_TLS", "MQTT_TLS_INSECURE", "MQTT_TLS_CA"}

\* Honoured of one key, and the keys no default touches.
KeyHonoured(k) ==
    /\ \A v \in Said(k) :
        \/ cfg[k] = Decoded(k, v)
        \/ k = "HASS_BASE_TOPIC" /\ cfg[k] = NormalizeHASSBaseTopic(Decoded(k, v))
        \/ k \in DOMAIN IfEmpty /\ Decoded(k, v) = "" /\ cfg[k] = IfEmpty[k]
    /\ Silent(k) =>
        /\ k \in DOMAIN IfAbsent => cfg[k] = IfAbsent[k]
        /\ k \in DOMAIN IfEmpty => cfg[k] = IfEmpty[k]
        /\ k = "MQTT_PORT" => cfg[k] = SchemePort(cfg["MQTT_TLS"])
    /\ k \in TLSKeys => cfg[k] = BoundTo(k)

\* What each stage of Load has established: Honoured speaks of its end only.
ConfigInv ==
    /\ source \in Sources
    /\ raw = IF loaded = "parsed" THEN source.file ELSE Merged
    /\ loaded \in {"checked", "bound", "complete", "accepted"} => ~AsksByOldName
    /\ loaded = "bound" => \A k \in Keys : cfg[k] = BoundTo(k)
    /\ loaded \in {"complete", "accepted"} => \A k \in Keys : KeyHonoured(k)
    /\ loaded = "accepted" => Issues(cfg) = {}

\* A key has said what the merged map holds under its tag.
LEMMA SaidMerged ==
    ASSUME NEW k \in Keys
    PROVE  Said(k) = IF Has(Merged, <<k, "tag">>) THEN {Merged[<<k, "tag">>]} ELSE {}
  BY DEF Said, Has, Merged, Overridden

\* rawHasKey, once the environment is merged: in one of the sources, in a case.
LEMMA MergedHas ==
    ASSUME raw = Merged, NEW k
    PROVE  rawHasKey(k) <=> \E m \in {source.file, source.env}, c \in {"tag", "other"} :
                                Has(m, <<k, c>>)
  BY DEF rawHasKey, Has, Merged

\* No key is in two of the tables the defaults come from, and no default of
\* theirs is for a TLS key.
LEMMA DefaultTables ==
    /\ DOMAIN IfAbsent \cap DOMAIN IfEmpty = {}
    /\ {"MQTT_PORT", "HASS_BASE_TOPIC"} \cap (DOMAIN IfAbsent \cup DOMAIN IfEmpty) = {}
    /\ TLSKeys \cap (DOMAIN IfAbsent \cup DOMAIN IfEmpty \cup {"MQTT_PORT", "HASS_BASE_TOPIC"}) = {}
    /\ DOMAIN IfEmpty \subseteq StringKeys
    /\ TLSKeys \subseteq Keys
  BY DEF IfAbsent, IfEmpty, TLSKeys, StringKeys, Keys, BoolKeys

\* The defaults apply to silent keys only, or to an empty text.
LEMMA DefaultsHonour ==
    ASSUME ConfigInv, ApplyDefaults, NEW k \in Keys
    PROVE  KeyHonoured(k)'
<1>1. raw = Merged /\ \A j \in Keys : cfg[j] = BoundTo(j)
  BY DEF ApplyDefaults, ConfigInv
<1>2. Said(k)' = Said(k) /\ (Silent(k)' <=> Silent(k)) /\ BoundTo(k)' = BoundTo(k)
  <2>1. UNCHANGED source
    BY DEF ApplyDefaults
  <2>2. UNCHANGED Merged
    BY <2>1 DEF Merged
  <2>3. Silent(k)' <=> Silent(k)
    BY <2>1 DEF Silent
  <2> QED
    BY <2>1, <2>2, <2>3 DEF Said, BoundTo
<1>3. cfg'[k] = CASE k = "MQTT_PORT" /\ WantsDefault(k) -> SchemePort(cfg["MQTT_TLS"])
                  [] k = "HASS_BASE_TOPIC" -> NormalizeHASSBaseTopic(cfg[k])
                  [] k \in DOMAIN IfAbsent /\ WantsDefault(k) -> IfAbsent[k]
                  [] k \in DOMAIN IfEmpty /\ cfg[k] = "" -> IfEmpty[k]
                  [] OTHER -> cfg[k]
  BY DEF ApplyDefaults
<1>4. cfg'["MQTT_TLS"] = cfg["MQTT_TLS"]
  <2>1. "MQTT_TLS" \in Keys /\ "MQTT_TLS" \notin DOMAIN IfAbsent \cup DOMAIN IfEmpty
    BY DefaultTables DEF TLSKeys
  <2> QED
    BY <2>1 DEF ApplyDefaults
<1>5. WantsDefault(k) <=> Silent(k)
  BY <1>1, MergedHas DEF WantsDefault, Silent
<1>6. ASSUME NEW v \in Said(k)
      PROVE  cfg[k] = Decoded(k, v) /\ ~WantsDefault(k)
  <2>1. Has(Merged, <<k, "tag">>) /\ v = Merged[<<k, "tag">>]
    BY <1>6, SaidMerged
  <2> QED
    BY <2>1, <1>1 DEF BoundTo, WantsDefault, rawHasKey
<1>7. Silent(k) => cfg[k] = Zero(k)
  BY <1>1, MergedHas DEF Silent, BoundTo, Has, Merged
<1>8. \A v \in Said(k) :
        \/ cfg'[k] = Decoded(k, v)
        \/ k = "HASS_BASE_TOPIC" /\ cfg'[k] = NormalizeHASSBaseTopic(Decoded(k, v))
        \/ k \in DOMAIN IfEmpty /\ Decoded(k, v) = "" /\ cfg'[k] = IfEmpty[k]
  BY <1>3, <1>6
<1>9. Silent(k) =>
        /\ k \in DOMAIN IfAbsent => cfg'[k] = IfAbsent[k]
        /\ k \in DOMAIN IfEmpty => cfg'[k] = IfEmpty[k]
        /\ k = "MQTT_PORT" => cfg'[k] = SchemePort(cfg'["MQTT_TLS"])
  BY <1>3, <1>4, <1>5, <1>7, DefaultTables DEF Zero
<1>10. k \in TLSKeys => cfg'[k] = BoundTo(k)
  BY <1>1, <1>3, DefaultTables
<1> QED
  BY <1>2, <1>8, <1>9, <1>10 DEF KeyHonoured

\* Every stage of Load keeps ConfigInv.
LEMMA ConfigStep ==
    ASSUME ConfigInv, [ConfigNext]_configVars
    PROVE  ConfigInv'
<1>0. UNCHANGED source => UNCHANGED <<Merged, AsksByOldName>>
  BY DEF Merged, AsksByOldName
<1>1. CASE ApplyEnvOverrides
  <2>1. raw = source.file /\ UNCHANGED source /\ loaded' = "merged"
    BY <1>1 DEF ApplyEnvOverrides, ConfigInv
  <2>2. raw' = Merged
    BY <2>1, <1>1 DEF ApplyEnvOverrides, Merged
  <2> QED
    BY <2>1, <2>2, <1>0 DEF ConfigInv
<1>2. CASE CheckRenamedKeys
  <2>1. raw = Merged /\ UNCHANGED <<source, raw, cfg>>
    BY <1>2 DEF CheckRenamedKeys, ConfigInv
  <2>2. RenamedSet <=> AsksByOldName
    BY <2>1, MergedHas DEF RenamedSet, AsksByOldName
  <2>3. loaded' \in {"refused", "checked"} /\ (loaded' = "checked" => ~RenamedSet)
    BY <1>2 DEF CheckRenamedKeys
  <2> QED
    BY <2>1, <2>2, <2>3, <1>0 DEF ConfigInv
<1>3. CASE Unmarshal
  <2>1. raw = Merged /\ UNCHANGED <<source, raw>> /\ ~AsksByOldName
    BY <1>3 DEF Unmarshal, ConfigInv
  <2>2. /\ loaded' \in {"refused", "bound"}
        /\ loaded' = "bound" => \A k \in Keys : cfg'[k] = BoundTo(k)
    BY <1>3, <2>1 DEF Unmarshal, BoundTo
  <2>3. \A k \in Keys : UNCHANGED BoundTo(k)
    BY <2>1, <1>0 DEF BoundTo
  <2> QED
    BY <2>1, <2>2, <2>3, <1>0 DEF ConfigInv
<1>4. CASE ApplyDefaults
  <2>1. \A k \in Keys : KeyHonoured(k)'
    BY <1>4, DefaultsHonour
  <2>2. loaded = "bound" /\ loaded' = "complete" /\ UNCHANGED <<source, raw>>
    BY <1>4 DEF ApplyDefaults
  <2> QED
    BY <2>1, <2>2, <1>0 DEF ConfigInv
<1>5. CASE Validate
  <2>1. loaded = "complete" /\ UNCHANGED <<source, raw, cfg>>
    BY <1>5 DEF Validate
  <2>2. loaded' \in {"accepted", "refused"} /\ (loaded' = "accepted" => Issues(cfg) = {})
    BY <1>5 DEF Validate
  <2>3. \A k \in Keys : KeyHonoured(k)' <=> KeyHonoured(k)
    BY <2>1, <1>0 DEF KeyHonoured, Said, Silent, BoundTo
  <2>4. Issues(cfg)' = Issues(cfg)
    BY <2>1 DEF Issues
  <2> QED
    BY <2>1, <2>2, <2>3, <2>4, <1>0 DEF ConfigInv
<1>6. CASE UNCHANGED configVars
  <2>1. UNCHANGED <<source, raw, cfg, loaded>>
    BY <1>6 DEF configVars
  <2>2. \A k \in Keys : UNCHANGED BoundTo(k) /\ (KeyHonoured(k)' <=> KeyHonoured(k))
    BY <2>1, <1>0 DEF KeyHonoured, Said, Silent, BoundTo
  <2>3. Issues(cfg)' = Issues(cfg)
    BY <2>1 DEF Issues
  <2> QED
    BY <2>1, <2>2, <2>3, <1>0 DEF ConfigInv
<1> QED
  BY <1>1, <1>2, <1>3, <1>4, <1>5, <1>6 DEF ConfigNext

\* Whatever is accepted is what its sources say.
LEMMA InvHonoured == ConfigInv => Honoured
  BY DEF ConfigInv, KeyHonoured, Honoured

\* A text that is not empty stays so when it is bound, in whatever type the
\* file spells it.
LEMMA CASpelt ==
    ASSUME source \in Sources, NEW v \in Said("MQTT_TLS_CA"), v \notin {Str(""), Null}
    PROVE  Decoded("MQTT_TLS_CA", v) # ""
<1>1. "MQTT_TLS_CA" \in StringKeys /\ "MQTT_TLS_CA" \notin BoolKeys
  BY DEF StringKeys, BoolKeys
<1>2. CASE \E t : v = Str(t)
  <2>1. PICK t : v = Str(t)
    BY <1>2
  <2>2. DOMAIN v = {"str"} /\ v.str = t /\ t # ""
    BY <2>1 DEF Str
  <2>3. Decoded("MQTT_TLS_CA", v) = v.str
    BY <1>1, <2>2 DEF Decoded, Text, Is
  <2> QED
    BY <2>2, <2>3
<1>3. CASE ~ \E t : v = Str(t)
  <2>1. /\ <<"MQTT_TLS_CA", "tag">> \in DOMAIN source.file
        /\ v = source.file[<<"MQTT_TLS_CA", "tag">>]
    BY <1>1, <1>3 DEF Said, Has
  <2>2. /\ v \in Scalars
        /\ v \in [int : Int] => ToString(v.int) # ""
        /\ v \in Floats => v.float.text # ""
        /\ v \in [bool : BOOLEAN] => ToString(v.bool) # ""
    BY <2>1, ConfigAssumption
  <2>3. v \in [int : Int] \/ v \in Floats \/ v \in [bool : BOOLEAN]
    <3>1. ASSUME v \in [str : STRING]
          PROVE  v = Str(v.str)
      BY <3>1 DEF Str
    <3> QED
      BY <3>1, <2>2, <1>3 DEF Scalars
  <2>4. CASE v \in [int : Int]
    <3>1. DOMAIN v = {"int"}
      BY <2>4
    <3>2. Decoded("MQTT_TLS_CA", v) = ToString(v.int)
      BY <1>1, <3>1 DEF Decoded, Text, Is
    <3> QED
      BY <2>2, <2>4, <3>2
  <2>5. CASE v \in [bool : BOOLEAN]
    <3>1. DOMAIN v = {"bool"}
      BY <2>5
    <3>2. Decoded("MQTT_TLS_CA", v) = ToString(v.bool)
      BY <1>1, <3>1 DEF Decoded, Text, Is
    <3> QED
      BY <2>2, <2>5, <3>2
  <2>6. CASE v \in Floats
    <3>1. DOMAIN v = {"float"}
      BY <2>6 DEF Floats
    <3>2. Decoded("MQTT_TLS_CA", v) = v.float.text
      BY <1>1, <3>1 DEF Decoded, Text, Is
    <3> QED
      BY <2>2, <2>6, <3>2
  <2> QED
    BY <2>3, <2>4, <2>5, <2>6
<1> QED
  BY <1>2, <1>3

\* TLS that is asked for is dialled, and verified unless it says otherwise.
LEMMA InvNeverPlain == ConfigInv => NeverPlain
<1> SUFFICES ASSUME ConfigInv, loaded = "accepted"
             PROVE  /\ ~AsksByOldName
                    /\ AsksForTLS =>
                        /\ BrokerConnection.scheme = "tls"
                        /\ BrokerConnection.trust = "anything" =>
                            /\ Said("MQTT_TLS_INSECURE") # {}
                            /\ Said("MQTT_TLS_CA") \subseteq {Str(""), Null}
                    /\ (\E v \in Said("MQTT_TLS_CA") : v \notin {Str(""), Null}) =>
                        BrokerConnection.trust = "the CA" \/ "MQTT_TLS_CA" \in IgnoredTLSKeys
  BY DEF NeverPlain
<1>1. /\ ~AsksByOldName /\ Issues(cfg) = {} /\ source \in Sources
      /\ \A k \in TLSKeys : cfg[k] = BoundTo(k)
  BY DefaultTables DEF ConfigInv, KeyHonoured
<1>2. \A k \in TLSKeys : \A v \in Said(k) : cfg[k] = Decoded(k, v)
  BY <1>1, DefaultTables, SaidMerged DEF BoundTo
<1>3. ~(cfg["MQTT_TLS_CA"] # "" /\ cfg["MQTT_TLS_INSECURE"])
  BY <1>1 DEF Issues
<1>4. "MQTT_TLS" \in TLSKeys /\ "MQTT_TLS_CA" \in TLSKeys /\ "MQTT_TLS_INSECURE" \in TLSKeys
  BY DEF TLSKeys
<1>5. ASSUME Said("MQTT_TLS_INSECURE") = {}
      PROVE  cfg["MQTT_TLS_INSECURE"] = FALSE
  <2>1. cfg["MQTT_TLS_INSECURE"] = Zero("MQTT_TLS_INSECURE")
    BY <1>1, <1>4, <1>5, DefaultTables, SaidMerged DEF BoundTo
  <2> QED
    BY <2>1 DEF Zero, StringKeys, BoolKeys
<1>6. ASSUME NEW v \in Said("MQTT_TLS_CA"), v \notin {Str(""), Null}
      PROVE  cfg["MQTT_TLS_CA"] # ""
  BY <1>1, <1>2, <1>4, <1>6, CASpelt
<1>7. ASSUME AsksForTLS
      PROVE  cfg["MQTT_TLS"]
  BY <1>2, <1>4, <1>7 DEF AsksForTLS
<1>8. ASSUME cfg["MQTT_TLS"]
      PROVE  /\ BrokerConnection.scheme = "tls"
             /\ BrokerConnection.trust = "anything" => cfg["MQTT_TLS_INSECURE"]
             /\ cfg["MQTT_TLS_CA"] # "" /\ ~cfg["MQTT_TLS_INSECURE"] =>
                    BrokerConnection.trust = "the CA"
  BY <1>8 DEF BrokerConnection
<1>9. ~cfg["MQTT_TLS"] /\ cfg["MQTT_TLS_CA"] # "" => "MQTT_TLS_CA" \in IgnoredTLSKeys
  BY DEF IgnoredTLSKeys, Zero, StringKeys
<1> QED
  BY <1>1, <1>3, <1>5, <1>6, <1>7, <1>8, <1>9

-----------------------------------------------------------------------------
(* The catalog *)

\* Appending to a sequence: its length, its indexes and its elements.
LEMMA AppendFacts ==
    ASSUME NEW S, NEW q \in Seq(S), NEW x \in S
    PROVE  /\ Append(q, x) \in Seq(S)
           /\ Len(q) \in Nat /\ DOMAIN q = 1..Len(q)
           /\ Len(Append(q, x)) = Len(q) + 1
           /\ DOMAIN Append(q, x) = DOMAIN q \cup {Len(q) + 1}
           /\ \A i \in DOMAIN q : Append(q, x)[i] = q[i]
           /\ Append(q, x)[Len(q) + 1] = x
           /\ Elements(Append(q, x)) = Elements(q) \cup {x}
<1>1. /\ Append(q, x) \in Seq(S)
      /\ Len(q) \in Nat /\ DOMAIN q = 1..Len(q)
      /\ Len(Append(q, x)) = Len(q) + 1
      /\ DOMAIN Append(q, x) = DOMAIN q \cup {Len(q) + 1}
      /\ \A i \in DOMAIN q : Append(q, x)[i] = q[i]
      /\ Append(q, x)[Len(q) + 1] = x
  OBVIOUS
<1> QED
  BY <1>1 DEF Elements

Verdicts ==
    {"duplicate key", "no name", "address range", "invalid", "duplicate address",
     "renamed group", "unsafe topic", "duplicate mqtt", "kept"}

\* The verdict is the first complaint there is: what holds of an entry by its
\* verdict.
LEMMA VerdictFacts ==
    ASSUME NEW e, NEW v, v = Verdict(e)
    PROVE  /\ v = "kept" =>
                /\ \A r \in byKey : r.key # e.key
                /\ e.key.kind # "overflow" /\ ValidateEntry(e) /\ ~AddressTaken(e)
                /\ e.mqtt # "" => e.mqtt \notin seenMQTT
           /\ v = "duplicate key" => \E r \in byKey : r.key = e.key
           /\ v = "duplicate address" => AddressTaken(e)
           /\ v = "duplicate mqtt" => e.mqtt # "" /\ e.mqtt \in seenMQTT
           /\ v \in {"kept", "duplicate key", "duplicate address", "duplicate mqtt",
                     "renamed group"} \/ ~Usable(e)
           /\ v \in Verdicts
<1> DEFINE c == Complaints(e)
<1>1. DOMAIN c = 1..8
  BY DEF Complaints
<1>2. /\ c[1].verdict = "duplicate key" /\ c[2].verdict = "no name"
      /\ c[3].verdict = "address range" /\ c[4].verdict = "invalid"
      /\ c[5].verdict = "duplicate address" /\ c[6].verdict = "renamed group"
      /\ c[7].verdict = "unsafe topic" /\ c[8].verdict = "duplicate mqtt"
  BY DEF Complaints
<1>3. /\ c[1].found <=> \E r \in byKey : r.key = e.key
      /\ c[2].found <=> e.name = ""
      /\ c[3].found <=> e.key.kind = "overflow"
      /\ c[4].found <=> ~ValidateEntry(e)
      /\ c[5].found <=> AddressTaken(e)
      /\ c[6].found <=> e.group = "now-base"
      /\ c[7].found <=> e.unsafe
      /\ c[8].found <=> e.mqtt # "" /\ e.mqtt \in seenMQTT
  BY DEF Complaints
<1> HIDE DEF c
<1>4. CASE FirstFound(c) = {}
  <2>1. v = "kept"
    BY <1>4 DEF Verdict, c
  <2>2. \A i \in 1..8 : (\A j \in 1..(i - 1) : ~c[j].found) => ~c[i].found
    BY <1>1, <1>4 DEF FirstFound
  <2>3. ~c[1].found /\ ~c[2].found /\ ~c[3].found /\ ~c[4].found
    BY <2>2
  <2>4. ~c[5].found /\ ~c[6].found /\ ~c[7].found /\ ~c[8].found
    BY <2>2, <2>3
  <2> QED
    BY <1>3, <2>1, <2>3, <2>4 DEF Verdicts
<1>5. CASE FirstFound(c) # {}
  <2>1. PICK i \in FirstFound(c) : v = c[i].verdict
    BY <1>5 DEF Verdict, c
  <2>2. i \in {1, 2, 3, 4, 5, 6, 7, 8} /\ c[i].found
    BY <1>1 DEF FirstFound
  <2>3. v \in Verdicts
    BY <1>2, <2>1, <2>2 DEF Verdicts
  <2> QED
    BY <1>2, <1>3, <2>1, <2>2, <2>3 DEF Usable
<1> QED
  BY <1>4, <1>5

CatalogTypes ==
    /\ file \in Seq(AnyEntry) /\ read \in Seq(AnyEntry) /\ all \in Seq(AnyEntry)
    /\ verdicts \in Seq(Verdicts) /\ Len(verdicts) = Len(read)

\* What is in the indexes is in all of them, is sound, and is noted as seen.
Indexed ==
    /\ byKey = Elements(all)
    /\ byAddr = {r \in byKey : HasAddress(r)}
    /\ \A r \in byKey :
        /\ ValidateEntry(r)
        /\ HasAddress(r) => r.key.addr \in seenAddr
        /\ r.mqtt # "" => r.mqtt \in seenMQTT
    /\ \A i, j \in DOMAIN all : i # j =>
        /\ all[i].key # all[j].key
        /\ HasAddress(all[i]) /\ HasAddress(all[j]) => all[i].key.addr # all[j].key.addr
        /\ all[i].mqtt # "" => all[i].mqtt # all[j].mqtt

\* An earlier entry stands in the way of the j-th.
Forestalled(j) ==
    \E i \in 1..(j - 1) :
        \/ Collide(read[i], read[j]) /\ verdicts[i] = "kept"
        \/ SameAddress(read[i], read[j]) /\ TakesAddress(read[i], verdicts[i])

\* What is noted as seen was read, and why.
Remembered ==
    /\ \A r \in byKey : \E i \in DOMAIN read : read[i] = r /\ verdicts[i] = "kept"
    /\ \A a \in seenAddr : \E i \in DOMAIN read :
        /\ HasAddress(read[i]) /\ read[i].key.addr = a
        /\ TakesAddress(read[i], verdicts[i])
    /\ \A m \in seenMQTT : \E i \in DOMAIN read : read[i].mqtt = m /\ verdicts[i] = "kept"
    /\ \A j \in DOMAIN read :
        Usable(read[j]) /\ verdicts[j] \notin {"kept", "renamed group"} => Forestalled(j)
    /\ ~refused => \A j \in DOMAIN read : verdicts[j] # "renamed group"

CatalogInv == CatalogTypes /\ Indexed /\ Remembered

\* What one round of parse's loop does to the sequences.
LEMMA ParseAppends ==
    ASSUME CatalogTypes, Parse, NEW e, e = Head(file)
    PROVE  /\ e \in AnyEntry
           /\ CatalogTypes'
           /\ read' = Append(read, e) /\ verdicts' = Append(verdicts, Verdict(e))
           /\ DOMAIN verdicts = DOMAIN read
<1>1. file # <<>> /\ file \in Seq(AnyEntry)
  BY DEF Parse, CatalogTypes
<1>2. e \in AnyEntry /\ Tail(file) \in Seq(AnyEntry)
  BY <1>1
<1>3. read' = Append(read, e) /\ verdicts' = Append(verdicts, Verdict(e)) /\ file' = Tail(file)
  BY DEF Parse
<1>4. Verdict(e) \in Verdicts
  BY VerdictFacts
<1>5. all' \in Seq(AnyEntry)
  <2>1. all' = Append(all, e) \/ all' = all
    BY DEF Parse, Add, indexes
  <2>2. Append(all, e) \in Seq(AnyEntry)
    BY <1>2 DEF CatalogTypes
  <2>3. all \in Seq(AnyEntry)
    BY DEF CatalogTypes
  <2> QED
    BY <2>1, <2>2, <2>3
<1>6. read' \in Seq(AnyEntry) /\ verdicts' \in Seq(Verdicts) /\ Len(verdicts') = Len(read')
  BY <1>2, <1>3, <1>4, AppendFacts DEF CatalogTypes
<1>7. DOMAIN verdicts = DOMAIN read
  BY AppendFacts DEF CatalogTypes
<1> QED
  BY <1>2, <1>3, <1>5, <1>6, <1>7 DEF CatalogTypes

\* One round of parse's loop keeps the indexes together.
LEMMA IndexedStep ==
    ASSUME CatalogTypes, Indexed, Parse
    PROVE  Indexed'
<1> DEFINE e == Head(file)
           v == Verdict(e)
<1>1. e \in AnyEntry
  BY ParseAppends
<1>2. Add(e, v) /\ seenAddr \subseteq seenAddr'
      /\ (TakesAddress(e, v) => e.key.addr \in seenAddr')
  BY DEF Parse
<1>3. CASE v = "kept"
  <2>1. /\ \A r \in byKey : r.key # e.key
        /\ ValidateEntry(e) /\ ~AddressTaken(e)
        /\ e.mqtt # "" => e.mqtt \notin seenMQTT
    BY <1>3, VerdictFacts
  <2>2. /\ all' = Append(all, e) /\ byKey' = byKey \cup {e}
        /\ byAddr' = IF HasAddress(e) THEN byAddr \cup {e} ELSE byAddr
        /\ seenMQTT' = IF e.mqtt = "" THEN seenMQTT ELSE seenMQTT \cup {e.mqtt}
    BY <1>2, <1>3 DEF Add
  <2>3. HasAddress(e) => e.key.addr \in seenAddr' /\ e.key.addr \notin seenAddr
    BY <1>2, <1>3, <2>1 DEF TakesAddress, AddressTaken
  <2>4. /\ Elements(all') = Elements(all) \cup {e}
        /\ DOMAIN all' = DOMAIN all \cup {Len(all) + 1}
        /\ \A i \in DOMAIN all : all'[i] = all[i]
        /\ \A i \in DOMAIN all : all[i] \in byKey
        /\ all'[Len(all) + 1] = e
    <3>1. all \in Seq(AnyEntry)
      BY DEF CatalogTypes
    <3>2. \A i \in DOMAIN all : all[i] \in byKey
      BY DEF Elements, Indexed
    <3>3. all' = Append(all, e)
      BY <2>2
    <3> HIDE DEF e
    <3> QED
      BY <3>1, <3>2, <3>3, <1>1, AppendFacts
  <2>5. byKey' = Elements(all)' /\ byAddr' = {r \in byKey' : HasAddress(r)}
    BY <2>2, <2>4 DEF Indexed, Elements
  <2>6. \A r \in byKey' :
            /\ ValidateEntry(r)
            /\ HasAddress(r) => r.key.addr \in seenAddr'
            /\ r.mqtt # "" => r.mqtt \in seenMQTT'
    BY <1>2, <2>1, <2>2, <2>3 DEF Indexed
  <2>7. ASSUME NEW i \in DOMAIN all', NEW j \in DOMAIN all', i # j
        PROVE  /\ all'[i].key # all'[j].key
               /\ HasAddress(all'[i]) /\ HasAddress(all'[j]) => all'[i].key.addr # all'[j].key.addr
               /\ all'[i].mqtt # "" => all'[i].mqtt # all'[j].mqtt
    <3>1. CASE i \in DOMAIN all /\ j \in DOMAIN all
      BY <3>1, <2>4, <2>7 DEF Indexed
    <3>2. CASE i \in DOMAIN all /\ j = Len(all) + 1
      BY <3>2, <2>1, <2>3, <2>4 DEF Indexed
    <3>3. CASE i = Len(all) + 1 /\ j \in DOMAIN all
      BY <3>3, <2>1, <2>3, <2>4 DEF Indexed
    <3> QED
      BY <2>4, <2>7, <3>1, <3>2, <3>3
  <2> QED
    BY <2>5, <2>6, <2>7 DEF Indexed
<1>4. CASE v # "kept"
  <2>1. UNCHANGED <<all, byKey, byAddr, seenMQTT>>
    BY <1>2, <1>4 DEF Add, indexes
  <2> QED
    BY <1>2, <2>1, ZenonT(30) DEF Indexed, Elements
<1> QED
  BY <1>3, <1>4

\* One round of parse's loop keeps the record of why.
LEMMA RememberedStep ==
    ASSUME CatalogInv, Parse
    PROVE  Remembered'
<1> DEFINE e == Head(file)
           v == Verdict(e)
           n == Len(read) + 1
<1>1. /\ CatalogTypes /\ Indexed /\ Remembered
      /\ e \in AnyEntry /\ DOMAIN verdicts = DOMAIN read
      /\ read' = Append(read, e) /\ verdicts' = Append(verdicts, v)
  BY ParseAppends DEF CatalogInv
<1>2. /\ Len(read) \in Nat /\ DOMAIN read = 1..Len(read)
      /\ DOMAIN read' = DOMAIN read \cup {n}
      /\ \A i \in DOMAIN read : read'[i] = read[i] /\ verdicts'[i] = verdicts[i]
      /\ read'[n] = e /\ verdicts'[n] = v
  <2>1. v \in Verdicts
    BY VerdictFacts
  <2> QED
    BY <1>1, <2>1, AppendFacts DEF CatalogTypes
<1>3. /\ Add(e, v) /\ refused' = (v = "renamed group") /\ ~refused
      /\ seenAddr' = IF TakesAddress(e, v) THEN seenAddr \cup {e.key.addr} ELSE seenAddr
  BY DEF Parse
<1> HIDE DEF e, v, n
<1>4. \A r \in byKey' : r \in byKey \/ (r = e /\ v = "kept")
  BY <1>3 DEF Add, indexes
<1>5. \A m \in seenMQTT' : m \in seenMQTT \/ (m = e.mqtt /\ v = "kept")
  BY <1>3 DEF Add
<1>6. \A a \in seenAddr' : a \in seenAddr \/ (HasAddress(e) /\ a = e.key.addr /\ TakesAddress(e, v))
  BY <1>3 DEF TakesAddress
<1>7. ASSUME NEW j \in DOMAIN read', Usable(read'[j]), verdicts'[j] \notin {"kept", "renamed group"}
      PROVE  Forestalled(j)'
  <2>1. CASE j \in DOMAIN read
    <3>1. PICK i \in 1..(j - 1) :
            \/ Collide(read[i], read[j]) /\ verdicts[i] = "kept"
            \/ SameAddress(read[i], read[j]) /\ TakesAddress(read[i], verdicts[i])
      BY <1>1, <1>2, <1>7, <2>1 DEF Remembered, Forestalled
    <3>2. i \in DOMAIN read
      BY <1>2, <2>1
    <3> QED
      BY <3>1, <3>2, <2>1, <1>2 DEF Forestalled
  <2>2. CASE j = n
    <3>1. \/ \E r \in byKey : r.key = e.key
          \/ AddressTaken(e)
          \/ e.mqtt # "" /\ e.mqtt \in seenMQTT
      <4>1. Usable(e) /\ v \notin {"kept", "renamed group"}
        BY <1>2, <1>7, <2>2
      <4>2. v = Verdict(e)
        BY DEF v
      <4>3. v \in {"duplicate key", "duplicate address", "duplicate mqtt"}
        BY <4>1, <4>2, VerdictFacts
      <4> QED
        BY <4>2, <4>3, VerdictFacts
    <3>2. \E i \in DOMAIN read :
            \/ Collide(read[i], e) /\ verdicts[i] = "kept"
            \/ SameAddress(read[i], e) /\ TakesAddress(read[i], verdicts[i])
      <4>1. CASE \E r \in byKey : r.key = e.key
        <5>1. PICK r \in byKey : r.key = e.key
          BY <4>1
        <5>2. PICK i \in DOMAIN read : read[i] = r /\ verdicts[i] = "kept"
          BY <1>1 DEF Remembered
        <5> QED
          BY <5>1, <5>2 DEF Collide
      <4>2. CASE AddressTaken(e)
        BY <1>1, <4>2 DEF Remembered, AddressTaken, SameAddress
      <4>3. CASE e.mqtt # "" /\ e.mqtt \in seenMQTT
        <5>1. PICK i \in DOMAIN read : read[i].mqtt = e.mqtt /\ verdicts[i] = "kept"
          BY <1>1, <4>3 DEF Remembered
        <5> QED
          BY <4>3, <5>1 DEF Collide
      <4> QED
        BY <3>1, <4>1, <4>2, <4>3
    <3>3. \A i \in DOMAIN read : i \in 1..(n - 1)
      BY <1>2 DEF n
    <3> QED
      BY <3>2, <3>3, <2>2, <1>2 DEF Forestalled
  <2> QED
    BY <1>2, <1>7, <2>1, <2>2
<1>8. \A r \in byKey' : \E i \in DOMAIN read' : read'[i] = r /\ verdicts'[i] = "kept"
  <2>1. ASSUME NEW r \in byKey
        PROVE  \E i \in DOMAIN read' : read'[i] = r /\ verdicts'[i] = "kept"
    <3>1. PICK i \in DOMAIN read : read[i] = r /\ verdicts[i] = "kept"
      BY <1>1, <2>1 DEF Remembered
    <3> QED
      BY <1>2, <3>1
  <2>2. v = "kept" => \E i \in DOMAIN read' : read'[i] = e /\ verdicts'[i] = "kept"
    BY <1>2
  <2> QED
    BY <1>4, <2>1, <2>2
<1>9. \A a \in seenAddr' : \E i \in DOMAIN read' :
        /\ HasAddress(read'[i]) /\ read'[i].key.addr = a
        /\ TakesAddress(read'[i], verdicts'[i])
  <2>1. ASSUME NEW a \in seenAddr
        PROVE  \E i \in DOMAIN read' :
                /\ HasAddress(read'[i]) /\ read'[i].key.addr = a
                /\ TakesAddress(read'[i], verdicts'[i])
    <3>1. PICK i \in DOMAIN read :
            /\ HasAddress(read[i]) /\ read[i].key.addr = a
            /\ TakesAddress(read[i], verdicts[i])
      BY <1>1, <2>1 DEF Remembered
    <3> QED
      BY <1>2, <3>1
  <2>2. HasAddress(e) /\ TakesAddress(e, v) =>
            \E i \in DOMAIN read' :
                /\ HasAddress(read'[i]) /\ read'[i].key.addr = e.key.addr
                /\ TakesAddress(read'[i], verdicts'[i])
    BY <1>2
  <2> QED
    BY <1>6, <2>1, <2>2
<1>10. \A m \in seenMQTT' : \E i \in DOMAIN read' : read'[i].mqtt = m /\ verdicts'[i] = "kept"
  <2>1. ASSUME NEW m \in seenMQTT
        PROVE  \E i \in DOMAIN read' : read'[i].mqtt = m /\ verdicts'[i] = "kept"
    <3>1. PICK i \in DOMAIN read : read[i].mqtt = m /\ verdicts[i] = "kept"
      BY <1>1, <2>1 DEF Remembered
    <3> QED
      BY <1>2, <3>1
  <2>2. v = "kept" => \E i \in DOMAIN read' : read'[i].mqtt = e.mqtt /\ verdicts'[i] = "kept"
    BY <1>2
  <2> QED
    BY <1>5, <2>1, <2>2
<1>11. ~refused' => \A j \in DOMAIN read' : verdicts'[j] # "renamed group"
  BY <1>1, <1>2, <1>3 DEF Remembered
<1> QED
  BY <1>7, <1>8, <1>9, <1>10, <1>11 DEF Remembered

\* Every step of the loader keeps CatalogInv.
LEMMA CatalogStep ==
    ASSUME CatalogInv, [Parse]_vars
    PROVE  CatalogInv'
<1>1. CASE Parse
  BY <1>1, ParseAppends, IndexedStep, RememberedStep DEF CatalogInv
<1>2. CASE UNCHANGED vars
  <2>1. UNCHANGED <<file, read, all, byKey, byAddr, groups, seenAddr, seenMQTT, verdicts,
                    refused>>
    BY <1>2 DEF vars, indexes
  <2>2. CatalogTypes'
    BY <2>1 DEF CatalogInv, CatalogTypes
  <2>3. Indexed'
    BY <2>1, ZenonT(30) DEF CatalogInv, Indexed, Elements
  <2>4. Remembered'
    BY <2>1, ZenonT(30) DEF CatalogInv, Remembered, Forestalled
  <2> QED
    BY <2>2, <2>3, <2>4 DEF CatalogInv
<1> QED
  BY <1>1, <1>2

\* An index before another one is an index, and another.
LEMMA EarlierIndexes ==
    ASSUME NEW S, NEW q \in Seq(S)
    PROVE  \A j \in DOMAIN q : \A k \in 1..(j - 1) : k \in DOMAIN q /\ k # j
  OBVIOUS

\* A register with an MQTT key is the one that is found by it.
LEMMA FoundByKey ==
    ASSUME Indexed, CatalogTypes, NEW r \in Elements(all), r.mqtt # ""
    PROVE  FindByMQTT(r.mqtt) = {r}
<1>1. \A j \in DOMAIN all : \A k \in 1..(j - 1) : k \in DOMAIN all /\ k # j
  BY EarlierIndexes DEF CatalogTypes
<1>2. PICK i \in DOMAIN all : all[i] = r
  BY DEF Elements
<1>3. \A j \in DOMAIN all : all[j].mqtt = r.mqtt => j = i
  BY <1>2 DEF Indexed
<1>4. i \in {j \in DOMAIN all : all[j].mqtt = r.mqtt
                /\ \A k \in 1..(j - 1) : all[k].mqtt # r.mqtt}
  BY <1>1, <1>2, <1>3
<1> QED
  BY <1>2, <1>3, <1>4 DEF FindByMQTT

\* The poll and the write path never disagree which register they talk about.
LEMMA InvWrites == CatalogInv => WritesWhereItReads
<1> SUFFICES ASSUME CatalogInv
             PROVE  WritesWhereItReads
  OBVIOUS
<1>1. \A g \in Elements(groups) : \A r \in ByGroup(g) :
        r.mqtt # "" => FindByMQTT(r.mqtt) = {r}
  BY FoundByKey DEF CatalogInv, ByGroup
<1> QED
  BY <1>1 DEF CatalogInv, Indexed, WritesWhereItReads

\* No usable entry is lost to anything but an earlier one.
LEMMA InvFirstWins == CatalogInv => FirstWins
  BY DEF CatalogInv, Remembered, Forestalled, FirstWins

-----------------------------------------------------------------------------
(* The reader *)

\* A register the loader has let through has an address range of its own.
Readable(r) ==
    /\ r.key.addr \in Nat /\ r.length \in 1..MaxReadWords
    /\ r.key.addr + r.length <= AddressSpace

Window == [start : Nat, count : Nat, members : SUBSET AnyEntry]

ReadTypes ==
    /\ windows \in Seq(Window)
    /\ curEnd \in Nat
    /\ next \in Nat \ {0} /\ next <= Len(windows) + 1
    /\ regs \subseteq AnyEntry /\ rest \subseteq regs
    /\ \A r \in regs : Readable(r)

\* A window is a legal request, and reaches exactly as far as its members.
LegalRead(w) ==
    /\ w.count \in 1..MaxReadWords
    /\ w.start + w.count <= AddressSpace
    /\ \A m \in w.members : w.start <= m.key.addr /\ End(m) <= w.start + w.count
    /\ \E m \in w.members : m.key.addr = w.start
    /\ \E m \in w.members : End(m) = w.start + w.count

\* Clusterize may grow the last window because what is left begins no earlier
\* than it does, and curEnd is its end; ReadGroup has read or failed every
\* window before `next', and begins when nothing is left to place.
Covered ==
    /\ \A i \in DOMAIN windows : LegalRead(windows[i])
    /\ \A r \in regs : r \in rest \/ \E i \in DOMAIN windows : r \in windows[i].members
    /\ \A i \in DOMAIN windows : windows[i].members \subseteq regs \ rest
    /\ \A i, j \in DOMAIN windows :
        i # j => windows[i].members \cap windows[j].members = {}
    /\ windows # <<>> =>
        /\ curEnd = Last.start + Last.count
        /\ \A e \in rest : Last.start <= e.key.addr
    /\ rest # {} => next = 1
    /\ \A i \in 1..(next - 1) : i \in failed \/ windows[i].members \subseteq out

ReadInv == ReadTypes /\ Covered

\* A group of the catalog consists of readable registers.
LEMMA BeginReads ==
    ASSUME CatalogInv, NEW g
    PROVE  \A r \in {r \in ByGroup(g) : Modbus(r)} : r \in AnyEntry /\ Readable(r)
<1> SUFFICES ASSUME NEW r \in ByGroup(g), Modbus(r)
             PROVE  r \in AnyEntry /\ Readable(r)
  OBVIOUS
<1>1. r \in Elements(all) /\ r \in byKey
  BY DEF ByGroup, CatalogInv, Indexed
<1>2. all \in Seq(AnyEntry)
  BY DEF CatalogInv, CatalogTypes
<1>3. r \in AnyEntry
  BY <1>1, <1>2 DEF Elements
<1>4. ValidateEntry(r)
  BY <1>1 DEF CatalogInv, Indexed
<1>5. r.length >= 1 /\ r.length <= MaxReadWords /\ r.key.addr + r.length <= AddressSpace
  BY <1>4 DEF ValidateEntry, Modbus
<1>6. r.key.addr \in Nat /\ r.length \in Nat /\ MaxReadWords \in Nat
  BY <1>3, ConstAssumption DEF Modbus, HasAddress
<1> QED
  BY <1>3, <1>5, <1>6 DEF Readable

\* The last window of a list that has one.
LEMMA LastFacts ==
    ASSUME ReadTypes, windows # <<>>
    PROVE  /\ Len(windows) \in Nat \ {0} /\ Len(windows) \in DOMAIN windows
           /\ DOMAIN windows = 1..Len(windows)
           /\ Last = windows[Len(windows)] /\ Last \in Window
           /\ Last.start \in Nat /\ Last.count \in Nat
<1>1. windows \in Seq(Window)
  BY DEF ReadTypes
<1>2. /\ Len(windows) \in Nat \ {0} /\ Len(windows) \in DOMAIN windows
      /\ DOMAIN windows = 1..Len(windows)
      /\ windows[Len(windows)] \in Window
  BY <1>1
<1> QED
  BY <1>2 DEF Last, Window

\* What the arithmetic of a merge comes to.
LEMMA WordsFacts ==
    ASSUME ReadInv, windows # <<>>, NEW e \in rest
    PROVE  /\ Words(e) \in Nat \ {0} /\ End(e) \in Nat /\ e.key.addr \in Nat
           /\ Last.start <= e.key.addr
           /\ Last.start + Words(e) \in {curEnd, End(e)}
           /\ curEnd <= Last.start + Words(e) /\ End(e) <= Last.start + Words(e)
           /\ Last.start + Words(e) <= AddressSpace
<1>1. /\ Last.start \in Nat /\ Last.count \in Nat
      /\ Len(windows) \in DOMAIN windows /\ Last = windows[Len(windows)]
  BY LastFacts DEF ReadInv
<1>2. LegalRead(Last)
  BY <1>1 DEF ReadInv, Covered
<1>3. Last.count \in 1..MaxReadWords /\ Last.start + Last.count <= AddressSpace
  BY <1>2 DEF LegalRead
<1>4. curEnd = Last.start + Last.count /\ Last.start <= e.key.addr
  BY DEF ReadInv, Covered
<1>5. Readable(e)
  BY DEF ReadInv, ReadTypes
<1>6. /\ e.key.addr \in Nat /\ e.length \in Nat \ {0}
      /\ e.key.addr + e.length <= AddressSpace
  BY <1>5, ConstAssumption DEF Readable
<1>7. End(e) = e.key.addr + e.length /\ Words(e) = Larger(curEnd, End(e)) - Last.start
  BY DEF End, Words
<1>8. /\ Larger(curEnd, End(e)) \in {curEnd, End(e)}
      /\ curEnd <= Larger(curEnd, End(e)) /\ End(e) <= Larger(curEnd, End(e))
  <2>1. curEnd \in Nat /\ End(e) \in Nat
    BY <1>1, <1>4, <1>6, <1>7
  <2> QED
    BY <2>1 DEF Larger
<1>9. Larger(curEnd, End(e)) \in Nat /\ End(e) \in Nat /\ curEnd \in Nat
  BY <1>1, <1>4, <1>6, <1>7, <1>8, SMTT(30)
<1>10. AddressSpace \in Nat
  BY ConstAssumption
<1>11. Words(e) \in Nat \ {0}
  BY <1>1, <1>3, <1>4, <1>7, <1>8, <1>9
<1>12. Last.start + Words(e) = Larger(curEnd, End(e))
  BY <1>1, <1>7, <1>9
<1>13. Larger(curEnd, End(e)) <= AddressSpace
  BY <1>3, <1>4, <1>6, <1>7, <1>8
<1> QED
  BY <1>4, <1>6, <1>8, <1>9, <1>11, <1>12, <1>13

\* A merge changes the last window only.
LEMMA MergeShape ==
    ASSUME ReadInv, NEW e \in rest, Merge(e), NEW n, n = Len(windows)
    PROVE  /\ windows # <<>> /\ windows' \in Seq(Window)
           /\ Len(windows') = n /\ DOMAIN windows' = DOMAIN windows
           /\ \A i \in DOMAIN windows : i # n => windows'[i] = windows[i]
           /\ windows'[n].start = Last.start
           /\ windows'[n].count = Words(e)
           /\ windows'[n].members = Last.members \cup {e}
<1>1. /\ windows # <<>>
      /\ windows' = [windows EXCEPT ![n] =
                        [start |-> Last.start, count |-> Words(e),
                         members |-> Last.members \cup {e}]]
  BY DEF Merge, Merges, Last
<1>2. /\ windows \in Seq(Window) /\ n \in Nat \ {0} /\ n \in DOMAIN windows
      /\ DOMAIN windows = 1..n /\ Last = windows[n] /\ Last \in Window
  BY <1>1, LastFacts DEF ReadInv, ReadTypes
<1>3. e \in AnyEntry /\ Words(e) \in Nat
  BY <1>1, WordsFacts DEF ReadInv, ReadTypes
<1> DEFINE w == [start |-> Last.start, count |-> Words(e), members |-> Last.members \cup {e}]
<1>4. w \in Window
  BY <1>2, <1>3 DEF Window
<1>6. windows' = [windows EXCEPT ![n] = w]
  BY <1>1
<1> HIDE DEF w
<1>7. /\ windows' \in Seq(Window) /\ Len(windows') = n
      /\ DOMAIN windows' = DOMAIN windows /\ windows'[n] = w
      /\ \A i \in DOMAIN windows : i # n => windows'[i] = windows[i]
  BY <1>2, <1>4, <1>6
<1>8. w.start = Last.start /\ w.count = Words(e) /\ w.members = Last.members \cup {e}
  BY DEF w
<1> QED
  BY <1>1, <1>7, <1>8

\* Placing a register keeps the windows legal, apart, and reaching the end.
LEMMA MergeStep ==
    ASSUME ReadInv, NEW e \in rest, Lowest(e), Merge(e), rest' = rest \ {e},
           UNCHANGED <<regs, next, failed, out>>
    PROVE  ReadInv'
<1> DEFINE n == Len(windows)
           w == windows'[n]
<1>1. /\ windows # <<>> /\ windows' \in Seq(Window)
      /\ Len(windows') = n /\ DOMAIN windows' = DOMAIN windows
      /\ \A i \in DOMAIN windows : i # n => windows'[i] = windows[i]
      /\ w.start = Last.start
      /\ w.count = Words(e)
      /\ w.members = Last.members \cup {e}
  BY MergeShape
<1>2. /\ n \in DOMAIN windows /\ Last = windows[n] /\ Last.start \in Nat
  BY <1>1, LastFacts DEF ReadInv
<1> HIDE DEF w, n
<1>3. /\ Words(e) \in Nat \ {0} /\ End(e) \in Nat /\ e.key.addr \in Nat
      /\ Last.start <= e.key.addr
      /\ Last.start + Words(e) \in {curEnd, End(e)}
      /\ curEnd <= Last.start + Words(e) /\ End(e) <= Last.start + Words(e)
      /\ Last.start + Words(e) <= AddressSpace
      /\ Words(e) <= MaxReadWords /\ MaxReadWords \in Nat
  BY <1>1, WordsFacts, ConstAssumption DEF Merge, Merges
<1>4. /\ e \in regs /\ regs \subseteq AnyEntry
      /\ \A r \in regs : Readable(r)
  BY DEF ReadInv, ReadTypes
<1>5. LegalRead(Last) /\ curEnd = Last.start + Last.count
  BY <1>1, <1>2 DEF ReadInv, Covered
<1>6. /\ Last.members \subseteq regs \ rest
      /\ \A i \in DOMAIN windows : windows[i].members \subseteq regs \ rest
      /\ \A i, j \in DOMAIN windows : i # j => windows[i].members \cap windows[j].members = {}
      /\ \A r \in regs : r \in rest \/ \E i \in DOMAIN windows : r \in windows[i].members
  BY <1>2 DEF ReadInv, Covered
<1>7. /\ rest' = rest \ {e} /\ regs' = regs /\ next' = next
      /\ curEnd' = Last.start + Words(e) /\ next = 1
  BY DEF Merge, ReadInv, Covered
<1>8. LegalRead(w)
  <2>1. \A m \in Last.members : End(m) \in Nat
    <3>1. \A m \in Last.members : Readable(m)
      BY <1>4, <1>6
    <3> QED
      BY <3>1, ConstAssumption DEF Readable, End
  <2>2. \A m \in Last.members : Last.start <= m.key.addr /\ End(m) <= curEnd
    BY <1>5 DEF LegalRead
  <2>3. curEnd \in Nat
    BY DEF ReadInv, ReadTypes
  <2>4. \A m \in w.members : w.start <= m.key.addr /\ End(m) <= w.start + w.count
    <3>1. \A m \in Last.members : End(m) <= Last.start + Words(e)
      BY <1>2, <1>3, <2>1, <2>2, <2>3
    <3> QED
      BY <1>1, <1>3, <2>2, <3>1
  <2>5. \E m \in w.members : m.key.addr = w.start
    BY <1>1, <1>5 DEF LegalRead
  <2>6. \E m \in w.members : End(m) = w.start + w.count
    <3>1. CASE Last.start + Words(e) = curEnd
      BY <1>1, <1>5, <3>1 DEF LegalRead
    <3>2. CASE Last.start + Words(e) = End(e)
      BY <1>1, <3>2
    <3> QED
      BY <1>3, <3>1, <3>2
  <2>7. w.count \in 1..MaxReadWords /\ w.start + w.count <= AddressSpace
    BY <1>1, <1>3
  <2> QED
    BY <2>4, <2>5, <2>6, <2>7 DEF LegalRead
<1>9. ReadTypes'
  <2>1. curEnd' \in Nat
    BY <1>2, <1>3, <1>7
  <2>2. Len(windows') + 1 >= next' /\ next' \in Nat \ {0}
    <3>1. Len(windows') \in Nat
      BY <1>1
    <3> QED
      BY <1>7, <3>1
  <2>3. regs' \subseteq AnyEntry /\ rest' \subseteq regs' /\ \A r \in regs' : Readable(r)
    BY <1>4, <1>7 DEF ReadInv, ReadTypes
  <2> QED
    BY <1>1, <2>1, <2>2, <2>3 DEF ReadTypes
<1>10. \A i \in DOMAIN windows' : LegalRead(windows'[i])
  BY <1>1, <1>8 DEF ReadInv, Covered, w
<1>11. \A r \in regs' : r \in rest' \/ \E i \in DOMAIN windows' : r \in windows'[i].members
  <2> SUFFICES ASSUME NEW r \in regs, r # e, r \notin rest
               PROVE  \E i \in DOMAIN windows : r \in windows'[i].members
    BY <1>1, <1>2, <1>7 DEF w
  <2>1. PICK i \in DOMAIN windows : r \in windows[i].members
    BY <1>6
  <2>2. CASE i = n
    BY <1>1, <1>2, <2>1, <2>2 DEF w
  <2>3. CASE i # n
    BY <1>1, <2>1, <2>3
  <2> QED
    BY <2>2, <2>3
<1>12. \A i \in DOMAIN windows' :
        /\ windows'[i].members \subseteq regs' \ rest'
        /\ i # n => windows'[i].members = windows[i].members
        /\ windows'[i].members \subseteq windows[i].members \cup {e}
  BY <1>1, <1>2, <1>4, <1>6, <1>7 DEF w
<1>13. \A i, j \in DOMAIN windows' :
        i # j => windows'[i].members \cap windows'[j].members = {}
  <2>1. \A i \in DOMAIN windows : e \notin windows[i].members
    BY <1>6
  <2> SUFFICES ASSUME NEW i \in DOMAIN windows, NEW j \in DOMAIN windows, i # j,
                      NEW r \in windows'[i].members, r \in windows'[j].members
               PROVE  FALSE
    BY <1>1
  <2>2. CASE r = e
    BY <1>1, <1>12, <2>1, <2>2
  <2>3. CASE r # e
    BY <1>1, <1>6, <1>12, <2>3
  <2> QED
    BY <2>2, <2>3
<1>14. curEnd' = Last' .start + Last' .count /\ \A r \in rest' : Last' .start <= r.key.addr
  <2>1. Last' = w
    BY <1>1 DEF Last, w
  <2>2. \A r \in rest : Last.start <= r.key.addr
    BY <1>1 DEF ReadInv, Covered
  <2> QED
    BY <1>1, <1>7, <2>1, <2>2
<1>15. \A i \in 1..(next' - 1) : i \in failed' \/ windows'[i].members \subseteq out'
  BY <1>7
<1> QED
  BY <1>7, <1>9, <1>10, <1>11, <1>12, <1>13, <1>14, <1>15 DEF ReadInv, Covered

\* So does opening a window: nothing else moves.
LEMMA OpenStep ==
    ASSUME ReadInv, NEW e \in rest, Lowest(e), Open(e), rest' = rest \ {e},
           UNCHANGED <<regs, next, failed, out>>
    PROVE  ReadInv'
<1> DEFINE n == Len(windows) + 1
           w == [start |-> e.key.addr, count |-> e.length, members |-> {e}]
<1>1. /\ windows \in Seq(Window) /\ regs \subseteq AnyEntry
      /\ e \in regs /\ Readable(e) /\ \A r \in regs : Readable(r)
  BY DEF ReadInv, ReadTypes
<1>2. /\ e.key.addr \in Nat /\ e.length \in 1..MaxReadWords /\ e.length \in Nat
      /\ e.key.addr + e.length <= AddressSpace
  BY <1>1, ConstAssumption DEF Readable
<1>3. \A r \in rest : e.key.addr <= r.key.addr
  BY DEF Lowest
<1>4. /\ windows' = Append(windows, w) /\ curEnd' = e.key.addr + e.length
      /\ rest' = rest \ {e} /\ regs' = regs /\ next' = next /\ next = 1
  BY DEF Open, End, ReadInv, Covered
<1>5. w \in Window
  BY <1>1, <1>2 DEF Window
<1>6. w.start = e.key.addr /\ w.count = e.length /\ w.members = {e}
  OBVIOUS
<1> HIDE DEF w
<1>7. /\ windows' \in Seq(Window) /\ DOMAIN windows' = DOMAIN windows \cup {n}
      /\ \A i \in DOMAIN windows : windows'[i] = windows[i] /\ i # n
      /\ windows'[n] = w /\ Len(windows') = n /\ n \in Nat \ {0} /\ n \in DOMAIN windows'
  BY <1>1, <1>4, <1>5
<1> HIDE DEF n
<1>8. LegalRead(w)
  BY <1>2, <1>6 DEF LegalRead, End
<1>9. ReadTypes'
  <2>1. curEnd' \in Nat
    BY <1>2, <1>4
  <2>2. next' \in Nat \ {0} /\ next' <= Len(windows') + 1
    BY <1>4, <1>7
  <2>3. regs' \subseteq AnyEntry /\ rest' \subseteq regs' /\ \A r \in regs' : Readable(r)
    BY <1>1, <1>4 DEF ReadInv, ReadTypes
  <2> QED
    BY <1>7, <2>1, <2>2, <2>3 DEF ReadTypes
<1>10. \A i \in DOMAIN windows' : LegalRead(windows'[i])
  BY <1>7, <1>8 DEF ReadInv, Covered
<1>11. /\ \A i \in DOMAIN windows : windows[i].members \subseteq regs \ rest
       /\ \A r \in regs : r \in rest \/ \E i \in DOMAIN windows : r \in windows[i].members
       /\ \A i, j \in DOMAIN windows :
            i # j => windows[i].members \cap windows[j].members = {}
  BY DEF ReadInv, Covered
<1>12. \A r \in regs' : r \in rest' \/ \E i \in DOMAIN windows' : r \in windows'[i].members
  BY <1>4, <1>6, <1>7, <1>11
<1>13. \A i \in DOMAIN windows' : windows'[i].members \subseteq regs' \ rest'
  BY <1>1, <1>4, <1>6, <1>7, <1>11
<1>14. \A i, j \in DOMAIN windows' :
        i # j => windows'[i].members \cap windows'[j].members = {}
  <2>1. \A i \in DOMAIN windows : e \notin windows[i].members
    BY <1>11
  <2> QED
    BY <1>6, <1>7, <1>11, <2>1
<1>15. curEnd' = Last' .start + Last' .count /\ \A r \in rest' : Last' .start <= r.key.addr
  <2>1. Last' = w
    BY <1>7 DEF Last
  <2> QED
    BY <1>3, <1>4, <1>6, <2>1
<1>16. \A i \in 1..(next' - 1) : i \in failed' \/ windows'[i].members \subseteq out'
  BY <1>4
<1> QED
  BY <1>4, <1>9, <1>10, <1>12, <1>13, <1>14, <1>15, <1>16 DEF ReadInv, Covered

\* A group is taken up with nothing placed and nothing read.
LEMMA BeginStep ==
    ASSUME CatalogInv, ReadInv, NEW g, Begin(g)
    PROVE  ReadInv'
<1>1. /\ windows = <<>> /\ rest' = regs' /\ regs' = {r \in ByGroup(g) : Modbus(r)}
      /\ UNCHANGED <<windows, curEnd, next, failed, out>>
  BY DEF Begin
<1>2. regs' \subseteq AnyEntry /\ \A r \in regs' : Readable(r)
  BY <1>1, BeginReads
<1>3. /\ windows' \in Seq(Window) /\ curEnd' \in Nat
      /\ next' \in Nat \ {0} /\ next' <= Len(windows') + 1
  BY <1>1 DEF ReadInv, ReadTypes
<1>4. DOMAIN windows' = {} /\ windows' = <<>> /\ next' = 1
  BY <1>1, <1>3
<1> QED
  BY <1>1, <1>2, <1>3, <1>4 DEF ReadInv, ReadTypes, Covered

\* A window that is read gives every one of its registers a value.
LEMMA ReadWindowStep ==
    ASSUME ReadInv, ReadWindow
    PROVE  ReadInv'
<1>1. /\ rest = {} /\ next <= Len(windows) /\ next' = next + 1
      /\ UNCHANGED <<regs, rest, windows, curEnd>>
      /\ \/ out' = out \cup Cut(windows[next]) /\ failed' = failed
         \/ failed' = failed \cup {next} /\ out' = out
  BY DEF ReadWindow
<1>2. /\ windows \in Seq(Window) /\ next \in Nat \ {0} /\ next \in DOMAIN windows
      /\ Len(windows) \in Nat
  BY <1>1 DEF ReadInv, ReadTypes
<1>3. Cut(windows[next]) = windows[next].members
  <2>1. LegalRead(windows[next]) /\ windows[next].members \subseteq regs
    BY <1>2 DEF ReadInv, Covered
  <2>2. windows[next].start \in Nat /\ windows[next].count \in Nat
    <3>1. windows[next] \in Window
      BY <1>2
    <3> QED
      BY <3>1 DEF Window
  <2>3. \A m \in windows[next].members : End(m) \in Nat
    <3>1. \A m \in windows[next].members : Readable(m)
      BY <2>1 DEF ReadInv, ReadTypes
    <3> QED
      BY <3>1, ConstAssumption DEF Readable, End
  <2>4. \A m \in windows[next].members :
            m.key.addr >= windows[next].start /\ End(m) - windows[next].start <= windows[next].count
    <3>1. \A m \in windows[next].members :
            m.key.addr \in Nat /\ windows[next].start <= m.key.addr
            /\ End(m) <= windows[next].start + windows[next].count
      BY <2>1 DEF ReadInv, ReadTypes, Readable, LegalRead
    <3> QED
      BY <2>2, <2>3, <3>1
  <2> QED
    BY <2>4 DEF Cut
<1>4. \A i \in 1..(next' - 1) : i \in failed' \/ windows'[i].members \subseteq out'
  <2>1. \A i \in 1..(next - 1) : i \in failed \/ windows[i].members \subseteq out
    BY DEF ReadInv, Covered
  <2>2. \A i \in 1..(next' - 1) : i \in 1..(next - 1) \/ i = next
    BY <1>1, <1>2
  <2> QED
    BY <1>1, <1>3, <2>1, <2>2
<1>5. ReadTypes'
  <2>1. next' \in Nat \ {0} /\ next' <= Len(windows) + 1
    BY <1>1, <1>2
  <2> QED
    BY <1>1, <2>1 DEF ReadInv, ReadTypes
<1>6. UNCHANGED Last
  BY <1>1 DEF Last
<1> QED
  BY <1>1, <1>4, <1>5, <1>6 DEF ReadInv, Covered

\* Every step of a cycle keeps ReadInv.
LEMMA ReadStep ==
    ASSUME CatalogInv, ReadInv, [ReadNext]_readVars
    PROVE  ReadInv'
<1>1. CASE \E g \in Elements(groups) : Begin(g)
  BY <1>1, BeginStep
<1>2. CASE Place
  BY <1>2, MergeStep, OpenStep DEF Place
<1>3. CASE ReadWindow
  BY <1>3, ReadWindowStep
<1>4. CASE UNCHANGED readVars
  <2>1. UNCHANGED <<regs, rest, windows, curEnd, next, failed, out, Last>>
    BY <1>4 DEF readVars, Last
  <2> QED
    BY <2>1 DEF ReadInv, ReadTypes, Covered
<1> QED
  BY <1>1, <1>2, <1>3, <1>4 DEF ReadNext

\* Every window is a legal request, and no register is lost.
LEMMA InvWindows == ReadInv => Windows
<1> SUFFICES ASSUME ReadInv
             PROVE  Windows
  OBVIOUS
<1>1. /\ \A i \in DOMAIN windows : LegalRead(windows[i])
      /\ \A r \in regs : r \in rest \/ \E i \in DOMAIN windows : r \in windows[i].members
      /\ \A i \in DOMAIN windows : windows[i].members \subseteq regs \ rest
      /\ \A i, j \in DOMAIN windows :
            i # j => windows[i].members \cap windows[j].members = {}
      /\ \A i \in 1..(next - 1) : i \in failed \/ windows[i].members \subseteq out
  BY DEF ReadInv, Covered
<1>2. Members = regs \ rest
  BY <1>1 DEF Members
<1>3. ASSUME rest = {}, next > Len(windows), NEW r \in regs \ out
      PROVE  \E i \in failed : r \in windows[i].members
  <2>1. PICK i \in DOMAIN windows : r \in windows[i].members
    BY <1>1, <1>3
  <2>2. i \in 1..(next - 1)
    <3>1. windows \in Seq(Window) /\ next \in Nat
      BY DEF ReadInv, ReadTypes
    <3> QED
      BY <1>3, <3>1
  <2> QED
    BY <1>1, <1>3, <2>1, <2>2
<1>4. \A i \in DOMAIN windows :
        LET w == windows[i] IN
        /\ w.count \in 1..MaxReadWords
        /\ w.start + w.count <= AddressSpace
        /\ \A m \in w.members : w.start <= m.key.addr /\ End(m) <= w.start + w.count
        /\ \E m \in w.members : m.key.addr = w.start
        /\ \E m \in w.members : End(m) = w.start + w.count
  BY <1>1 DEF LegalRead
<1> QED
  BY <1>1, <1>2, <1>3, <1>4 DEF Windows

-----------------------------------------------------------------------------
(* The fewest requests *)

\* e could have been read with w.
Joins(w, e) ==
    /\ e.key.addr - (w.start + w.count) <= GapThreshold
    /\ Larger(w.start + w.count, End(e)) - w.start <= MaxReadWords

\* What makes Clusterize's division the smallest one.  Registers are told apart by their
\* addresses and placed in their order; windows begin and end in that order
\* too; no hole in a window is too long; and the register a window begins with
\* could not have been read with the window before it.
Sparing ==
    /\ \A r, s \in regs : r.key.addr = s.key.addr => r = s
    /\ \A i \in DOMAIN windows : \A m \in windows[i].members, r \in rest :
        m.key.addr < r.key.addr
    /\ \A i, j \in DOMAIN windows : i < j =>
        /\ \A m \in windows[i].members : m.key.addr < windows[j].start
        /\ windows[i].start + windows[i].count < windows[j].start + windows[j].count
    /\ \A i \in DOMAIN windows : \A m \in windows[i].members :
        m.key.addr # windows[i].start =>
            \E s \in windows[i].members :
                s.key.addr < m.key.addr /\ m.key.addr - End(s) <= GapThreshold
    /\ \A i, j \in DOMAIN windows : j = i + 1 =>
        \E e \in windows[j].members :
            e.key.addr = windows[j].start /\ ~Joins(windows[i], e)

\* A catalog has one register at an address.
LEMMA SparingBegin ==
    ASSUME CatalogInv, ReadInv, NEW g, Begin(g)
    PROVE  Sparing'
<1>1. /\ windows' = <<>> /\ regs' = {r \in ByGroup(g) : Modbus(r)}
  BY DEF Begin
<1>2. DOMAIN windows' = {}
  BY <1>1
<1>3. \A r, s \in regs' : r.key.addr = s.key.addr => r = s
  <2> SUFFICES ASSUME NEW r \in ByGroup(g), NEW s \in ByGroup(g), Modbus(r), Modbus(s),
                      r.key.addr = s.key.addr
               PROVE  r = s
    BY <1>1
  <2>1. PICK i, j \in DOMAIN all : r = all[i] /\ s = all[j]
    BY DEF ByGroup, CatalogInv, Indexed, Elements
  <2>2. i = j
    BY <2>1 DEF CatalogInv, Indexed, Modbus
  <2> QED
    BY <2>1, <2>2
<1> QED
  BY <1>2, <1>3 DEF Sparing

\* A merge joins the last window and what comes next; the windows before it do
\* not see it.
LEMMA SparingMerge ==
    ASSUME ReadInv, Sparing, NEW e \in rest, Lowest(e), Merge(e), rest' = rest \ {e},
           UNCHANGED <<regs, next, failed, out>>
    PROVE  Sparing'
<1> DEFINE n == Len(windows)
           w == windows'[n]
<1>1. /\ windows # <<>> /\ DOMAIN windows' = DOMAIN windows
      /\ \A i \in DOMAIN windows : i # n => windows'[i] = windows[i]
      /\ w.start = Last.start
      /\ w.count = Words(e)
      /\ w.members = Last.members \cup {e}
  BY MergeShape
<1>2. /\ n \in Nat /\ n \in DOMAIN windows /\ DOMAIN windows = 1..n
      /\ Last = windows[n] /\ Last.start \in Nat /\ Last.count \in Nat
  BY <1>1, LastFacts DEF ReadInv
<1> HIDE DEF w, n
<1>3. /\ curEnd \in Nat /\ curEnd = Last.start + Last.count
      /\ e \in regs /\ rest' = rest \ {e} /\ regs' = regs
  BY <1>1 DEF ReadInv, ReadTypes, Covered
<1>4. /\ Words(e) \in Nat /\ e.key.addr \in Nat
      /\ curEnd <= Last.start + Words(e)
      /\ e.key.addr - curEnd <= GapThreshold
  BY <1>1, WordsFacts DEF Merge, Merges
<1>5. \A r \in rest : e.key.addr <= r.key.addr /\ r \in regs /\ r.key.addr \in Nat
  BY DEF Lowest, ReadInv, ReadTypes, Readable
<1>6. \A r, s \in regs' : r.key.addr = s.key.addr => r = s
  BY <1>3 DEF Sparing
<1>7. \A i \in DOMAIN windows' : \A m \in windows'[i].members, r \in rest' :
        m.key.addr < r.key.addr
  <2> SUFFICES ASSUME NEW i \in DOMAIN windows, NEW m \in windows'[i].members,
                      NEW r \in rest, r # e
               PROVE  m.key.addr < r.key.addr
    BY <1>1, <1>3
  <2>1. CASE m = e
    <3>1. e.key.addr # r.key.addr
      BY <1>3, <1>5 DEF Sparing
    <3> QED
      BY <1>4, <1>5, <2>1, <3>1
  <2>2. CASE m # e
    <3>1. m \in windows[i].members
      BY <1>1, <1>2, <2>2 DEF w
    <3> QED
      BY <3>1 DEF Sparing
  <2> QED
    BY <2>1, <2>2
<1>8. \A i, j \in DOMAIN windows' : i < j =>
        /\ \A m \in windows'[i].members : m.key.addr < windows'[j].start
        /\ windows'[i].start + windows'[i].count < windows'[j].start + windows'[j].count
  <2> SUFFICES ASSUME NEW i \in DOMAIN windows, NEW j \in DOMAIN windows, i < j
               PROVE  /\ \A m \in windows[i].members : m.key.addr < windows'[j].start
                      /\ windows[i].start + windows[i].count
                            < windows'[j].start + windows'[j].count
    <3>1. \A i, j \in DOMAIN windows : i < j => i # n
      BY <1>2
    <3> QED
      BY <1>1, <3>1
  <2>1. /\ \A m \in windows[i].members : m.key.addr < windows[j].start
        /\ windows[i].start + windows[i].count < windows[j].start + windows[j].count
    BY DEF Sparing
  <2>2. CASE j # n
    BY <1>1, <2>1, <2>2
  <2>3. CASE j = n
    <3>1. windows[i].start \in Nat /\ windows[i].count \in Nat
      <4>1. windows[i] \in Window
        BY DEF ReadInv, ReadTypes
      <4> QED
        BY <4>1 DEF Window
    <3>2. /\ windows'[j].start = windows[j].start
          /\ windows'[j].start + windows'[j].count = Last.start + Words(e)
      BY <1>1, <1>2, <2>3 DEF w
    <3>3. windows[i].start + windows[i].count < curEnd
      BY <1>2, <1>3, <2>1, <2>3
    <3>4. windows[i].start + windows[i].count < Last.start + Words(e)
      BY <1>2, <1>3, <1>4, <3>1, <3>3, SMTT(30)
    <3> QED
      BY <2>1, <3>2, <3>4
  <2> QED
    BY <2>2, <2>3
<1>9. \A i \in DOMAIN windows' : \A m \in windows'[i].members :
        m.key.addr # windows'[i].start =>
            \E s \in windows'[i].members :
                s.key.addr < m.key.addr /\ m.key.addr - End(s) <= GapThreshold
  <2> SUFFICES ASSUME NEW i \in DOMAIN windows, NEW m \in windows'[i].members,
                      m.key.addr # windows'[i].start
               PROVE  \E s \in windows'[i].members :
                        s.key.addr < m.key.addr /\ m.key.addr - End(s) <= GapThreshold
    BY <1>1
  <2>1. windows'[i].start = windows[i].start /\ windows[i].members \subseteq windows'[i].members
    BY <1>1, <1>2 DEF w
  <2>2. CASE m \in windows[i].members
    BY <2>1, <2>2 DEF Sparing
  <2>3. CASE m \notin windows[i].members
    <3>1. m = e /\ i = n
      BY <1>1, <1>2, <2>3 DEF w
    <3>2. PICK s \in Last.members : End(s) = Last.start + Last.count
      BY <1>2 DEF ReadInv, Covered, LegalRead
    <3>3. s.key.addr < e.key.addr
      BY <1>2 DEF Sparing
    <3> QED
      BY <1>2, <1>3, <1>4, <2>1, <3>1, <3>2, <3>3
  <2> QED
    BY <2>2, <2>3
<1>10. \A i, j \in DOMAIN windows' : j = i + 1 =>
        \E r \in windows'[j].members :
            r.key.addr = windows'[j].start /\ ~Joins(windows'[i], r)
  <2> SUFFICES ASSUME NEW i \in DOMAIN windows, NEW j \in DOMAIN windows, j = i + 1
               PROVE  \E r \in windows'[j].members :
                        r.key.addr = windows'[j].start /\ ~Joins(windows'[i], r)
    BY <1>1
  <2>1. PICK r \in windows[j].members : r.key.addr = windows[j].start /\ ~Joins(windows[i], r)
    BY DEF Sparing
  <2>2. windows'[i] = windows[i]
    BY <1>1, <1>2
  <2>3. windows'[j].start = windows[j].start /\ windows[j].members \subseteq windows'[j].members
    BY <1>1, <1>2 DEF w
  <2> QED
    BY <2>1, <2>2, <2>3
<1> QED
  BY <1>6, <1>7, <1>8, <1>9, <1>10 DEF Sparing

\* A window is opened only for a register that the last one cannot take, and
\* which therefore reaches beyond it.
LEMMA SparingOpen ==
    ASSUME ReadInv, Sparing, NEW e \in rest, Lowest(e), Open(e), rest' = rest \ {e},
           UNCHANGED <<regs, next, failed, out>>
    PROVE  Sparing'
<1> DEFINE n == Len(windows) + 1
           w == [start |-> e.key.addr, count |-> e.length, members |-> {e}]
<1>1. /\ windows \in Seq(Window) /\ e \in regs /\ Readable(e) /\ regs \subseteq AnyEntry
      /\ MaxReadWords \in Nat
  BY ConstAssumption DEF ReadInv, ReadTypes
<1>2. /\ e.key.addr \in Nat /\ e.length \in Nat /\ End(e) = e.key.addr + e.length
  BY <1>1 DEF Readable, End
<1>3. windows' = Append(windows, w) /\ rest' = rest \ {e} /\ regs' = regs
  BY DEF Open
<1>4. w \in Window
  BY <1>1, <1>2 DEF Window
<1>5. w.start = e.key.addr /\ w.count = e.length /\ w.members = {e}
  OBVIOUS
<1> HIDE DEF w
<1>6. /\ DOMAIN windows' = DOMAIN windows \cup {n}
      /\ \A i \in DOMAIN windows : windows'[i] = windows[i] /\ i # n /\ i < n /\ i \in Nat
      /\ windows'[n] = w /\ n \in Nat
  BY <1>1, <1>3, <1>4
<1>7. windows # <<>> =>
        /\ n - 1 \in DOMAIN windows /\ Last = windows[n - 1]
        /\ \A i \in DOMAIN windows : i = n - 1 \/ i < n - 1
        /\ Last.start \in Nat /\ Last.count \in Nat
        /\ curEnd = Last.start + Last.count
  BY LastFacts DEF ReadInv, Covered
<1>8. windows = <<>> => DOMAIN windows = {}
  OBVIOUS
<1> HIDE DEF n
<1>9. windows # <<>> => ~Joins(Last, e) /\ Last.start + Last.count < End(e)
  <2> SUFFICES ASSUME windows # <<>>
               PROVE  ~Joins(Last, e) /\ Last.start + Last.count < End(e)
    OBVIOUS
  <2>1. ~Joins(Last, e)
    BY <1>7 DEF Open, Merges, Joins, Words
  <2>2. LegalRead(Last)
    BY <1>7 DEF ReadInv, Covered
  <2>3. Last.count <= MaxReadWords
    BY <1>1, <1>7, <2>2 DEF LegalRead
  <2>4. ASSUME End(e) <= Last.start + Last.count
        PROVE  Joins(Last, e)
    <3>1. Larger(Last.start + Last.count, End(e)) = Last.start + Last.count
      BY <1>2, <1>7, <2>4 DEF Larger
    <3>2. e.key.addr - (Last.start + Last.count) <= GapThreshold
      BY <1>2, <1>7, <2>4, GapAssumption
    <3> QED
      BY <1>7, <2>3, <3>1, <3>2 DEF Joins
  <2> QED
    BY <1>2, <1>7, <2>1, <2>4
<1>10. \A r \in rest : e.key.addr <= r.key.addr /\ r \in regs /\ r.key.addr \in Nat
  BY DEF Lowest, ReadInv, ReadTypes, Readable
<1>11. \A r, s \in regs' : r.key.addr = s.key.addr => r = s
  BY <1>3 DEF Sparing
<1>12. \A i \in DOMAIN windows' : \A m \in windows'[i].members, r \in rest' :
        m.key.addr < r.key.addr
  <2> SUFFICES ASSUME NEW i \in DOMAIN windows', NEW m \in windows'[i].members,
                      NEW r \in rest, r # e
               PROVE  m.key.addr < r.key.addr
    BY <1>3
  <2>1. CASE i = n
    <3>1. e.key.addr # r.key.addr /\ m = e
      BY <1>1, <1>5, <1>6, <1>10, <2>1 DEF Sparing
    <3> QED
      BY <1>2, <1>10, <3>1
  <2>2. CASE i # n
    BY <1>6, <2>2 DEF Sparing
  <2> QED
    BY <2>1, <2>2
<1>13. \A i, j \in DOMAIN windows' : i < j =>
        /\ \A m \in windows'[i].members : m.key.addr < windows'[j].start
        /\ windows'[i].start + windows'[i].count < windows'[j].start + windows'[j].count
  <2> SUFFICES ASSUME NEW i \in DOMAIN windows', NEW j \in DOMAIN windows', i < j
               PROVE  /\ \A m \in windows'[i].members : m.key.addr < windows'[j].start
                      /\ windows'[i].start + windows'[i].count
                            < windows'[j].start + windows'[j].count
    OBVIOUS
  <2>1. i \in DOMAIN windows
    BY <1>6
  <2>2. CASE j # n
    BY <1>6, <2>1, <2>2 DEF Sparing
  <2>3. CASE j = n
    <3>1. \A m \in windows[i].members : m.key.addr < e.key.addr
      BY <2>1 DEF Sparing
    <3>2. windows # <<>> /\ windows[i] \in Window
      BY <1>1, <1>8, <2>1
    <3>3. windows[i].start \in Nat /\ windows[i].count \in Nat
      BY <3>2 DEF Window
    <3>4. windows[i].start + windows[i].count <= Last.start + Last.count
      <4>1. CASE i = n - 1
        BY <1>7, <3>2, <3>3, <4>1
      <4>2. CASE i < n - 1
        BY <1>7, <2>1, <3>2, <3>3, <4>2 DEF Sparing
      <4> QED
        BY <1>7, <2>1, <3>2, <4>1, <4>2
    <3>5. windows[i].start + windows[i].count < e.key.addr + e.length
      BY <1>2, <1>7, <1>9, <3>2, <3>3, <3>4
    <3> QED
      BY <1>5, <1>6, <2>1, <2>3, <3>1, <3>5
  <2> QED
    BY <2>2, <2>3
<1>14. \A i \in DOMAIN windows' : \A m \in windows'[i].members :
        m.key.addr # windows'[i].start =>
            \E s \in windows'[i].members :
                s.key.addr < m.key.addr /\ m.key.addr - End(s) <= GapThreshold
  BY <1>5, <1>6 DEF Sparing
<1>15. \A i, j \in DOMAIN windows' : j = i + 1 =>
        \E r \in windows'[j].members :
            r.key.addr = windows'[j].start /\ ~Joins(windows'[i], r)
  <2> SUFFICES ASSUME NEW i \in DOMAIN windows', NEW j \in DOMAIN windows', j = i + 1
               PROVE  \E r \in windows'[j].members :
                        r.key.addr = windows'[j].start /\ ~Joins(windows'[i], r)
    OBVIOUS
  <2>1. i \in DOMAIN windows
    BY <1>6
  <2>2. CASE j # n
    BY <1>6, <2>1, <2>2 DEF Sparing
  <2>3. CASE j = n
    <3>1. i = n - 1 /\ windows # <<>>
      BY <1>6, <1>8, <2>1, <2>3
    <3> QED
      BY <1>5, <1>6, <1>7, <1>9, <2>1, <2>3, <3>1
  <2> QED
    BY <2>2, <2>3
<1> QED
  BY <1>11, <1>12, <1>13, <1>14, <1>15 DEF Sparing

\* What the reader does keeps Clusterize's division the smallest one.
LEMMA SparingStep ==
    ASSUME CatalogInv, ReadInv, Sparing, [ReadNext]_readVars
    PROVE  Sparing'
<1>1. CASE \E g \in Elements(groups) : Begin(g)
  BY <1>1, SparingBegin
<1>2. CASE Place
  BY <1>2, SparingMerge, SparingOpen DEF Place
<1>3. CASE ReadWindow
  <2>1. UNCHANGED <<regs, rest, windows>>
    BY <1>3 DEF ReadWindow
  <2> QED
    BY <2>1 DEF Sparing
<1>4. CASE UNCHANGED readVars
  <2>1. UNCHANGED <<regs, rest, windows>>
    BY <1>4 DEF readVars
  <2> QED
    BY <2>1 DEF Sparing
<1> QED
  BY <1>1, <1>2, <1>3, <1>4 DEF ReadNext

\* The greatest element of a set is found like its least one.
LEMMA LeastFacts ==
    ASSUME NEW S \in SUBSET Nat, S # {}
    PROVE  /\ Least(S) \in S
           /\ \A m \in S : Least(S) <= m
<1> DEFINE lt == {ss \in Nat \X Nat : ss[1] < ss[2]}
<1>1. IsWellFoundedOn(lt, Nat)
  <2>1. OpToRel(<, Nat) = lt
    BY Zenon DEF OpToRel
  <2> QED
    BY <2>1, NatLessThanWellFounded, Zenon
<1> HIDE DEF lt
<1>2. PICK x \in S : \A y \in S : ~(<<y, x>> \in lt)
  BY <1>1, WFMin, Zenon
<1>3. ASSUME NEW y \in S
      PROVE  x <= y
  <2>1. y \in Nat /\ x \in Nat
    OBVIOUS
  <2>2. ~(y < x)
    BY <1>2, <2>1 DEF lt
  <2> QED
    BY <2>1, <2>2
<1> QED
  BY <1>3 DEF Least

\* Only the least element is the least.
LEMMA LeastIs ==
    ASSUME NEW S \in SUBSET Nat, NEW x \in S, \A y \in S : x <= y
    PROVE  Least(S) = x
<1>1. Least(S) \in S /\ Least(S) <= x
  <2>1. S # {}
    OBVIOUS
  <2> QED
    BY <2>1, LeastFacts
<1>2. Least(S) \in Nat /\ x \in Nat /\ x <= Least(S)
  BY <1>1
<1> QED
  BY <1>1, <1>2

\* A set of registers reaches as far as its longest-reaching one.
LEMMA ReachFacts ==
    ASSUME NEW S, S # {}, \A r \in S : Readable(r)
    PROVE  /\ \E r \in S : Reach(S) = End(r)
           /\ \A r \in S : End(r) <= Reach(S)
<1> DEFINE slack == {AddressSpace - End(r) : r \in S}
<1>1. AddressSpace \in Nat /\ MaxReadWords \in Nat
  BY ConstAssumption
<1>2. \A r \in S : End(r) \in Nat /\ End(r) <= AddressSpace
  BY <1>1 DEF Readable, End
<1>3. slack \in SUBSET Nat /\ slack # {}
  BY <1>1, <1>2
<1>4. Least(slack) \in slack /\ \A n \in slack : Least(slack) <= n
  BY <1>3, LeastFacts
<1>5. PICK m \in S : Least(slack) = AddressSpace - End(m)
  BY <1>4
<1>6. \A r \in S : AddressSpace - End(m) <= AddressSpace - End(r)
  BY <1>4, <1>5
<1>7. \A r \in S : End(r) <= End(m)
  BY <1>1, <1>2, <1>6
<1> QED
  BY <1>7 DEF Reach

Starts == {windows[i].start : i \in DOMAIN windows}

Addresses == {r.key.addr : r \in regs}

\* The arithmetic the two halves of the argument share.
LEMMA Sizes ==
    ASSUME ReadInv
    PROVE  /\ DOMAIN windows = 1..Len(windows) /\ Len(windows) \in Nat
           /\ AddressSpace \in Nat /\ MaxReadWords \in Nat /\ GapThreshold \in Nat
           /\ \A i \in DOMAIN windows :
                /\ windows[i].start \in Nat /\ windows[i].count \in Nat
                /\ windows[i].members \subseteq regs
                /\ LegalRead(windows[i])
           /\ \A r \in regs :
                /\ Readable(r) /\ r.key.addr \in Nat /\ r.length \in Nat \ {0}
                /\ r.key.addr < AddressSpace
                /\ End(r) \in Nat /\ End(r) <= AddressSpace /\ r.key.addr < End(r)
<1>1. /\ windows \in Seq(Window)
      /\ \A r \in regs : Readable(r)
  BY DEF ReadInv, ReadTypes
<1>2. AddressSpace \in Nat /\ MaxReadWords \in Nat /\ GapThreshold \in Nat
  BY ConstAssumption, GapAssumption
<1>3. ASSUME NEW i \in DOMAIN windows
      PROVE  /\ windows[i].start \in Nat /\ windows[i].count \in Nat
             /\ windows[i].members \subseteq regs
             /\ LegalRead(windows[i])
  <2>1. windows[i] \in Window
    BY <1>1
  <2> QED
    BY <2>1 DEF Window, ReadInv, Covered
<1>4. ASSUME NEW r \in regs
      PROVE  /\ r.key.addr \in Nat /\ r.length \in Nat \ {0}
             /\ r.key.addr < AddressSpace
             /\ End(r) \in Nat /\ End(r) <= AddressSpace /\ r.key.addr < End(r)
  BY <1>1, <1>2 DEF Readable, End
<1> QED
  BY <1>1, <1>2, <1>3, <1>4

\* Each register lies in a window, and its address tells in which.
LEMMA Located ==
    ASSUME ReadInv, Sparing, rest = {}, NEW r \in regs
    PROVE  \E i \in DOMAIN windows :
              /\ r \in windows[i].members
              /\ windows[i].start <= r.key.addr
              /\ End(r) <= windows[i].start + windows[i].count
              /\ \A j \in DOMAIN windows : i < j => r.key.addr < windows[j].start
<1>1. PICK i \in DOMAIN windows : r \in windows[i].members
  BY DEF ReadInv, Covered
<1>2. LegalRead(windows[i])
  BY Sizes
<1> QED
  BY <1>1, <1>2 DEF LegalRead, Sparing

\* Clusterize's division is one.
LEMMA StartsDivide ==
    ASSUME ReadInv, Sparing, rest = {}, regs # {}
    PROVE  Starts \subseteq Addresses /\ Divides(Starts)
<1>1. /\ DOMAIN windows = 1..Len(windows) /\ Len(windows) \in Nat
      /\ \A i \in DOMAIN windows :
            /\ windows[i].start \in Nat /\ windows[i].count \in Nat
            /\ windows[i].members \subseteq regs /\ LegalRead(windows[i])
  BY Sizes
<1>2. AddressSpace \in Nat /\ MaxReadWords \in Nat /\ GapThreshold \in Nat
  BY Sizes
<1>3. \A r \in regs :
        /\ Readable(r) /\ r.key.addr \in Nat /\ r.key.addr < AddressSpace
        /\ End(r) \in Nat
  BY Sizes
<1>4. \A i \in DOMAIN windows : \E m \in windows[i].members : m.key.addr = windows[i].start
  BY <1>1 DEF LegalRead
<1>5. Starts \subseteq Addresses
  BY <1>1, <1>4 DEF Starts, Addresses
<1>6. Addresses \in SUBSET Nat /\ Addresses # {}
  BY <1>3 DEF Addresses
<1>7. Least(Addresses) \in Starts
  <2>1. Least(Addresses) \in Addresses /\ \A a \in Addresses : Least(Addresses) <= a
    BY <1>6, LeastFacts
  <2>2. PICK r \in regs : r.key.addr = Least(Addresses)
    BY <2>1 DEF Addresses
  <2>3. PICK i \in DOMAIN windows : windows[i].start <= r.key.addr
    BY Located
  <2>4. windows[i].start \in Starts /\ windows[i].start \in Addresses
    BY <1>5 DEF Starts
  <2>5. Least(Addresses) <= windows[i].start /\ Least(Addresses) \in Nat /\ windows[i].start \in Nat
    BY <1>1, <1>6, <2>1, <2>4
  <2> QED
    BY <2>2, <2>3, <2>4, <2>5
<1>8. ASSUME NEW i \in DOMAIN windows
      PROVE  Coverable(windows[i].members)
  <2> DEFINE S == windows[i].members
  <2>1. S # {} /\ S \subseteq regs /\ \A r \in S : Readable(r)
    BY <1>1, <1>3, <1>4
  <2>2. /\ \A m \in S : windows[i].start <= m.key.addr
        /\ \A m \in S : End(m) <= windows[i].start + windows[i].count
        /\ windows[i].count <= MaxReadWords
    BY <1>1, <1>2 DEF LegalRead
  <2>3. Least({r.key.addr : r \in S}) = windows[i].start
    <3> DEFINE A == {r.key.addr : r \in S}
    <3>1. A \in SUBSET Nat
      BY <1>3, <2>1
    <3>2. windows[i].start \in A
      BY <1>4
    <3>3. \A a \in A : windows[i].start <= a
      BY <2>2
    <3> HIDE DEF A
    <3>4. Least(A) = windows[i].start
      BY <3>1, <3>2, <3>3, LeastIs
    <3> QED
      BY <3>4 DEF A
  <2>4. PICK r \in S : Reach(S) = End(r)
    BY <2>1, ReachFacts
  <2>5. Reach(S) - windows[i].start <= MaxReadWords
    <3>1. End(r) \in Nat /\ End(r) <= windows[i].start + windows[i].count
      BY <1>3, <2>1, <2>2
    <3> QED
      BY <1>1, <1>2, <2>2, <2>4, <3>1
  <2>6. ASSUME NEW m \in S, {s \in S : s.key.addr < m.key.addr} # {}
        PROVE  m.key.addr - Reach({s \in S : s.key.addr < m.key.addr}) <= GapThreshold
    <3> DEFINE B == {s \in S : s.key.addr < m.key.addr}
    <3>1. B # {} /\ \A s \in B : Readable(s) /\ End(s) \in Nat
      BY <1>3, <2>1, <2>6
    <3> HIDE DEF B
    <3>2. /\ \A s \in B : End(s) <= Reach(B)
          /\ \E s \in B : Reach(B) = End(s)
      BY <3>1, ReachFacts
    <3>3. m.key.addr # windows[i].start
      <4>1. PICK s \in S : s.key.addr < m.key.addr
        BY <2>6
      <4>2. windows[i].start <= s.key.addr /\ s.key.addr \in Nat /\ m.key.addr \in Nat
        BY <1>3, <2>1, <2>2
      <4> QED
        BY <1>1, <4>1, <4>2
    <3>4. PICK s \in S : s.key.addr < m.key.addr /\ m.key.addr - End(s) <= GapThreshold
      BY <3>3 DEF Sparing
    <3>5. s \in B
      BY <3>4 DEF B
    <3>6. End(s) <= Reach(B) /\ End(s) \in Nat /\ Reach(B) \in Nat /\ m.key.addr \in Nat
      BY <1>3, <2>1, <3>1, <3>2, <3>5
    <3>7. m.key.addr - Reach(B) <= GapThreshold
      BY <1>2, <3>4, <3>6
    <3> QED
      BY <3>7 DEF B
  <2> QED
    BY <2>3, <2>5, <2>6 DEF Coverable
<1>9. ASSUME NEW a \in Starts
      PROVE  LET after == {b \in Starts : b > a} IN
             Coverable(Between(a, IF after = {} THEN AddressSpace ELSE Least(after)))
  <2> DEFINE after == {b \in Starts : b > a}
             z == IF after = {} THEN AddressSpace ELSE Least(after)
  <2>1. PICK i \in DOMAIN windows : a = windows[i].start
    BY DEF Starts
  <2>2. Starts \in SUBSET Nat /\ after \in SUBSET Nat
    BY <1>1 DEF Starts
  <2>3. ASSUME NEW r \in regs, a <= r.key.addr, r.key.addr < z
        PROVE  r \in windows[i].members
    <3>1. PICK j \in DOMAIN windows :
            /\ r \in windows[j].members
            /\ windows[j].start <= r.key.addr
            /\ \A k \in DOMAIN windows : j < k => r.key.addr < windows[k].start
      BY Located
    <3>2. ~(j < i)
      BY <1>1, <1>3, <2>1, <2>3, <3>1
    <3>3. ~(i < j)
      <4> SUFFICES ASSUME i < j
                   PROVE  FALSE
        OBVIOUS
      <4>1. \A m \in windows[i].members : m.key.addr < windows[j].start
        BY DEF Sparing
      <4>2. windows[i].start < windows[j].start
        BY <1>4, <4>1
      <4>3. windows[j].start \in after
        BY <2>1, <4>2 DEF Starts
      <4>4. z = Least(after) /\ Least(after) <= windows[j].start /\ Least(after) \in Nat
        <5>1. after # {}
          BY <4>3
        <5> HIDE DEF after
        <5>2. Least(after) \in after /\ \A b \in after : Least(after) <= b
          BY <2>2, <5>1, LeastFacts
        <5> QED
          BY <2>2, <4>3, <5>1, <5>2
      <4> HIDE DEF z
      <4> QED
        BY <1>1, <1>3, <2>3, <3>1, <4>4
    <3> QED
      BY <1>1, <3>1, <3>2, <3>3
  <2>4. ASSUME NEW r \in windows[i].members
        PROVE  r \in regs /\ a <= r.key.addr /\ r.key.addr < z
    <3>1. r \in regs /\ a <= r.key.addr
      BY <1>1, <2>1 DEF LegalRead
    <3>2. CASE after = {}
      BY <1>3, <3>1, <3>2
    <3>3. CASE after # {}
      <4>1. Least(after) \in after
        <5> HIDE DEF after
        <5> QED
          BY <2>2, <3>3, LeastFacts
      <4>2. PICK j \in DOMAIN windows : Least(after) = windows[j].start /\ windows[j].start > a
        BY <4>1 DEF Starts
      <4>3. ~(j < i)
        <5> SUFFICES ASSUME j < i
                     PROVE  FALSE
          OBVIOUS
        <5>1. \A m \in windows[j].members : m.key.addr < windows[i].start
          BY DEF Sparing
        <5>2. windows[j].start < windows[i].start
          BY <1>4, <5>1
        <5> QED
          BY <1>1, <2>1, <4>2, <5>2
      <4>4. i # j
        BY <1>1, <2>1, <4>2
      <4>5. i < j
        BY <1>1, <4>3, <4>4
      <4> QED
        BY <3>1, <3>3, <4>2, <4>5 DEF Sparing
    <3> QED
      BY <3>2, <3>3
  <2>5. Between(a, z) = windows[i].members
    <3> HIDE DEF z
    <3> QED
      BY <2>3, <2>4 DEF Between
  <2> QED
    BY <1>8, <2>5
<1> QED
  BY <1>5, <1>7, <1>9 DEF Divides, Addresses

\* A bounded set of naturals has a greatest element.
LEMMA Greatest ==
    ASSUME NEW S \in SUBSET Nat, S # {}, NEW n \in Nat, \A m \in S : m <= n
    PROVE  \E x \in S : \A m \in S : m <= x
<1> DEFINE D == {n - m : m \in S}
<1>1. D \in SUBSET Nat /\ D # {}
  <2>1. \A m \in S : n - m \in Nat
    OBVIOUS
  <2> QED
    BY <2>1
<1>2. Least(D) \in D /\ \A d \in D : Least(D) <= d
  BY <1>1, LeastFacts
<1>3. PICK x \in S : Least(D) = n - x
  BY <1>2
<1>4. ASSUME NEW m \in S
      PROVE  m <= x
  <2>1. n - x <= n - m
    BY <1>2, <1>3
  <2> QED
    BY <2>1
<1> QED
  BY <1>4

\* The indexes of a list are as many as it is long.
LEMMA CardinalityUpTo ==
    ASSUME NEW n \in Nat
    PROVE  IsFiniteSet(1..n) /\ Cardinality(1..n) = n
  BY FS_Interval

\* No read covers a window and the register the next one begins with.
LEMMA NoReadCoversTwo ==
    ASSUME ReadInv, Sparing, rest = {}, NEW i \in DOMAIN windows, i + 1 \in DOMAIN windows,
           NEW S \in SUBSET regs, windows[i].members \subseteq S,
           \A r \in regs : r.key.addr = windows[i + 1].start => r \in S,
           Coverable(S)
    PROVE  FALSE
<1>1. /\ windows[i].start \in Nat /\ windows[i].count \in Nat
      /\ windows[i].members \subseteq regs /\ LegalRead(windows[i])
      /\ windows[i + 1].members \subseteq regs
      /\ DOMAIN windows = 1..Len(windows) /\ Len(windows) \in Nat
  BY Sizes
<1>2. MaxReadWords \in Nat /\ GapThreshold \in Nat
  BY Sizes
<1>3. \A r \in regs : Readable(r) /\ r.key.addr \in Nat /\ End(r) \in Nat
  BY Sizes
<1>4. PICK e \in windows[i + 1].members :
        e.key.addr = windows[i + 1].start /\ ~Joins(windows[i], e)
  BY DEF Sparing
<1>5. e \in S /\ e \in regs
  BY <1>1, <1>4
<1>6. PICK m \in windows[i].members : m.key.addr = windows[i].start
  BY <1>1 DEF LegalRead
<1>7. PICK l \in windows[i].members : End(l) = windows[i].start + windows[i].count
  BY <1>1 DEF LegalRead
<1>8. m \in S /\ l \in S /\ m \in regs /\ l \in regs
  BY <1>1
<1>9. \A r \in S : Readable(r)
  BY <1>3
<1>10. Reach(S) \in Nat /\ End(e) <= Reach(S) /\ End(l) <= Reach(S)
  BY <1>3, <1>5, <1>8, <1>9, ReachFacts
<1>11. Reach(S) - windows[i].start <= MaxReadWords
  <2> DEFINE A == {r.key.addr : r \in S}
  <2>1. A \in SUBSET Nat /\ windows[i].start \in A
    BY <1>3, <1>6, <1>8
  <2>2. Reach(S) - Least(A) <= MaxReadWords
    BY DEF Coverable
  <2> HIDE DEF A
  <2>3. Least(A) \in Nat /\ Least(A) <= windows[i].start
    BY <2>1, LeastFacts
  <2> QED
    BY <1>1, <1>2, <1>10, <2>2, <2>3
<1>12. Larger(windows[i].start + windows[i].count, End(e)) - windows[i].start <= MaxReadWords
  BY <1>1, <1>2, <1>3, <1>5, <1>7, <1>10, <1>11 DEF Larger
<1>13. e.key.addr - (windows[i].start + windows[i].count) <= GapThreshold
  <2> DEFINE B == {s \in S : s.key.addr < e.key.addr}
  <2>1. m \in B
    <3>1. i < i + 1
      BY <1>1
    <3>2. m.key.addr < windows[i + 1].start
      BY <1>6, <3>1 DEF Sparing
    <3> QED
      BY <1>4, <1>8, <3>2
  <2>2. e.key.addr - Reach(B) <= GapThreshold
    BY <1>5, <2>1 DEF Coverable
  <2>3. B # {} /\ B \subseteq regs /\ \A r \in B : Readable(r)
    BY <1>3, <2>1
  <2>4. ASSUME NEW r \in B
        PROVE  End(r) <= windows[i].start + windows[i].count
    <3>1. r \in regs /\ r.key.addr < windows[i + 1].start
      BY <1>4
    <3>2. PICK k \in DOMAIN windows :
            /\ windows[k].start <= r.key.addr
            /\ End(r) <= windows[k].start + windows[k].count
      BY <3>1, Located
    <3>3. windows[k].start \in Nat /\ windows[k].count \in Nat /\ windows[i + 1].start \in Nat
      BY Sizes
    <3>4. k # i + 1
      BY <1>3, <3>1, <3>2, <3>3
    <3>5. ~(i + 1 < k)
      <4> SUFFICES ASSUME i + 1 < k
                   PROVE  FALSE
        OBVIOUS
      <4>1. e.key.addr < windows[k].start
        BY DEF Sparing
      <4> QED
        BY <1>3, <1>4, <3>1, <3>2, <3>3, <4>1
    <3>6. CASE k = i
      BY <3>2, <3>6
    <3>7. CASE k < i
      <4>1. windows[k].start + windows[k].count < windows[i].start + windows[i].count
        BY <3>7 DEF Sparing
      <4> QED
        BY <1>1, <1>3, <3>1, <3>2, <3>3, <4>1, SMTT(30)
    <3> QED
      BY <1>1, <3>4, <3>5, <3>6, <3>7
  <2> HIDE DEF B
  <2>5. Reach(B) <= windows[i].start + windows[i].count /\ Reach(B) \in Nat
    BY <1>3, <2>3, <2>4, ReachFacts
  <2> QED
    BY <1>1, <1>2, <1>3, <1>5, <2>2, <2>5
<1> QED
  BY <1>4, <1>12, <1>13 DEF Joins

\* Every division needs a window of its own for each of Clusterize's.
LEMMA NoneIsSmaller ==
    ASSUME ReadInv, Sparing, rest = {}, regs # {},
           NEW t \in SUBSET Addresses, Divides(t)
    PROVE  IsFiniteSet(t) /\ Len(windows) <= Cardinality(t)
<1>1. /\ DOMAIN windows = 1..Len(windows) /\ Len(windows) \in Nat
      /\ \A i \in DOMAIN windows :
            windows[i].start \in Nat /\ windows[i].members \subseteq regs
            /\ LegalRead(windows[i])
  BY Sizes
<1>2. AddressSpace \in Nat
  BY Sizes
<1>3. \A r \in regs : r.key.addr \in Nat /\ r.key.addr < AddressSpace
  BY Sizes
<1>4. Addresses \in SUBSET Nat /\ Addresses # {}
  BY <1>3 DEF Addresses
<1>5. t \in SUBSET Nat /\ \A a \in t : a <= AddressSpace
  BY <1>2, <1>3 DEF Addresses
<1>6. IsFiniteSet(t)
  BY <1>2, <1>5, FS_BoundedSetOfNaturals
<1> DEFINE Begins(i, a) ==
              /\ a <= windows[i].start
              /\ \A b \in t : b <= windows[i].start => b <= a
<1>7. ASSUME NEW i \in DOMAIN windows
      PROVE  \E a \in t : Begins(i, a)
  <2> DEFINE B == {b \in t : b <= windows[i].start}
  <2>1. Least(Addresses) \in t /\ Least(Addresses) <= windows[i].start
    <3>1. windows[i].start \in Addresses
      BY <1>1 DEF LegalRead, Addresses
    <3> QED
      BY <1>4, <3>1, LeastFacts DEF Divides, Addresses
  <2>2. B \in SUBSET Nat /\ B # {} /\ \A b \in B : b <= windows[i].start
    BY <1>5, <2>1
  <2> HIDE DEF B
  <2>3. PICK a \in B : \A b \in B : b <= a
    BY <1>1, <2>2, Greatest
  <2> QED
    BY <2>3 DEF B
<1>8. ASSUME NEW i \in DOMAIN windows, NEW j \in DOMAIN windows, i < j,
             NEW a \in t, Begins(i, a), Begins(j, a)
      PROVE  FALSE
  <2> DEFINE after == {b \in t : b > a}
             z == IF after = {} THEN AddressSpace ELSE Least(after)
             S == Between(a, z)
  <2>1. Coverable(S)
    BY DEF Divides
  <2>2. i + 1 \in DOMAIN windows /\ (i + 1 = j \/ i + 1 < j)
    BY <1>1, <1>8
  <2>3. /\ windows[i].start \in Nat /\ windows[i + 1].start \in Nat /\ windows[j].start \in Nat
        /\ a \in Nat
    BY <1>1, <1>5, <2>2
  <2>4. \A k, l \in DOMAIN windows : k < l => windows[k].start < windows[l].start
    <3> SUFFICES ASSUME NEW k \in DOMAIN windows, NEW l \in DOMAIN windows, k < l
                 PROVE  windows[k].start < windows[l].start
      OBVIOUS
    <3>1. PICK m \in windows[k].members : m.key.addr = windows[k].start
      BY <1>1 DEF LegalRead
    <3> QED
      BY <3>1 DEF Sparing
  <2>5. windows[i].start < windows[i + 1].start /\ windows[i + 1].start <= windows[j].start
    <3>1. i < i + 1
      BY <1>1
    <3> QED
      BY <2>2, <2>3, <2>4, <3>1
  <2>6. windows[j].start < z /\ z \in Nat
    <3>1. CASE after = {}
      <4>1. PICK m \in regs : m.key.addr = windows[j].start
        BY <1>1 DEF LegalRead
      <4> QED
        BY <1>2, <1>3, <3>1, <4>1
    <3>2. CASE after # {}
      <4>1. after \in SUBSET Nat
        BY <1>5
      <4>2. Least(after) \in after
        <5> HIDE DEF after
        <5> QED
          BY <3>2, <4>1, LeastFacts
      <4>3. Least(after) \in t /\ Least(after) > a /\ Least(after) \in Nat
        BY <4>1, <4>2
      <4>4. ~(Least(after) <= windows[j].start)
        BY <1>8, <2>3, <4>3
      <4> QED
        BY <2>3, <3>2, <4>3, <4>4
    <3> QED
      BY <3>1, <3>2
  <2> HIDE DEF z
  <2>7. windows[i].members \subseteq S
    <3> SUFFICES ASSUME NEW r \in windows[i].members
                 PROVE  a <= r.key.addr /\ r.key.addr < z /\ r \in regs
      BY DEF Between
    <3>1. r \in regs /\ r.key.addr \in Nat /\ windows[i].start <= r.key.addr
      BY <1>1, <1>3 DEF LegalRead
    <3>2. r.key.addr < windows[j].start
      BY <1>8 DEF Sparing
    <3>3. a <= windows[i].start
      BY <1>8
    <3> QED
      BY <2>3, <2>6, <3>1, <3>2, <3>3
  <2>8. \A r \in regs : r.key.addr = windows[i + 1].start => r \in S
    BY <1>8, <2>3, <2>5, <2>6 DEF Between
  <2>9. S \in SUBSET regs
    BY DEF Between
  <2> HIDE DEF S
  <2> QED
    BY <2>1, <2>2, <2>7, <2>8, <2>9, NoReadCoversTwo
<1> DEFINE f == [i \in 1..Len(windows) |-> CHOOSE a \in t : Begins(i, a)]
<1>9. \A i \in 1..Len(windows) : f[i] \in t /\ Begins(i, f[i])
  <2> SUFFICES ASSUME NEW i \in 1..Len(windows)
               PROVE  f[i] \in t /\ Begins(i, f[i])
    OBVIOUS
  <2>1. \E a \in t : Begins(i, a)
    BY <1>1, <1>7
  <2> HIDE DEF Begins
  <2> QED
    BY <2>1
<1>10. ASSUME NEW i \in 1..Len(windows), NEW j \in 1..Len(windows), f[i] = f[j]
       PROVE  i = j
  <2> HIDE DEF f, Begins
  <2>1. f[i] \in t /\ Begins(i, f[i]) /\ Begins(j, f[i])
    BY <1>9, <1>10
  <2>2. ~(i < j) /\ ~(j < i)
    BY <1>1, <1>8, <2>1
  <2> QED
    BY <2>2
<1>11. f \in Injection(1..Len(windows), t)
  <2>1. f \in [1..Len(windows) -> t]
    BY <1>9
  <2> HIDE DEF f
  <2>2. \A i, j \in 1..Len(windows) : f[i] = f[j] => i = j
    BY <1>10
  <2> QED
    BY <2>1, <2>2, Fun_IsInj
<1> HIDE DEF f, Begins
<1>12. Cardinality(1..Len(windows)) = Len(windows)
  BY <1>1, CardinalityUpTo
<1>13. Cardinality(1..Len(windows)) <= Cardinality(t)
  BY <1>6, <1>11, FS_Injection
<1> QED
  BY <1>6, <1>12, <1>13

\* Clusterize issues the smallest possible number of requests per cycle.
LEMMA InvFewest == ReadInv /\ Sparing => FewestRequests
<1> SUFFICES ASSUME ReadInv, Sparing, rest = {}, regs # {}
             PROVE  Len(windows) = Least({Cardinality(s) : s \in {t \in SUBSET Addresses : Divides(t)}})
  BY DEF FewestRequests, Addresses
<1>1. /\ DOMAIN windows = 1..Len(windows) /\ Len(windows) \in Nat
      /\ \A i \in DOMAIN windows : windows[i].start \in Nat /\ LegalRead(windows[i])
  BY Sizes
<1>2. Starts \in SUBSET Addresses /\ Divides(Starts)
  BY StartsDivide
<1>3. Cardinality(Starts) = Len(windows)
  <2> DEFINE f == [i \in 1..Len(windows) |-> windows[i].start]
  <2>1. f \in Surjection(1..Len(windows), Starts)
    <3>1. f \in [1..Len(windows) -> Starts] /\ \A a \in Starts : \E i \in 1..Len(windows) : f[i] = a
      BY <1>1 DEF Starts
    <3> HIDE DEF f
    <3> QED
      BY <3>1, Fun_IsSurj
  <2>2. IsFiniteSet(1..Len(windows)) /\ Cardinality(1..Len(windows)) = Len(windows)
    BY <1>1, CardinalityUpTo
  <2> HIDE DEF f
  <2>3. IsFiniteSet(Starts) /\ Cardinality(Starts) <= Len(windows)
    BY <2>1, <2>2, FS_Surjection
  <2>4. Len(windows) <= Cardinality(Starts) /\ Cardinality(Starts) \in Nat
    BY <1>2, <2>3, NoneIsSmaller, FS_CardinalityType
  <2> QED
    BY <1>1, <2>3, <2>4
<1> DEFINE N == {Cardinality(s) : s \in {t \in SUBSET Addresses : Divides(t)}}
<1>4. N \in SUBSET Nat /\ \A n \in N : Len(windows) <= n
  <2> SUFFICES ASSUME NEW t \in SUBSET Addresses, Divides(t)
               PROVE  Cardinality(t) \in Nat /\ Len(windows) <= Cardinality(t)
    OBVIOUS
  <2>1. IsFiniteSet(t) /\ Len(windows) <= Cardinality(t)
    BY NoneIsSmaller
  <2> QED
    BY <2>1, FS_CardinalityType
<1>5. Len(windows) \in N
  BY <1>2, <1>3
<1> HIDE DEF N
<1>6. Least(N) = Len(windows)
  BY <1>4, <1>5, LeastIs
<1> QED
  BY <1>6 DEF N

-----------------------------------------------------------------------------
(* The document *)

\* A text is a level of a topic: four of them in a row.
LEMMA FourLevels ==
    ASSUME NEW a, NEW b, NEW c, NEW d
    PROVE  <<a>> \o (<<b>> \o <<c>> \o <<d>>) = <<a, b, c, d>>
<1> DEFINE S == {a, b, c, d}
<1>1. /\ <<a>> \in Seq(S) /\ <<b>> \in Seq(S) /\ <<c>> \in Seq(S) /\ <<d>> \in Seq(S)
      /\ <<b, c>> \in Seq(S) /\ <<b, c, d>> \in Seq(S) /\ <<a, b, c, d>> \in Seq(S)
  OBVIOUS
<1>2. <<b>> \o <<c>> = <<b, c>>
  <2>1. \A i \in 1..2 : (<<b>> \o <<c>>)[i] = <<b, c>>[i]
    BY <1>1, ConcatProperties
  <2>2. <<b>> \o <<c>> \in Seq(S) /\ Len(<<b>> \o <<c>>) = 2 /\ Len(<<b, c>>) = 2
    BY <1>1, ConcatProperties
  <2> QED
    BY <1>1, <2>1, <2>2, SeqEqual
<1>3. <<b, c>> \o <<d>> = <<b, c, d>>
  <2>1. \A i \in 1..3 : (<<b, c>> \o <<d>>)[i] = <<b, c, d>>[i]
    BY <1>1, ConcatProperties
  <2>2. <<b, c>> \o <<d>> \in Seq(S) /\ Len(<<b, c>> \o <<d>>) = 3 /\ Len(<<b, c, d>>) = 3
    BY <1>1, ConcatProperties
  <2> QED
    BY <1>1, <2>1, <2>2, SeqEqual
<1>4. <<a>> \o <<b, c, d>> = <<a, b, c, d>>
  <2>1. \A i \in 1..4 : (<<a>> \o <<b, c, d>>)[i] = <<a, b, c, d>>[i]
    BY <1>1, ConcatProperties
  <2>2. <<a>> \o <<b, c, d>> \in Seq(S) /\ Len(<<a>> \o <<b, c, d>>) = 4 /\ Len(<<a, b, c, d>>) = 4
    BY <1>1, ConcatProperties
  <2> QED
    BY <1>1, <2>1, <2>2, SeqEqual
<1> QED
  BY <1>2, <1>3, <1>4

\* And however many levels the group and the key have.
LEMMA AllLevels ==
    ASSUME NEW S, NEW a \in S, NEW b \in S, NEW p \in Seq(S), NEW q \in Seq(S)
    PROVE  Len(<<a>> \o (<<b>> \o p \o q)) = 2 + Len(p) + Len(q)
<1>1. <<b>> \o p \in Seq(S) /\ Len(<<b>> \o p) = 1 + Len(p)
  BY ConcatProperties
<1>2. <<b>> \o p \o q \in Seq(S) /\ Len(<<b>> \o p \o q) = 1 + Len(p) + Len(q)
  BY <1>1, ConcatProperties
<1> QED
  BY <1>2, ConcatProperties

\* A sequence over a set is one over a larger set.
LEMMA SubsetSeq ==
    ASSUME NEW S, NEW T, S \subseteq T, NEW q \in Seq(S)
    PROVE  q \in Seq(T)
  OBVIOUS

\* A text without a "/" is one level, and only such a text is.
LEMMA LevelsFacts ==
    ASSUME NEW t, NEW S, STRING \cup {t} \subseteq S
    PROVE  /\ Levels(t) \in Seq(S) /\ Len(Levels(t)) \in Nat \ {0}
           /\ t \notin DOMAIN Split => Levels(t) = <<t>>
           /\ Len(Levels(t)) = 1 => t \notin DOMAIN Split
<1>1. CASE t \in DOMAIN Split
  <2>1. Split[t] \in Seq(STRING) /\ Len(Split[t]) >= 2
    BY <1>1, DocumentAssumption
  <2>2. STRING \subseteq S
    OBVIOUS
  <2>3. Split[t] \in Seq(S)
    BY <2>1, <2>2, SubsetSeq
  <2>4. Levels(t) = Split[t]
    BY <1>1 DEF Levels
  <2>5. Len(Split[t]) \in Nat
    BY <2>1
  <2>6. Len(Split[t]) \in Nat \ {0} /\ Len(Split[t]) # 1
    <3>1. \A n \in Nat : n >= 2 => n \in Nat \ {0} /\ n # 1
      OBVIOUS
    <3> QED
      BY <2>1, <2>5, <3>1
  <2> QED
    BY <1>1, <2>3, <2>4, <2>6
<1>2. CASE t \notin DOMAIN Split
  <2>1. Levels(t) = <<t>>
    BY <1>2 DEF Levels
  <2> QED
    BY <1>2, <2>1
<1> QED
  BY <1>1, <1>2

\* Two texts without a "/" make a topic of four levels.
LEMMA PlainTopics ==
    ASSUME NEW g, NEW k, {g, k} \cap DOMAIN Split = {}
    PROVE  /\ StateTopic(g, k) = <<"status", "", g, k>>
           /\ CommandTopic(g, k) = <<"set", "", g, k>>
<1>1. Levels(g) = <<g>> /\ Levels(k) = <<k>>
  BY DEF Levels
<1>2. Item(g, k) = <<"">> \o <<g>> \o <<k>>
  BY <1>1 DEF Item
<1>3. StateTopic(g, k) = <<"status">> \o (<<"">> \o <<g>> \o <<k>>)
  BY <1>2 DEF StateTopic
<1>4. CommandTopic(g, k) = <<"set">> \o (<<"">> \o <<g>> \o <<k>>)
  BY <1>2 DEF CommandTopic
<1> QED
  BY <1>3, <1>4, FourLevels

\* And no other two texts make the same one.
LEMMA PlainTopicsOnly ==
    ASSUME NEW g, NEW k, {g, k} \cap DOMAIN Split = {},
           NEW h, NEW l, StateTopic(h, l) = StateTopic(g, k)
    PROVE  h = g /\ l = k
<1> DEFINE S == STRING \cup {h, l, "", "status"}
           a == "status"
           b == ""
           H == Levels(h)
           L == Levels(l)
<1>1. /\ a \in S /\ b \in S
      /\ STRING \cup {h} \subseteq S /\ STRING \cup {l} \subseteq S
  OBVIOUS
<1> HIDE DEF S
<1>2. /\ H \in Seq(S) /\ Len(H) \in Nat \ {0} /\ (Len(H) = 1 => h \notin DOMAIN Split)
      /\ L \in Seq(S) /\ Len(L) \in Nat \ {0} /\ (Len(L) = 1 => l \notin DOMAIN Split)
  BY <1>1, LevelsFacts
<1>3. StateTopic(h, l) = <<a>> \o (<<b>> \o H \o L)
  BY DEF StateTopic, Item
<1>4. StateTopic(g, k) = <<"status", "", g, k>>
  BY PlainTopics
<1> HIDE DEF H, L, a, b
<1>5. Len(<<a>> \o (<<b>> \o H \o L)) = 2 + Len(H) + Len(L)
  BY <1>1, <1>2, AllLevels
<1>6. Len(<<"status", "", g, k>>) = 4
  OBVIOUS
<1>7. Len(H) = 1 /\ Len(L) = 1
  <2>1. 2 + Len(H) + Len(L) = 4
    BY <1>3, <1>4, <1>5, <1>6
  <2>2. \A m, n \in Nat \ {0} : 2 + m + n = 4 => m = 1 /\ n = 1
    OBVIOUS
  <2> QED
    BY <1>2, <2>1, <2>2
<1>8. StateTopic(h, l) = <<"status", "", h, l>>
  BY <1>2, <1>7, PlainTopics
<1>9. <<"status", "", h, l>> = <<"status", "", g, k>>
  BY <1>4, <1>8
<1> QED
  BY <1>9

\* How the two filters match.
LEMMA Filters ==
    ASSUME NEW g, NEW k
    PROVE  /\ Matches(CommandFilter, <<"set", "", g, k>>)
           /\ ~Matches(EVCCCommandFilter, <<"set", "", g, k>>)
           /\ Matches(EVCCCommandFilter, <<"set", "", "evcc", g, k>>)
           /\ ~Matches(CommandFilter, <<"set", "", "evcc", g, k>>)
<1> DEFINE F == CommandFilter
           E == EVCCCommandFilter
           t == <<"set", "", g, k>>
           u == <<"set", "", "evcc", g, k>>
<1>1. Len(F) = 4 /\ Len(E) = 5 /\ Len(t) = 4 /\ Len(u) = 5
  BY DEF CommandFilter, EVCCCommandFilter
<1>2. \A i \in 1..4 : F[i] \in {"+", t[i]}
  <2>1. F[1] \in {"+", t[1]} /\ F[2] \in {"+", t[2]}
    BY DEF CommandFilter
  <2>2. F[3] \in {"+", t[3]} /\ F[4] \in {"+", t[4]}
    BY DEF CommandFilter
  <2>3. \A i \in 1..4 : i \in {1, 2, 3, 4}
    OBVIOUS
  <2> QED
    BY <2>1, <2>2, <2>3
<1>3. \A i \in 1..5 : E[i] \in {"+", u[i]}
  <2>1. E[1] \in {"+", u[1]} /\ E[2] \in {"+", u[2]} /\ E[3] \in {"+", u[3]}
    BY DEF EVCCCommandFilter
  <2>2. E[4] \in {"+", u[4]} /\ E[5] \in {"+", u[5]}
    BY DEF EVCCCommandFilter
  <2>3. \A i \in 1..5 : i \in {1, 2, 3, 4, 5}
    OBVIOUS
  <2> QED
    BY <2>1, <2>2, <2>3
<1>4. DOMAIN F = 1..4 /\ DOMAIN E = 1..5
  BY DEF CommandFilter, EVCCCommandFilter
<1> HIDE DEF F, E, t, u
<1>5. Matches(F, t) /\ ~Matches(E, t) /\ Matches(E, u) /\ ~Matches(F, u)
  BY <1>1, <1>2, <1>3, <1>4 DEF Matches
<1> QED
  BY <1>5 DEF F, E, t, u
\* A command for such an entity is taken by one route, under its key.
LEMMA OneRoute ==
    ASSUME NEW g, NEW k, {g, k} \cap DOMAIN Split = {}
    PROVE  /\ RoutesOf(CommandTopic(g, k)) = {CommandFilter}
           /\ Routed(CommandTopic(g, k)) = {k}
<1> DEFINE t == <<"set", "", g, k>>
<1>1. CommandTopic(g, k) = t
  BY PlainTopics
<1>2. Matches(CommandFilter, t) /\ ~Matches(EVCCCommandFilter, t)
  BY Filters
<1>3. t[4] = k
  OBVIOUS
<1> HIDE DEF t
<1>4. RoutesOf(t) = {CommandFilter}
  BY <1>2 DEF RoutesOf
<1>5. Routed(t) = {k}
  BY <1>2, <1>3 DEF Routed
<1> QED
  BY <1>1, <1>4, <1>5

\* evcc's battery mode goes to its own.
LEMMA EVCCRoute ==
    RoutesOf(<<"set", "", "evcc", "battery", "batterymode">>) = {EVCCCommandFilter}
  BY Filters DEF RoutesOf

\* Where an entity comes from.
LEMMA Origin ==
    ASSUME CatalogInv, NEW e \in NewEntities
    PROVE  /\ e = [platform |-> e.platform, key |-> e.key, group |-> e.group, of |-> e.of]
           /\ \/ /\ e.of > 0 /\ e.of \in DOMAIN all
                 /\ e.key = all[e.of].mqtt /\ e.group = all[e.of].group
              \/ /\ e.of = 0
                 /\ \E v \in VirtualSet : e.key = v.key /\ e.group = v.group
<1>1. \A i \in DOMAIN all : i > 0
  BY DEF CatalogInv, CatalogTypes
<1> DEFINE A == {[platform |-> "switch", key |-> v.key, group |-> v.group, of |-> 0] :
                    v \in VirtualSet}
           B(i) == {[platform |-> p, key |-> all[i].mqtt, group |-> all[i].group, of |-> i] :
                    p \in Platforms(all[i])}
           I == {j \in DOMAIN all : all[j].group # "" /\ HasHassHints(all[j])}
<1>2. CASE e \in A
  BY <1>2
<1>3. ASSUME NEW i \in I, e \in B(i)
      PROVE  /\ e = [platform |-> e.platform, key |-> e.key, group |-> e.group, of |-> e.of]
             /\ e.of > 0 /\ e.of \in DOMAIN all
             /\ e.key = all[e.of].mqtt /\ e.group = all[e.of].group
  <2>1. PICK p \in Platforms(all[i]) :
            e = [platform |-> p, key |-> all[i].mqtt, group |-> all[i].group, of |-> i]
    BY <1>3
  <2>2. e.of = i /\ e.key = all[i].mqtt /\ e.group = all[i].group /\ e.platform = p
    BY <2>1
  <2>3. i \in DOMAIN all /\ i > 0
    BY <1>1
  <2> QED
    BY <2>1, <2>2, <2>3
<1> DEFINE U == UNION {B(i) : i \in I}
<1>4. NewEntities = U \cup A
  BY DEF NewEntities
<1> HIDE DEF A, B, I
<1>5. CASE e \in U
  <2>1. PICK i \in I : e \in B(i)
    BY <1>5
  <2> QED
    BY <2>1, <1>3
<1> HIDE DEF U
<1> QED
  BY <1>2, <1>4, <1>5

\* What a plain entity of a register commands, and what is published for it.
LEMMA RegisterEntity ==
    ASSUME CatalogInv, NEW e \in NewEntities, e.of > 0, Plain(e.group, e.key)
    PROVE  /\ DispatchWrite(e.key) = {r \in {all[e.of]} : r.writable /\ Modbus(r)}
           /\ PublishedTo(StateTopic(e.group, e.key)) = {r \in {all[e.of]} : Valued(r)}
<1> DEFINE q == all[e.of]
<1>1. e.of \in DOMAIN all /\ e.key = q.mqtt /\ e.group = q.group /\ q \in Elements(all)
  BY Origin DEF Elements
<1>2. /\ e.key # "" /\ VirtualByKey(e.key) = {}
      /\ {e.group, e.key} \cap DOMAIN Split = {}
      /\ \A r \in Elements(all) : r.mqtt = "" => r.name # e.key
  BY DEF Plain
<1>3. FindByMQTT(e.key) = {q}
  BY <1>1, <1>2, FoundByKey DEF CatalogInv
<1>4. e.key # batteryModeWriteKey
  BY <1>2, DocumentAssumption
<1>5. DispatchWrite(e.key) = {r \in {q} : r.writable /\ Modbus(r)}
  BY <1>2, <1>3, <1>4 DEF DispatchWrite, WritesRegister
<1>6. \A v \in VirtualSet : StateTopic(v.group, v.key) # StateTopic(e.group, e.key)
  BY <1>2, PlainTopicsOnly DEF VirtualByKey
<1>7. ASSUME NEW r \in Elements(all)
      PROVE  StateTopic(r.group, PollKey(r)) = StateTopic(e.group, e.key) <=> r = q
  <2>1. PollKey(q) = e.key
    BY <1>1, <1>2 DEF PollKey, outputKey
  <2>2. ASSUME StateTopic(r.group, PollKey(r)) = StateTopic(e.group, e.key)
        PROVE  r = q
    <3>1. PollKey(r) = e.key
      BY <1>2, <2>2, PlainTopicsOnly
    <3>2. r.mqtt = e.key
      BY <1>2, <3>1 DEF PollKey, outputKey
    <3>3. FindByMQTT(e.key) = {r}
      BY <1>2, <3>2, FoundByKey DEF CatalogInv
    <3> QED
      BY <1>3, <3>3
  <2> QED
    BY <1>1, <2>1, <2>2
<1>8. PublishedTo(StateTopic(e.group, e.key)) = {r \in {q} : Valued(r)}
  BY <1>1, <1>6, <1>7 DEF PublishedTo
<1> QED
  BY <1>5, <1>8

\* The same of a synthetic switch: what it writes, and what its topic carries.
LEMMA SwitchEntity ==
    ASSUME NEW v \in VirtualSet
    PROVE  /\ VirtualByKey(v.key) = {v}
           /\ DispatchWrite(v.key) = {r \in FindByMQTT(v.target) : r.writable /\ Modbus(r)}
           /\ \A r \in FindByMQTT(v.target) :
                r \in PublishedTo(StateTopic(v.group, v.key)) <=>
                    Valued(r) /\ r.group = v.group
<1>1. /\ {v.group, v.key} \cap DOMAIN Split = {}
      /\ \A w \in VirtualSet : w.key = v.key => w = v
  BY DocumentAssumption
<1>2. VirtualByKey(v.key) = {v}
  BY <1>1 DEF VirtualByKey
<1>3. DispatchWrite(v.key) = {r \in FindByMQTT(v.target) : r.writable /\ Modbus(r)}
  BY <1>2 DEF DispatchWrite, WritesRegister
<1>4. ASSUME NEW r \in FindByMQTT(v.target)
      PROVE  r \in PublishedTo(StateTopic(v.group, v.key)) <=> Valued(r) /\ r.group = v.group
  <2>1. r \in Elements(all) /\ r.mqtt = v.target
    BY DEF FindByMQTT, Elements
  <2>2. StateTopic(r.group, PollKey(r)) = StateTopic(v.group, v.key) => r.group = v.group
    BY <1>1, PlainTopicsOnly
  <2>3. \A w \in VirtualSet : StateTopic(w.group, w.key) = StateTopic(v.group, v.key) => w = v
    BY <1>1, PlainTopicsOnly
  <2> QED
    BY <2>1, <2>2, <2>3 DEF PublishedTo
<1> QED
  BY <1>2, <1>3, <1>4

\* A control drives what it shows.
LEMMA InvControls == CatalogInv => ControlsWhatItShows
<1> SUFFICES ASSUME CatalogInv, NEW e \in NewEntities, e.of = 0 \/ Plain(e.group, e.key),
                    NEW topic, topic = CommandTopic(e.group, e.key),
                    NEW written, written = UNION {DispatchWrite(k) : k \in Routed(topic)}
             PROVE  /\ RoutesOf(topic) = {CommandFilter}
                    /\ written = {r \in Target(e.of, e.key) : r.writable /\ Modbus(r)}
                    /\ \A i \in Items : i.of = e.of /\ i.key = e.key =>
                        DispatchWrite(i.key) = written
                    /\ written \cap PublishedTo(StateTopic(e.group, e.key)) =
                        {r \in written : Valued(r) /\ r.group = e.group}
  BY EVCCRoute DEF ControlsWhatItShows, Components
<1>1. {e.group, e.key} \cap DOMAIN Split = {}
  <2>1. CASE e.of = 0
    <3>1. PICK v \in VirtualSet : e.key = v.key /\ e.group = v.group
      BY <2>1, Origin
    <3> QED
      BY <3>1, DocumentAssumption
  <2>2. CASE Plain(e.group, e.key)
    BY <2>2 DEF Plain
  <2> QED
    BY <2>1, <2>2
<1>2. RoutesOf(topic) = {CommandFilter} /\ written = DispatchWrite(e.key)
  BY <1>1, OneRoute
<1>3. CASE e.of = 0
  <2>1. PICK v \in VirtualSet : e.key = v.key /\ e.group = v.group
    BY <1>3, Origin
  <2>2. Target(e.of, e.key) = FindByMQTT(v.target)
    BY <1>3, <2>1, SwitchEntity DEF Target
  <2>3. written = {r \in FindByMQTT(v.target) : r.writable /\ Modbus(r)}
    BY <1>2, <2>1, SwitchEntity
  <2>4. \A r \in written : r \in PublishedTo(StateTopic(e.group, e.key)) <=>
                            Valued(r) /\ r.group = e.group
    BY <2>1, <2>3, SwitchEntity
  <2> QED
    BY <1>2, <2>2, <2>3, <2>4
<1>4. CASE e.of # 0
  <2>1. /\ e.of > 0 /\ Plain(e.group, e.key) /\ e.group = all[e.of].group
    BY <1>4, Origin
  <2>2. /\ Target(e.of, e.key) = {all[e.of]}
        /\ written = {r \in {all[e.of]} : r.writable /\ Modbus(r)}
        /\ PublishedTo(StateTopic(e.group, e.key)) = {r \in {all[e.of]} : Valued(r)}
    BY <1>2, <2>1, RegisterEntity DEF Target
  <2> QED
    BY <1>2, <2>1, <2>2
<1> QED
  BY <1>3, <1>4

\* What has a value is shown by its entity, and no entity shows another's.
LEMMA InvShown == CatalogInv => ShownWhereItIsPolled
<1> SUFFICES ASSUME CatalogInv
             PROVE  ShownWhereItIsPolled
  OBVIOUS
<1>1. ASSUME NEW e \in NewEntities, e.of > 0, Plain(e.group, e.key)
      PROVE  /\ PublishedTo(StateTopic(e.group, e.key)) \subseteq {all[e.of]}
             /\ e.group \in PolledGroups
                /\ (Modbus(all[e.of]) <=> e.key \notin PseudoRegisters(e.group)) =>
                    all[e.of] \in PublishedTo(StateTopic(e.group, e.key))
  <2>1. PublishedTo(StateTopic(e.group, e.key)) = {r \in {all[e.of]} : Valued(r)}
    BY <1>1, RegisterEntity
  <2>2. e.key = all[e.of].mqtt /\ e.group = all[e.of].group /\ e.key # ""
    <3>1. e.key # ""
      BY <1>1 DEF Plain
    <3>2. e.key = all[e.of].mqtt /\ e.group = all[e.of].group
      BY <1>1, Origin
    <3> QED
      BY <3>1, <3>2
  <2>3. PollKey(all[e.of]) = e.key
    BY <2>2 DEF PollKey, outputKey
  <2>4. e.group \in PolledGroups /\ (Modbus(all[e.of]) <=> e.key \notin PseudoRegisters(e.group)) =>
            Valued(all[e.of])
    BY <2>2, <2>3, Zenon DEF Valued
  <2> QED
    BY <2>1, <2>4
<1>2. ASSUME NEW e \in NewEntities, NEW f \in NewEntities, e.platform = f.platform,
             e.key = f.key, \A d \in {e, f} : d.of > 0 => Plain(d.group, d.key)
      PROVE  e = f
  <2>1. CASE e.of = 0 /\ f.of = 0
    <3>1. e.group = f.group
      BY <1>2, <2>1, Origin, DocumentAssumption
    <3> QED
      BY <1>2, <2>1, <3>1, Origin
  <2>2. CASE e.of > 0 /\ f.of > 0
    <3>1. /\ e.of \in DOMAIN all /\ f.of \in DOMAIN all /\ all[e.of].mqtt # ""
          /\ all[e.of].mqtt = all[f.of].mqtt
          /\ e.group = all[e.of].group /\ f.group = all[f.of].group
      <4>1. /\ e.of \in DOMAIN all /\ e.key = all[e.of].mqtt /\ e.group = all[e.of].group
            /\ f.of \in DOMAIN all /\ f.key = all[f.of].mqtt /\ f.group = all[f.of].group
        BY <2>2, Origin
      <4>2. e.key # ""
        BY <1>2, <2>2 DEF Plain
      <4> QED
        BY <1>2, <4>1, <4>2
    <3>2. e.of = f.of
      BY <3>1 DEF CatalogInv, Indexed
    <3> QED
      BY <1>2, <3>1, <3>2, Origin, ZenonT(30)
  <2>3. ~(e.of > 0 /\ f.of = 0) /\ ~(e.of = 0 /\ f.of > 0)
    <3>1. \A d \in NewEntities : d.of = 0 => VirtualByKey(d.key) # {}
      BY Origin DEF VirtualByKey
    <3> QED
      BY <1>2, <3>1 DEF Plain
  <2> QED
    BY <2>1, <2>2, <2>3, Origin
<1>3. ~Renders => \E e \in NewEntities : e.of > 0 /\ ~Plain(e.group, e.key)
  BY <1>2 DEF Renders
<1> QED
  BY <1>1, <1>3 DEF ShownWhereItIsPolled, Components

-----------------------------------------------------------------------------
(* The three together *)

SetupInv == ConfigInv /\ CatalogInv /\ ReadInv /\ Sparing

\* The process starts with its sources unread.
LEMMA SetupStart == SetupInit => SetupInv
<1> SUFFICES ASSUME SetupInit
             PROVE  SetupInv
  OBVIOUS
<1>1. ConfigInv
  BY DEF SetupInit, ConfigInit, ConfigInv
<1>2. CatalogInv
  <2>1. /\ file \in Files /\ read = <<>> /\ all = <<>> /\ byKey = {} /\ byAddr = {}
        /\ seenAddr = {} /\ seenMQTT = {} /\ verdicts = <<>>
    BY DEF SetupInit, Init
  <2>2. file \in Seq(AnyEntry)
    BY <2>1, ConstAssumption
  <2>3. DOMAIN all = {} /\ DOMAIN read = {}
    BY <2>1
  <2>4. CatalogTypes
    BY <2>1, <2>2 DEF CatalogTypes
  <2> QED
    BY <2>1, <2>3, <2>4 DEF CatalogInv, Indexed, Remembered, Elements
<1>3. ReadInv
  <2>1. /\ regs = {} /\ rest = {} /\ windows = <<>> /\ curEnd = 0
        /\ next = 1 /\ failed = {} /\ out = {}
    BY DEF SetupInit, ReadInit
  <2>2. DOMAIN windows = {} /\ Len(windows) = 0 /\ windows \in Seq(Window)
    BY <2>1
  <2> QED
    BY <2>1, <2>2 DEF ReadInv, ReadTypes, Covered
<1>4. Sparing
  <2>1. regs = {} /\ DOMAIN windows = {}
    BY DEF SetupInit, ReadInit
  <2> QED
    BY <2>1 DEF Sparing
<1> QED
  BY <1>1, <1>2, <1>3, <1>4 DEF SetupInv

\* Each of the three leaves what the others have established alone, and the
\* reader finds a catalog it can rely on.
LEMMA SetupStep == SetupInv /\ [SetupNext]_<<configVars, catalogVars, readVars>> => SetupInv'
<1> SUFFICES ASSUME SetupInv, [SetupNext]_<<configVars, catalogVars, readVars>>
             PROVE  SetupInv'
  OBVIOUS
<1>1. [ConfigNext]_configVars
  BY DEF SetupNext, LoadConfig, LoadCatalog, Cycle
<1>2. [Parse]_vars
  BY DEF SetupNext, LoadConfig, LoadCatalog, Cycle, catalogVars
<1>3. [ReadNext]_readVars
  BY DEF SetupNext, LoadConfig, LoadCatalog, Cycle
<1> QED
  BY <1>1, <1>2, <1>3, ConfigStep, CatalogStep, ReadStep, SparingStep DEF SetupInv

\* Whatever the configuration and the catalog say, the invariants of the three
\* hold together from the start of the process to the end of a poll cycle.
THEOREM SetupInvariant == SetupSpec => []SetupInv
  BY SetupStart, SetupStep, PTL DEF SetupSpec

\* An accepted configuration is what its sources say.
THEOREM HonouredHolds == SetupSpec => []Honoured
<1>1. SetupInv => Honoured
  BY InvHonoured DEF SetupInv
<1> QED
  BY <1>1, SetupInvariant, PTL

\* Credentials do not cross the wire in clear behind the operator's back.
THEOREM NeverPlainHolds == SetupSpec => []NeverPlain
<1>1. SetupInv => NeverPlain
  BY InvNeverPlain DEF SetupInv
<1> QED
  BY <1>1, SetupInvariant, PTL

\* A poll and a write never disagree which register they talk about.
THEOREM WritesWhereItReadsHolds == SetupSpec => []WritesWhereItReads
<1>1. SetupInv => WritesWhereItReads
  BY InvWrites DEF SetupInv
<1> QED
  BY <1>1, SetupInvariant, PTL

\* No usable entry of the catalog is lost to anything but an earlier one.
THEOREM FirstWinsHolds == SetupSpec => []FirstWins
<1>1. SetupInv => FirstWins
  BY InvFirstWins DEF SetupInv
<1> QED
  BY <1>1, SetupInvariant, PTL

\* Every read window is a legal request, and no register is lost to it.
THEOREM WindowsHold == SetupSpec => []Windows
<1>1. SetupInv => Windows
  BY InvWindows DEF SetupInv
<1> QED
  BY <1>1, SetupInvariant, PTL

\* A control of the document drives what it shows.
THEOREM ControlsHold == SetupSpec => []ControlsWhatItShows
<1>1. SetupInv => ControlsWhatItShows
  BY InvControls DEF SetupInv
<1> QED
  BY <1>1, SetupInvariant, PTL

\* Clusterize covers a group with the smallest possible number of reads.
THEOREM FewestHolds == SetupSpec => []FewestRequests
<1>1. SetupInv => FewestRequests
  BY InvFewest DEF SetupInv
<1> QED
  BY <1>1, SetupInvariant, PTL

\* No entity of the document shows another's value, and none whose register has
\* one is dead.
THEOREM ShownHolds == SetupSpec => []ShownWhereItIsPolled
<1>1. SetupInv => ShownWhereItIsPolled
  BY InvShown DEF SetupInv
<1> QED
  BY <1>1, SetupInvariant, PTL
================================================================================
