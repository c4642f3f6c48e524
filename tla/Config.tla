--------------------------------- MODULE Config ---------------------------------
(***************************************************************************)
(* config.Load: the file and the MTEC_* environment become one map, which  *)
(* is searched for renamed keys, bound to the fields of Config, completed  *)
(* with defaults and validated.  Whether a default applies is decided for  *)
(* most keys by the presence of the key, in any case, not by its value.    *)
(*                                                                         *)
(* Sources are functions from spellings of keys to what they say: in the   *)
(* file a YAML scalar, in the environment a text.  A scalar is a record    *)
(* with one field, named for its YAML type.                                *)
(***************************************************************************)
EXTENDS Integers, Sequences, TLC

CONSTANTS
    Sources,     \* the [file, env] pairs to load
    ParseInt,    \* strconv.ParseInt, trimmed: the texts it reads, with their values
    ParseFloat,  \* strconv.ParseFloat, trimmed, likewise
    ParseBool,   \* the texts that are true or false, trimmed, in any case
    OldBool,     \* yaml.v3: strings a bool field takes (yes, off, ...)
    TrimSlash,   \* strings.TrimRight(_, "/") where it changes a text
    Names,       \* texts topic.NewSmartHomeMultiLevel takes
    Binds        \* texts that are host:port with a port in 1..65535

StringKeys ==
    {"MODBUS_IP", "MQTT_SERVER", "MQTT_LOGIN", "MQTT_PASSWORD", "MQTT_TOPIC",
     "MQTT_TLS_CA", "HASS_BASE_TOPIC", "DEVICE_NAME", "WEB_BIND", "WEB_USER",
     "WEB_PASSWORD", "LANGUAGE"}
BoolKeys ==
    {"MQTT_MAINTENANCE", "MQTT_TLS", "MQTT_TLS_INSECURE", "HASS_ENABLE",
     "HASS_UNIQUE_ID_INCLUDE_SERIAL", "WEB_ENABLE", "EVCC_ENABLE", "DEBUG"}
IntKeys ==
    {"MODBUS_PORT", "MODBUS_SLAVE", "MODBUS_TIMEOUT", "MQTT_PORT",
     "MQTT_STATS_INTERVAL", "HASS_BIRTH_GRACETIME", "REFRESH_NOW",
     "REFRESH_CONFIG", "REFRESH_DAY", "REFRESH_STATIC", "REFRESH_TOTAL",
     "CHARGE_ACTIVE_VALUE", "DISCHARGE_ACTIVE_VALUE", "EVCC_BATTERYMODE_TIMEOUT"}
Keys == StringKeys \cup BoolKeys \cup IntKeys

renamedKeys == {"MQTT_SSL", "MQTT_SSL_INSECURE"}
removedKeys == {"MODBUS_FRAMER", "MODBUS_RETRIES", "MQTT_FLOAT_FORMAT"}

\* A key as it is spelled: in the case of its tag, or in another.
Spellings == (Keys \cup renamedKeys \cup removedKeys) \X {"tag", "other"}

Int64(n) == [int |-> n]
Str(t)   == [str |-> t]
Null     == [null |-> TRUE]

\* A float by what a field can take of it: its part before the point, and how
\* it is written.
Floats == [float : [cut : Int, text : STRING]]

Scalars == [int : Int] \cup Floats \cup [bool : BOOLEAN] \cup [str : STRING] \cup {Null}

\* A number or a boolean is never written as the empty text.
ASSUME ConfigAssumption ==
    \A s \in Sources :
        /\ DOMAIN s.file \subseteq Spellings /\ DOMAIN s.env \subseteq Spellings
        /\ \A k \in DOMAIN s.file :
            LET v == s.file[k] IN
            /\ v \in Scalars
            /\ v \in [int : Int] => ToString(v.int) # ""
            /\ v \in Floats => v.float.text # ""
            /\ v \in [bool : BOOLEAN] => ToString(v.bool) # ""

VARIABLES
    source,   \* the file and the environment
    raw,      \* raw: spellings to scalars
    cfg,      \* Config: keys to values
    removed,  \* Config.removed
    loaded    \* how far Load has come, "refused" and "accepted" at its ends

configVars == <<source, raw, cfg, removed, loaded>>

Has(map, spelling) == spelling \in DOMAIN map

\* rawHasKey: the key in whatever case.
rawHasKey(k) == \E c \in {"tag", "other"} : Has(raw, <<k, c>>)

Zero(k) == IF k \in StringKeys THEN "" ELSE IF k \in BoolKeys THEN FALSE ELSE 0

ConfigInit ==
    /\ source \in Sources
    /\ raw = source.file
    /\ cfg = [k \in Keys |-> Zero(k)]
    /\ removed = {}
    /\ loaded = "parsed"

-----------------------------------------------------------------------------
(* applyEnvOverrides *)

coerceEnvValue(t) ==
    IF t \in DOMAIN ParseBool THEN [bool |-> ParseBool[t]]
    ELSE IF t \in DOMAIN ParseInt THEN Int64(ParseInt[t])
    ELSE IF t \in DOMAIN ParseFloat THEN [float |-> ParseFloat[t]]
    ELSE Str(t)

\* A string field takes the text as it is; the lookup is by the exact tag.
Overridden(spelling, t) ==
    IF spelling \in StringKeys \X {"tag"} THEN Str(t) ELSE coerceEnvValue(t)

ApplyEnvOverrides ==
    /\ loaded = "parsed"
    /\ raw' = [s \in DOMAIN source.env \cup DOMAIN raw |->
                IF Has(source.env, s) THEN Overridden(s, source.env[s]) ELSE raw[s]]
    /\ loaded' = "merged"
    /\ UNCHANGED <<source, cfg, removed>>

-----------------------------------------------------------------------------
(* checkRenamedKeys *)

\* MUTANT: only keys in the case of the tag are found.
RenamedSetExactly == \E k \in renamedKeys : Has(raw, <<k, "tag">>)

RenamedSet == \E k \in renamedKeys : rawHasKey(k)

CheckRenamedKeys ==
    /\ loaded = "merged"
    /\ loaded' = IF RenamedSet THEN "refused" ELSE "checked"
    /\ UNCHANGED <<source, raw, cfg, removed>>

-----------------------------------------------------------------------------
(* yaml.Unmarshal *)

Is(type, v) == type \in DOMAIN v

\* The integer an integer field makes of a number: a float loses its fraction.
Truncated(v) == IF Is("float", v) THEN v.float.cut ELSE v.int

\* A field takes any scalar that means something in its type; whether a number
\* is too large for it is asked of what is left of the number.
Fits(k, v) ==
    \/ Is("null", v) \/ k \in StringKeys
    \/ k \in BoolKeys /\ Is("bool", v)
    \/ k \in BoolKeys /\ Is("str", v) /\ v.str \in DOMAIN OldBool
    \/ /\ k \in IntKeys /\ (Is("int", v) \/ Is("float", v))
       /\ k = "MODBUS_SLAVE" => Truncated(v) \in 0..255

\* How a scalar is written.
Text(v) ==
    CASE Is("str", v)   -> v.str
      [] Is("float", v) -> v.float.text
      [] Is("int", v)   -> ToString(v.int)
      [] OTHER          -> ToString(v.bool)

Decoded(k, v) ==
    IF Is("null", v) THEN Zero(k)
    ELSE IF k \in StringKeys THEN Text(v)
    ELSE IF k \in IntKeys THEN Truncated(v)
    ELSE IF Is("str", v) THEN OldBool[v.str] ELSE v.bool

Unmarshal ==
    /\ loaded = "checked"
    /\ IF \E k \in Keys : Has(raw, <<k, "tag">>) /\ ~Fits(k, raw[<<k, "tag">>])
       THEN /\ loaded' = "refused" /\ UNCHANGED <<cfg, removed>>
       ELSE /\ cfg' = [k \in Keys |->
                IF Has(raw, <<k, "tag">>) THEN Decoded(k, raw[<<k, "tag">>]) ELSE Zero(k)]
            /\ removed' = {k \in removedKeys : rawHasKey(k)}
            /\ loaded' = "bound"
    /\ UNCHANGED <<source, raw>>

-----------------------------------------------------------------------------
(* applyDefaults *)

IfAbsent ==
    [MQTT_MAINTENANCE |-> TRUE, MQTT_STATS_INTERVAL |-> 60,
     HASS_BIRTH_GRACETIME |-> 15, REFRESH_NOW |-> 10, REFRESH_CONFIG |-> 30,
     REFRESH_DAY |-> 300, REFRESH_STATIC |-> 3600, REFRESH_TOTAL |-> 300,
     CHARGE_ACTIVE_VALUE |-> 50, DISCHARGE_ACTIVE_VALUE |-> 50]

IfEmpty ==
    [MQTT_TOPIC |-> "mtec", WEB_BIND |-> "127.0.0.1:8080", LANGUAGE |-> "en"]

NormalizeHASSBaseTopic(t) ==
    LET trimmed == IF t \in DOMAIN TrimSlash THEN TrimSlash[t] ELSE t
    IN IF trimmed = "" THEN "homeassistant" ELSE trimmed

SchemePort(tls) == IF tls THEN 8883 ELSE 1883

\* MUTANT: a zero is taken for an absent key.
WantsDefaultByZero(k) == cfg[k] = Zero(k)

WantsDefault(k) == ~rawHasKey(k)

ApplyDefaults ==
    /\ loaded = "bound"
    /\ cfg' = [k \in Keys |->
        CASE k = "MQTT_PORT" /\ WantsDefault(k) -> SchemePort(cfg["MQTT_TLS"])
          [] k = "HASS_BASE_TOPIC" -> NormalizeHASSBaseTopic(cfg[k])
          [] k \in DOMAIN IfAbsent /\ WantsDefault(k) -> IfAbsent[k]
          [] k \in DOMAIN IfEmpty /\ cfg[k] = "" -> IfEmpty[k]
          [] OTHER -> cfg[k]]
    /\ loaded' = "complete"
    /\ UNCHANGED <<source, raw, removed>>

-----------------------------------------------------------------------------
(* Validate *)

Legal ==
    [MODBUS_PORT |-> 1..65535, MODBUS_TIMEOUT |-> 1..600, MQTT_PORT |-> 1..65535,
     MQTT_STATS_INTERVAL |-> 0..86400, HASS_BIRTH_GRACETIME |-> 0..600,
     REFRESH_NOW |-> 1..3600, REFRESH_CONFIG |-> 1..3600, REFRESH_DAY |-> 1..86400,
     REFRESH_STATIC |-> 1..86400, REFRESH_TOTAL |-> 1..86400,
     CHARGE_ACTIVE_VALUE |-> 1..6000, DISCHARGE_ACTIVE_VALUE |-> 1..6000,
     EVCC_BATTERYMODE_TIMEOUT |-> 0..86400,
     MQTT_TOPIC |-> Names, LANGUAGE |-> {"en", "de"}]

\* The keys, or pairs of keys, Validate has an issue with.
Issues(c) ==
    {{k} : k \in {r \in {"MODBUS_IP", "MQTT_SERVER"} : c[r] = ""}}
    \cup {{k} : k \in {r \in DOMAIN Legal : c[r] \notin Legal[r]}}
    \cup (IF c["MQTT_TLS_CA"] # "" /\ c["MQTT_TLS_INSECURE"]
          THEN {{"MQTT_TLS_CA", "MQTT_TLS_INSECURE"}} ELSE {})
    \cup (IF c["WEB_ENABLE"] /\ c["WEB_BIND"] \notin Binds THEN {{"WEB_BIND"}} ELSE {})
    \cup (IF c["WEB_ENABLE"] /\ (c["WEB_USER"] = "") # (c["WEB_PASSWORD"] = "")
          THEN {{"WEB_USER", "WEB_PASSWORD"}} ELSE {})

Validate ==
    /\ loaded = "complete"
    /\ loaded' = IF Issues(cfg) = {} THEN "accepted" ELSE "refused"
    /\ UNCHANGED <<source, raw, cfg, removed>>

ConfigNext ==
    ApplyEnvOverrides \/ CheckRenamedKeys \/ Unmarshal \/ ApplyDefaults \/ Validate

ConfigSpec == ConfigInit /\ [][ConfigNext]_configVars

-----------------------------------------------------------------------------
(* What the broker connection is built from *)

\* MQTTBrokerURL and MQTTTLSConfig: scheme, port, and what the certificate is
\* verified against.
BrokerConnection ==
    [scheme |-> IF cfg["MQTT_TLS"] THEN "tls" ELSE "tcp",
     port   |-> cfg["MQTT_PORT"],
     trust  |-> CASE ~cfg["MQTT_TLS"]         -> "none"
                  [] cfg["MQTT_TLS_INSECURE"] -> "anything"
                  [] cfg["MQTT_TLS_CA"] # ""  -> "the CA"
                  [] OTHER                    -> "the system"]

\* IgnoredTLSKeys: what the daemon warns about.
IgnoredTLSKeys ==
    {k \in {"MQTT_TLS_INSECURE", "MQTT_TLS_CA"} : ~cfg["MQTT_TLS"] /\ cfg[k] # Zero(k)}

-----------------------------------------------------------------------------
(* Properties *)

\* What the two sources say of a key under its tag, the environment first, as
\* a set of at most one scalar.
Said(k) ==
    LET s == <<k, "tag">> IN
    IF Has(source.env, s)
    THEN {IF k \in StringKeys THEN Str(source.env[s]) ELSE coerceEnvValue(source.env[s])}
    ELSE IF Has(source.file, s) THEN {source.file[s]} ELSE {}

Silent(k) == \A m \in {source.file, source.env}, c \in {"tag", "other"} : ~Has(m, <<k, c>>)

\* An accepted configuration is what its sources say: the environment's word
\* before the file's and the file's before a default, texts in the string keys
\* to the letter, an explicit zero never taken for silence, and what both leave
\* out at its documented default - the broker's port at that of the scheme in
\* force.  An integer key that is given a fraction is what stands before the
\* point, 0.5 the zero that switches a timeout off: no one refuses it.  (A key
\* in another case than its tag is AnySpelling's subject.)
Honoured ==
    loaded = "accepted" => \A k \in Keys :
        /\ \A v \in Said(k) :
            \/ cfg[k] = Decoded(k, v)
            \/ k = "HASS_BASE_TOPIC" /\ cfg[k] = NormalizeHASSBaseTopic(Decoded(k, v))
            \/ k \in DOMAIN IfEmpty /\ Decoded(k, v) = "" /\ cfg[k] = IfEmpty[k]
        /\ Silent(k) =>
            /\ k \in DOMAIN IfAbsent => cfg[k] = IfAbsent[k]
            /\ k \in DOMAIN IfEmpty => cfg[k] = IfEmpty[k]
            /\ k = "MQTT_PORT" => cfg[k] = SchemePort(cfg["MQTT_TLS"])

\* TLS that a source asks for under the current tag, in its case, and is not
\* overridden.
AsksForTLS == \E v \in Said("MQTT_TLS") : Fits("MQTT_TLS", v) /\ Decoded("MQTT_TLS", v)

\* The names the two TLS keys had before.
AsksByOldName ==
    \E m \in {source.file, source.env}, k \in renamedKeys, c \in {"tag", "other"} :
        Has(m, <<k, c>>)

\* Credentials do not cross the wire in clear, nor to an unverified broker,
\* behind the operator's back: a configuration that asks for TLS, by the
\* current name or in any spelling of the old one, is dialled with TLS and
\* verified unless it says otherwise, or it is refused; and one that prepared a
\* CA without TLS is warned of.
NeverPlain ==
    loaded = "accepted" =>
        /\ ~AsksByOldName
        /\ AsksForTLS =>
            /\ BrokerConnection.scheme = "tls"
            /\ BrokerConnection.trust = "anything" =>
                Said("MQTT_TLS_INSECURE") # {} /\ Said("MQTT_TLS_CA") \subseteq {Str(""), Null}
        /\ (\E v \in Said("MQTT_TLS_CA") : v \notin {Str(""), Null}) =>
            BrokerConnection.trust = "the CA" \/ "MQTT_TLS_CA" \in IgnoredTLSKeys

\* defaults.go says that "refresh_now: 0" decodes into Config.RefreshNow
\* exactly like "REFRESH_NOW: 0" does: what the file says of a key, in its type,
\* under whatever case is what the field holds, unless the environment or the tag
\* itself says something else.
AnySpelling ==
    loaded = "accepted" => \A k \in DOMAIN IfAbsent :
        LET s == <<k, "other">> IN
        Has(source.file, s) /\ Fits(k, source.file[s])
            /\ Said(k) = {} /\ ~Has(source.env, s) =>
            cfg[k] = Decoded(k, source.file[s])
=============================================================================
