-------------------------------- MODULE MCConfig --------------------------------
EXTENDS Config

MCParseInt  == "0" :> 0 @@ "007" :> 7 @@ " 30" :> 30 @@ "99999" :> 99999
                   @@ "502" :> 502 @@ "5" :> 5
MCParseFloat == "10.5" :> [cut |-> 10, text |-> "10.5"] @@ " 0.5" :> [cut |-> 0, text |-> "0.5"]
                   @@ "255.9" :> [cut |-> 255, text |-> "255.9"]
MCParseBool == "True" :> TRUE @@ "false" :> FALSE
MCOldBool   == "yes" :> TRUE @@ "off" :> FALSE
MCTrimSlash == "ha/" :> "ha" @@ "/" :> ""
MCNames     == {"mtec", "home/inverter", "007", "True", "7", "TRUE", "10.5"}
MCBinds     == {"127.0.0.1:8080"}

Float(t) == [float |-> MCParseFloat[t]]

\* What every configuration but the empty one says.
Minimum ==
    <<"MODBUS_IP", "tag">> :> Str("inverter") @@ <<"MODBUS_PORT", "tag">> :> Int64(502)
        @@ <<"MODBUS_TIMEOUT", "tag">> :> Int64(5) @@ <<"MQTT_SERVER", "tag">> :> Str("broker")

\* The same from the environment, without a file.
EnvMinimum ==
    <<"MODBUS_IP", "tag">> :> "inverter" @@ <<"MODBUS_PORT", "tag">> :> "502"
        @@ <<"MODBUS_TIMEOUT", "tag">> :> "5" @@ <<"MQTT_SERVER", "tag">> :> "broker"

\* One thing the file says more.
FileWords ==
    LET bools == {[bool |-> TRUE], [bool |-> FALSE], Int64(1), Float("10.5"), Str("yes"), Null}
        ints  == {Int64(0), Int64(30), Int64(99999), Float("10.5"), Float(" 0.5"), Str("007"), Null}
        texts == {Str(""), Str("007"), Int64(7), Float("10.5"), [bool |-> TRUE], Null}
    IN ({"MQTT_TLS", "MQTT_TLS_INSECURE", "MQTT_MAINTENANCE", "MQTT_SSL", "WEB_ENABLE"} \X bools)
       \cup ({"MQTT_PORT", "MODBUS_SLAVE", "HASS_BIRTH_GRACETIME", "REFRESH_NOW",
              "MQTT_STATS_INTERVAL", "CHARGE_ACTIVE_VALUE", "EVCC_BATTERYMODE_TIMEOUT",
              "MODBUS_FRAMER"} \X ints)
       \cup ({"MQTT_PASSWORD", "MQTT_TOPIC", "MQTT_TLS_CA", "WEB_USER"} \X texts)
       \cup ({"HASS_BASE_TOPIC"} \X {Str("ha/"), Str("ha"), Str("/"), Null})
       \cup {<<"LANGUAGE", Str("fr")>>, <<"WEB_BIND", Str("8080")>>,
             <<"MQTT_TOPIC", Str("a//b")>>, <<"MQTT_SERVER", Null>>}

\* One thing the environment says.
EnvWords ==
    ({"MQTT_TLS", "MQTT_TLS_INSECURE", "MQTT_MAINTENANCE", "MQTT_SSL"}
        \X {"True", "false", "yes", "0", "10.5"})
    \cup ({"MQTT_PORT", "MODBUS_SLAVE", "HASS_BIRTH_GRACETIME", "REFRESH_NOW",
           "MQTT_STATS_INTERVAL"} \X {"0", " 30", "99999", " 0.5", "255.9", "yes"})
    \cup ({"MQTT_PASSWORD", "MQTT_TOPIC", "MQTT_TLS_CA"} \X {"", "007", "10.5", "True"})

\* Keys that Validate, the defaults or the connection look at together.
Related(k, l) ==
    \/ k = l
    \/ {k, l} \subseteq {"MQTT_TLS", "MQTT_TLS_INSECURE", "MQTT_TLS_CA", "MQTT_PORT",
                        "MQTT_SSL"}
    \/ {k, l} \subseteq {"WEB_ENABLE", "WEB_BIND", "WEB_USER"}

Say(w, c) == <<w[1], c>> :> w[2]

\* The minimum with one or two more words, in the file or one in each source;
\* and the environment alone.
AllSources ==
    LET Pairs(S) == {p \in FileWords \X S : Related(p[1][1], p[2][1])}
        Cases == {"tag", "other"}
        Env(words) == {Say(w, c) : w \in words, c \in Cases}
    IN {[file |-> Say(w, c) @@ Minimum, env |-> <<>>] : w \in FileWords, c \in Cases}
       \cup {[file |-> Say(p[1], c) @@ Say(p[2], "tag") @@ Minimum, env |-> <<>>] :
               p \in Pairs(FileWords), c \in Cases}
       \cup {[file |-> Say(p[1], c) @@ Minimum, env |-> Say(p[2], d)] :
               p \in Pairs(EnvWords), c \in Cases, d \in Cases}
       \cup {[file |-> Minimum, env |-> e] : e \in Env(EnvWords)}
       \cup {[file |-> <<>>, env |-> e @@ EnvMinimum] : e \in Env(EnvWords)}
=============================================================================
