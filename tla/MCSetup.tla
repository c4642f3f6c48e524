-------------------------------- MODULE MCSetup --------------------------------
(***************************************************************************)
(* Instances of Setup: every configuration of MCConfig with the shipped    *)
(* kind of catalog, and three families of catalogs with a plain            *)
(* configuration.                                                          *)
(***************************************************************************)
EXTENDS MCConfig, Setup

At(a)     == [kind |-> "modbus", addr |-> a, padded |-> FALSE]
Padded(a) == [kind |-> "modbus", addr |-> a, padded |-> TRUE]
Beyond(a) == [kind |-> "overflow", addr |-> a, padded |-> FALSE]
PseudoKey == [kind |-> "name", addr |-> 0, padded |-> FALSE]

Entry(key, length, mqtt, group) ==
    [key |-> key, length |-> length, type |-> "U16", mqtt |-> mqtt, group |-> group,
     name |-> "Register", scaled |-> TRUE, unsafe |-> FALSE,
     component |-> "", hints |-> TRUE, writable |-> FALSE]

Control(key, mqtt, group, component) ==
    [Entry(key, 1, mqtt, group) EXCEPT !.component = component, !.writable = TRUE]

-----------------------------------------------------------------------------
(* What parse has to tell apart: two addresses in two spellings, a          *)
(* pseudo-register, the zero that passes for one, two MQTT keys, and one    *)
(* entry for each thing that can be wrong with one.                         *)

Entries ==
    { Entry(At(1), 1, "a", "now_base"),
      [Entry(Padded(1), 1, "b", "now_base") EXCEPT !.type = "S16"],
      [Entry(Padded(1), 1, "", "now_base") EXCEPT !.hints = FALSE],
      [Entry(At(2), 2, "a", "day") EXCEPT !.type = "U32"],
      [Entry(At(2), 2, "b", "day") EXCEPT !.type = "BYTE"],
      [Entry(At(2), 1, "b", "day") EXCEPT !.type = "DAT"],
      [Entry(At(7), 2, "b", "day") EXCEPT !.type = "BIT"],
      [Entry(At(2), 5, "b", "day") EXCEPT !.type = "STR"],
      Entry(PseudoKey, 1, "b", "day"),
      Entry(Padded(0), 1, "b", "day"),
      Entry(Beyond(4), 1, "b", "day"),
      Entry(At(1), 1, "b", "now-base"),
      [Entry(At(1), 1, "b", "") EXCEPT !.unsafe = TRUE],
      [Entry(At(2), 1, "b", "day") EXCEPT !.name = ""],
      [Entry(At(2), 1, "b", "day") EXCEPT !.scaled = FALSE] }

LoaderFiles == UNION {[1..n -> Entries] : n \in 1..3}

-----------------------------------------------------------------------------
(* What a reader has to cover: every group of registers of at most LenMax   *)
(* words at the addresses 0..AddrMax.                                       *)

AddrMax == 6
LenMax  == 3

Groups ==
    {SelectSeq([i \in 1..(AddrMax + 1) |->
                    [Entry(At(i - 1), f[i - 1], "", "day") EXCEPT !.hints = FALSE]],
               LAMBDA e : e.length > 0) : f \in [0..AddrMax -> 0..LenMax]}

-----------------------------------------------------------------------------
(* What the document and the routes have to tell apart, beside the          *)
(* registers the synthetic switches and evcc drive.                         *)

MCSplit ==
    "a/b" :> <<"a", "b">> @@ "battery/batterymode" :> <<"battery", "batterymode">>
        @@ batteryModeWriteKey :> <<"evcc", "battery", "batterymode">>

MCVirtual ==
    { [key |-> "charge_active", group |-> "config", target |-> "charge_limit"],
      [key |-> "discharge_active", group |-> "config", target |-> "discharge_limit"] }

Shipped ==
    << Control(At(1), "mode", "now_base", "select"),
       Control(At(2), "charge_limit", "config", "number"),
       Control(At(3), "discharge_limit", "config", "number") >>

Additions ==
    { Entry(At(4), 1, "a", "day"),
      [Entry(At(5), 2, "b", "static") EXCEPT !.component = "binary_sensor"],
      Control(At(4), "a", "config", "switch"),
      Control(At(5), "c", "evcc", "number"),
      [Control(At(5), "c", "total", "number") EXCEPT !.writable = FALSE],
      Control(PseudoKey, "c", "config", "number"),
      Control(Padded(0), "c", "config", "number"),
      Entry(PseudoKey, 1, "api_date", "now_base"),
      Entry(At(5), 1, "api_date", "now_base"),
      Entry(PseudoKey, 1, "api_date", "day"),
      Control(At(4), "c", "", "number"),
      Control(At(4), "c", "config", "light"),
      Control(At(5), "a/b", "config", "number"),
      Control(At(4), "battery/batterymode", "evcc", "select"),
      Control(At(4), "charge_active", "config", "number"),
      Control(At(5), "charge_active", "config", "switch"),
      Control(At(6), "charge_limit", "config", "number"),
      Entry(At(4), 1, "", "day"),
      Entry(At(5), 1, "", "day"),
      [Entry(At(5), 1, "", "day") EXCEPT !.name = "a", !.hints = FALSE] }

DocumentFiles == UNION {{Shipped \o s : s \in [1..n -> Additions]} : n \in 0..2}

-----------------------------------------------------------------------------

Plainly == [file |-> Minimum, env |-> <<>>]

AllFiles == LoaderFiles \cup Groups \cup DocumentFiles

MCSources == AllSources \cup {Plainly}

AllSetups == ({Plainly} \X AllFiles) \cup (AllSources \X {Shipped})
=============================================================================
