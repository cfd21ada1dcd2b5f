-------------------------- MODULE MCPacketSimulator --------------------------
(***************************************************************************)
(* PacketSimulator with two small schemas: "stamped", a timestamp of one   *)
(* digit and a gap of one byte, and "named", a text of one byte; "orphan"  *)
(* is like "named", of a type with no active device.  What the codec makes *)
(* of their drafts is written out below, and is compared with PacketCodec  *)
(* before the run.                                                         *)
(***************************************************************************)
EXTENDS PacketSimulator, TLC

CONSTANTS f1, f2

MCSchemas == <<"stamped", "named", "orphan">>
MCDevices == <<"off", "d1", "d2">>
MCFits(d, s) == <<d, s>> \in {<<"d1", "stamped">>, <<"d2", "named">>}
MCGaps == {" ", "0"}

MCTexts(s) == IF s = "stamped" THEN {f1 :> <<"-">>} ELSE {f2 :> <<"acute">>, f2 :> <<"a">>}
MCDefaultDrafts(s) == IF s = "stamped" THEN f1 :> <<"0">> ELSE f2 :> <<" ">>
MCTimeDrafts(s, d) == IF s = "stamped" THEN {f1 :> <<"2">>} ELSE {}

MCDrafts(s) ==
  IF s = "stamped" THEN {f1 :> <<x>> : x \in {"0", "2", "-"}}
  ELSE {f2 :> <<x>> : x \in {" ", "a", "acute"}}

MCGenerate(s, d, gap) ==
  CASE s = "stamped" /\ d # f1 :> <<"-">> -> [ok |-> TRUE, value |-> <<d[f1][1], gap>>]
    [] s # "stamped" /\ d # f2 :> <<"acute">> -> [ok |-> TRUE, value |-> d[f2]]
    [] OTHER -> [ok |-> FALSE]

MCParse(s, payload) ==
  LET f == IF s = "stamped" THEN f1 ELSE f2
      text == <<payload[1]>>
      reading == IF s # "stamped" THEN text ELSE IF text = <<"2">> THEN 20 ELSE 0
  IN [ok |-> TRUE,
      value |-> [fields |-> f :> [raw |-> text, value |-> [kind |-> "text", text |-> text]],
                 readings |-> <<reading>>]]

-----------------------------------------------------------------------------
InMicroseconds(n) == n * 10

Codec == INSTANCE PacketCodec WITH
  PerSecond <- 10, PerMilli <- 10, MaxExact <- 100, Microseconds <- InMicroseconds, MinSecond <- 0, MaxSecond <- 9, MaxSafe <- 200, MaxBigint <- 300,
  MaxPayload <- 8

Layout(s) ==
  IF s = "stamped"
  THEN [length |-> 2,
        fields |-> f1 :> [start |-> 0, end |-> 1, codec |-> "integer", role |-> "timestamp"],
        rules |-> <<[type |-> "datetime", source |-> f1, unit |-> Null, constant |-> Null]>>]
  ELSE [length |-> Null,
        fields |-> f2 :> [start |-> 0, end |-> 1, codec |-> "utf8", role |-> "metric"],
        rules |-> <<[type |-> "string", source |-> f2, unit |-> Null, constant |-> Null]>>]

ASSUME TablesAssumption ==
  \A s \in SchemaIds :
    /\ MCDefaultDrafts(s) = Codec!CreateFieldDrafts(Layout(s))
    /\ \A gap \in MCGaps, d \in MCTexts(s) \cup {MCDefaultDrafts(s)} \cup MCTimeDrafts(s, Null) :
         LET payload == MCGenerate(s, d, gap)
         IN /\ payload = Codec!GeneratePayload(Layout(s), d, gap)
            /\ payload.ok => MCParse(s, payload.value) = Codec!ParsePayload(Layout(s), payload.value)
=============================================================================
