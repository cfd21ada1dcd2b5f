---------------------------- MODULE MCResourceForm ----------------------------
(* Two device types with parameters of every type, two schemas, and records *)
(* whose texts have blanks around them; chart 2 has an axis that was        *)
(* unassigned after the chart was made.                                     *)
EXTENDS ResourceForm

Rules ==
  << [payloadSchemaId |-> 1, parameterId |-> 2, sourceKind |-> "field", sourceFieldId |-> 1,
      constantValue |-> Null, timestampUnit |-> "milliseconds"],
     [payloadSchemaId |-> 1, parameterId |-> 3, sourceKind |-> "constant", sourceFieldId |-> Null,
      constantValue |-> <<"string", " x">>, timestampUnit |-> Null],
     [payloadSchemaId |-> 2, parameterId |-> 1, sourceKind |-> "constant", sourceFieldId |-> Null,
      constantValue |-> <<"integer", "-3">>, timestampUnit |-> Null] >>
Charts ==
  << [tabId |-> 1, title |-> "x", chartType |-> "bar", xAxisId |-> Null, yAxisId |-> 1,
      sortOrder |-> 0, isActive |-> FALSE],
     [tabId |-> 2, title |-> " x", chartType |-> "area", xAxisId |-> 2, yAxisId |-> 1,
      sortOrder |-> 2, isActive |-> TRUE] >>
MCSnapshot ==
  [users |-> << [username |-> "x", email |-> "x@x.x", firstName |-> "", lastName |-> "x",
                 isActive |-> TRUE, isSuperuser |-> TRUE],
                [username |-> "x", email |-> "x@x.x", firstName |-> "x", lastName |-> "x",
                 isActive |-> FALSE, isSuperuser |-> FALSE],
                [username |-> "x", email |-> "x@x.x", firstName |-> "x", lastName |-> " x",
                 isActive |-> TRUE, isSuperuser |-> FALSE] >>,
   companies |-> << [name |-> "x", userId |-> 2] >>,
   gateways |-> << [uid |-> "x", title |-> "x", companyId |-> 1, isActive |-> TRUE],
                   [uid |-> "x", title |-> "x", companyId |-> Null, isActive |-> FALSE] >>,
   devices |-> << [gatewayId |-> 2, deviceTypeId |-> 1, localId |-> "x", isActive |-> TRUE] >>,
   deviceTypes |-> << [code |-> "x", title |-> " x"], [code |-> "x", title |-> "x"] >>,
   eventTypes |-> << [code |-> "x", title |-> "x"] >>,
   parameters |-> << [code |-> "x", title |-> "x", valueType |-> "integer", unit |-> Null],
                     [code |-> "x", title |-> "x", valueType |-> "datetime", unit |-> Null],
                     [code |-> "x", title |-> "x", valueType |-> "string", unit |-> "x"],
                     [code |-> "x", title |-> "x", valueType |-> "boolean", unit |-> " "] >>,
   deviceTypeParameters |->
     << [deviceTypeId |-> 1, parameterId |-> 1], [deviceTypeId |-> 1, parameterId |-> 2],
        [deviceTypeId |-> 1, parameterId |-> 3], [deviceTypeId |-> 2, parameterId |-> 1],
        [deviceTypeId |-> 2, parameterId |-> 4] >>,
   payloadSchemas |->
     << [eventTypeId |-> 1, deviceTypeId |-> 1, version |-> 1, expectedLength |-> Null],
        [eventTypeId |-> 1, deviceTypeId |-> 2, version |-> 2, expectedLength |-> 2] >>,
   payloadFields |->
     << [payloadSchemaId |-> 1, code |-> "x", name |-> "x", startByte |-> 0, endByte |-> 3,
         wireCodec |-> "integer", role |-> "timestamp"],
        [payloadSchemaId |-> 2, code |-> "x", name |-> "x", startByte |-> 1, endByte |-> 2,
         wireCodec |-> "boolean", role |-> "metric"] >>,
   projectionRules |-> Rules,
   visualizationTabs |->
     << [deviceTypeId |-> 1, code |-> "x", title |-> "x", sortOrder |-> 0, isActive |-> TRUE],
        [deviceTypeId |-> 2, code |-> "x", title |-> "x", sortOrder |-> 1, isActive |-> TRUE] >>,
   visualizations |-> Charts]

MCTrimmed(t) == CASE t = " " -> "" [] t = " x" -> "x" [] OTHER -> t
MCTyped(kind) ==
  CASE kind \in {"number", "optionalNumber"} -> {"", "1", "03", "-3"}
    [] kind = "constant" -> {" x", "-0", "true"}
    [] kind = "email" -> {"x", "x@x.x"}
    [] kind = "password" -> {"x", "12345678"}
    [] OTHER -> {" x"}
MCNumbers == -3..5
MCUnsigned == {ToString(k) : k \in 0..5} \cup {"03"}
MCNumberOf(t) ==
  CASE t = "03" -> 3
    [] t = "-0" -> 0
    [] OTHER -> IF t \in {ToString(k) : k \in MCNumbers}
                THEN CHOOSE k \in MCNumbers : ToString(k) = t ELSE Null
MCMaxChanges(r) ==
  CASE r \in {"projectionRules", "visualizations"} -> 5 [] r = "payloadFields" -> 4 [] OTHER -> 3
=============================================================================
