------------------------------ MODULE MCHooks ------------------------------
(* Small instances of what the build weaves into the application.            *)
EXTENDS MCParts, Trampoline, SqlHooks, HttpHooks, GenAIStream, DsnParse,
        ClientHooks, KafkaWriter
-----------------------------------------------------------------------------
(* Trampoline: every pair of rules on one function.                          *)

FuncRules(names) == [name : names, before : {"none", "plain", "skips"}, after : BOOLEAN]
MCRuleLists ==
  {<<r>> : r \in FuncRules({"r"})} \cup {<<r, s>> : r, s \in FuncRules({"r"})}

(* GenAIStream: no text, a one-byte character, one and a two-byte one.       *)

MCTexts == {<<>>, <<1>>, <<1, 2>>}

(* DsnParse: an IPv6 address, and passwords that hold the separators of the  *)
(* formats.                                                                  *)

MCHosts == {<<"db">>, <<":", ":", "1">>}
MCPorts == {<<>>, <<"99">>}
MCDatabases == {<<>>, <<"shop">>, <<"shop", " ", "eu">>}
MCPasswords ==
  {<<"pw">>, <<"p", "@", "q">>, <<"p", "/", ":", "q">>, <<"p", " ", "dbname", "=", "x">>,
   <<"p", "'", " ", "q">>}
MCParams == {<<>>, <<"?", "tls", "=", "x">>}

(* ClientHooks: every way the three variables can decide.                    *)

Switch(off, enabledOnly, disabledOnly) ==
  [sdkDisabled |-> off, enabled |-> enabledOnly, disabled |-> disabledOnly]
MCSwitches ==
  {Switch(FALSE, {}, {}), Switch(TRUE, {}, {}),
   Switch(FALSE, {"kafka", "nethttp", "stripe", "linodego"}, {}),
   Switch(FALSE, {}, {"nethttp", "gin", "k8s_client_go"}),
   Switch(FALSE, {}, {"opensearch", "grpc", "kafka", "linodego"})}
-----------------------------------------------------------------------------
HooksInit ==
  /\ IF part = "trampoline" THEN TrampolineInit
     ELSE /\ woven = [levels |-> <<>>, slot |-> CHOOSE s \in Slots : TRUE, guard |-> FALSE]
          /\ calls = <<>> /\ suppressed = 0 /\ returned = NoFrame
  /\ SqlInit /\ (part # "sql" => enabled)
  /\ HttpInit
  /\ GenInit
  /\ DsnInit
  /\ ClientInit /\ (part # "clients" => env = Switch(FALSE, {}, {}))
  /\ KafkaInit /\ (part # "kafka" => writer = [async |-> FALSE, user |-> FALSE, layers |-> 0])

HooksVars ==
  <<trampolineVars, sqlVars, httpVars, genVars, dsnRead, clientVars, kafkaVars>>

HooksNext ==
  \/ /\ part = "trampoline" /\ TrampolineNext
     /\ UNCHANGED <<sqlVars, httpVars, genVars, dsnRead, clientVars, kafkaVars>>
  \/ /\ part = "sql" /\ SqlNext
     /\ UNCHANGED <<trampolineVars, httpVars, genVars, dsnRead, clientVars, kafkaVars>>
  \/ /\ part = "http" /\ HttpNext
     /\ UNCHANGED <<trampolineVars, sqlVars, genVars, dsnRead, clientVars, kafkaVars>>
  \/ /\ part = "genai" /\ GenNext
     /\ UNCHANGED <<trampolineVars, sqlVars, httpVars, dsnRead, clientVars, kafkaVars>>
  \/ /\ part = "dsn" /\ DsnNext
     /\ UNCHANGED <<trampolineVars, sqlVars, httpVars, genVars, clientVars, kafkaVars>>
  \/ /\ part = "clients" /\ ClientNext
     /\ UNCHANGED <<trampolineVars, sqlVars, httpVars, genVars, dsnRead, kafkaVars>>
  \/ /\ part = "kafka" /\ KafkaNext
     /\ UNCHANGED <<trampolineVars, sqlVars, httpVars, genVars, dsnRead, clientVars>>
=============================================================================
